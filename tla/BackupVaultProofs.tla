-------------------------- MODULE BackupVaultProofs -------------------------
(***************************************************************************)
(* Theorems about BackupVault for every choice of its constants.           *)
(***************************************************************************)
EXTENDS BackupVault, WellFoundedInduction, TLAPS

USE DEF world, vault, process

ShapedJob == {j \in Job : Shaped(j)}

\* A new value of one job record keeps the type of all.
LEMMA JobUpdate ==
    ASSUME TypeOK, NEW w \in Workers, NEW j \in ShapedJob
    PROVE  [job EXCEPT ![w] = j] \in [Workers -> ShapedJob]
  BY DEF TypeOK, ShapedJob

\* The record of a free slot is well formed.
LEMMA IdleType == Idle \in ShapedJob
  BY DEF Idle, Job, NoEntries, ShapedJob, Shaped

\* Ending a job keeps the types of the records and of the counters.
LEMMA FinishType ==
    ASSUME TypeOK, NEW w \in Workers, Finish(w)
    PROVE  job' \in [Workers -> ShapedJob] /\ ctr' \in [Workers -> 0..MaxSnaps]
  <1>1. job' \in [Workers -> ShapedJob]
    BY IdleType, JobUpdate DEF Finish
  <1>2. ctr' \in [Workers -> 0..MaxSnaps]
    <2>1. CASE LongLived
      BY <2>1 DEF Finish, TypeOK
    <2>2. CASE ~LongLived
      BY <2>2, BoundsAssumption DEF Finish, TypeOK
    <2>. QED  BY <2>1, <2>2
  <1>. QED  BY <1>1, <1>2

\* A reference snapshot is a listed snapshot.
LEMMA ReferenceType ==
    ASSUME TypeOK, NEW s \in Sources, NEW k \in Kinds, NEW p \in Reference(s, k)
    PROVE  p \in Ids /\ meta[p] \in Snapshot
  <1>1. k \in Strategies
    BY BoundsAssumption
  <1>2. CASE k = "full"
    BY <1>2 DEF Reference
  <1>3. CASE k = "incremental"
    BY <1>3 DEF Reference, Latest, Snaps, Listed
  <1>4. CASE k = "differential"
    BY <1>4 DEF Reference, Latest, FullSnaps, Snaps, Listed
  <1>. QED  BY <1>1, <1>2, <1>3, <1>4 DEF Strategies

\* Choosing the reference snapshot of a backup.
LEMMA ChooseType ==
    ASSUME TypeOK, NEW w \in Workers, NEW s \in Sources, NEW k \in Kinds,
           Choose(w, s, k)
    PROVE  TypeOK'
  <1> DEFINE plan(p) == [src |-> s, strategy |-> k, parent |-> p]
             chain(p) == IF p = None THEN {} ELSE {meta[p]}
             j(p) == [Idle EXCEPT !.pc = "new", !.plan = plan(p), !.chain = chain(p)]
  <1>1. PICK p \in (IF Reference(s, k) = {} THEN {None} ELSE Reference(s, k)) :
            job' = [job EXCEPT ![w] = j(p)]
    BY DEF Choose
  <1>2. p = None \/ (p \in Ids /\ meta[p] \in Snapshot)
    BY ReferenceType
  <1>3. plan(p) \in Plan
    BY <1>2, BoundsAssumption DEF Plan
  <1>4. chain(p) \in SUBSET Snapshot
    BY <1>2
  <1>5. j(p) \in ShapedJob
    <2>. HIDE DEF plan, chain
    <2>. QED  BY <1>3, <1>4, SentinelAssumption
              DEF Job, Idle, NoEntries, ShapedJob, Shaped
  <1>6. job' \in [Workers -> ShapedJob]
    <2>. HIDE DEF j
    <2>. QED  BY <1>1, <1>5, JobUpdate
  <1>. QED  BY <1>6 DEF Choose, TypeOK, ShapedJob

\* The fields of a job record, and of the snapshot it builds.
LEMMA JobFields ==
    ASSUME TypeOK, NEW w \in Workers
    PROVE  /\ job[w] \in Job /\ Shaped(job[w])
           /\ job[w].pc = "new" => job[w].plan \in Plan
           /\ job[w].pc \notin {"idle", "new", "rmdata"} =>
                job[w].snap \in Snapshot /\ job[w].id \in Ids
           /\ job[w].pc = "rmdata" => job[w].id \in Ids
           /\ job[w].pc \in {"hash", "copy"} =>
                job[w].file \in Files /\ job[w].stat \in Stat
           /\ job[w].pc = "copy" => job[w].checksum \in Contents
  <1>1. job[w] \in Job /\ Shaped(job[w])
    BY DEF TypeOK
  <1>. QED  BY <1>1 DEF Job, Shaped

\* Giving the backup its id and its empty snapshot.
LEMMA StartType ==
    ASSUME TypeOK, NEW w \in Workers, Start(w)
    PROVE  TypeOK'
  <1> DEFINE c == job[w]
             id == <<clock, ctr[w]>>
             v == tree[c.plan.src]
             seen == [f \in Files |-> IF v[f] = None THEN None ELSE v[f].content]
             snap == [born |-> births + 1, src |-> c.plan.src,
                      strategy |-> c.plan.strategy, parent |-> c.plan.parent,
                      entries |-> NoEntries]
             j == [c EXCEPT !.pc = "prepare", !.plan = None, !.id = id,
                            !.snap = snap, !.seen = seen]
  <1>1. c \in Job /\ Shaped(c) /\ c.pc = "new" /\ c.plan \in Plan
    BY JobFields DEF Start
  <1>2. id \in Ids
    BY DEF Start, TypeOK, Ids
  <1>3. seen \in [Files -> Contents \cup {None}]
    <2>. SUFFICES ASSUME NEW f \in Files, v[f] # None
                  PROVE  v[f].content \in Contents
      OBVIOUS
    <2>. QED  BY <1>1 DEF TypeOK, Version, Plan
  <1>4. births + 1 \in 1..MaxSnaps
    BY BoundsAssumption DEF Start, TypeOK
  <1>5. snap \in Snapshot
    <2>1. NoEntries \in [Files -> Entry \cup {None}]
      BY DEF NoEntries
    <2>. QED  BY <2>1, <1>1, <1>4 DEF Snapshot, Plan
  <1>6. job' = [job EXCEPT ![w] = j]
    BY DEF Start
  <1>7. j \in ShapedJob
    <2>. HIDE DEF c, id, seen, snap
    <2>1. j \in Job
      BY <1>1, <1>2, <1>3, <1>5 DEF Job
    <2>2. /\ j.pc = "prepare" /\ j.plan = None /\ j.id = id /\ j.snap = snap
          /\ j.file = c.file /\ j.stat = c.stat /\ j.checksum = c.checksum
      BY <1>1 DEF Job
    <2>. HIDE DEF j
    <2>3. Shaped(j)
      BY <1>1, <1>2, <1>5, <2>2, SentinelAssumption DEF Shaped
    <2>. QED  BY <2>1, <2>3 DEF ShapedJob
  <1>8. job' \in [Workers -> ShapedJob]
    <2>. HIDE DEF j
    <2>. QED  BY <1>6, <1>7, JobUpdate
  <1>9. ctr' \in [Workers -> 0..MaxSnaps]
    BY BoundsAssumption DEF Start, TypeOK
  <1>10. births' \in 0..MaxSnaps
    BY <1>4 DEF Start
  <1>11. used' \subseteq Ids
    BY <1>2 DEF Start, TypeOK
  <1>12. UNCHANGED <<world, vault, stops>>
    BY DEF Start
  <1>. QED
    <2>. HIDE DEF c, id, v, seen, snap, j
    <2>. QED  BY <1>8, <1>9, <1>10, <1>11, <1>12 DEF TypeOK, ShapedJob

\* Loading the chain and listing the files keeps the types.
LEMMA PrepareType ==
    ASSUME TypeOK, NEW w \in Workers, Prepare(w)
    PROVE  TypeOK'
  <1> DEFINE load == IF job[w].snap.strategy = "incremental"
                     THEN UNION {Lineage(s.parent) : s \in job[w].chain} ELSE {}
             new == {meta[x] : x \in load}
             todo == {f \in Files : tree[job[w].snap.src][f] # None}
             j == [job[w] EXCEPT !.pc = "scan", !.todo = todo, !.chain = @ \cup new]
  <1>1. new \subseteq Snapshot
    <2>. HIDE DEF load
    <2>1. \A x \in load : Listed(x)
      BY DEF Prepare, load
    <2>. QED  BY <2>1 DEF Listed
  <1>2. job' = [job EXCEPT ![w] = j]
    BY DEF Prepare, TypeOK
  <1>3. j \in ShapedJob
    <2>1. todo \subseteq Files
      OBVIOUS
    <2> DEFINE c == job[w]
    <2>2. c \in Job /\ Shaped(c) /\ c.pc = "prepare"
      BY JobFields DEF Prepare
    <2>. HIDE DEF new, todo
    <2>3. j \in Job
      BY <1>1, <2>1, <2>2 DEF Job
    <2>4. /\ j.pc = "scan" /\ j.file = c.file /\ j.stat = c.stat /\ j.plan = c.plan
          /\ j.id = c.id /\ j.snap = c.snap /\ j.checksum = c.checksum
      BY <2>2 DEF Job
    <2>. HIDE DEF c, j
    <2>5. Shaped(j)
      BY <2>2, <2>4 DEF Shaped
    <2>. QED  BY <2>3, <2>5 DEF ShapedJob
  <1>4. job' \in [Workers -> ShapedJob]
    <2>. HIDE DEF j
    <2>. QED  BY <1>2, <1>3, JobUpdate
  <1>. QED  BY <1>4 DEF Prepare, TypeOK, ShapedJob

\* Comparing a file with the file map keeps the types.
LEMMA ExamineType ==
    ASSUME TypeOK, NEW w \in Workers, NEW f \in Files, Examine(w, f)
    PROVE  TypeOK'
  <1> DEFINE v == tree[job[w].snap.src][f]
             st == [mtime |-> v.mtime, size |-> SizeOf[v.content]]
             j1 == [job[w] EXCEPT !.pc = "hash", !.file = f, !.stat = st]
             j2 == [job[w] EXCEPT !.todo = @ \ {f}]
  <1>1. st \in Stat
    <2>1. v \in Version
      <3>1. job[w].snap \in Snapshot /\ v # None
        BY JobFields DEF Examine
      <3>2. job[w].snap.src \in Sources
        BY <3>1 DEF Snapshot
      <3>. QED  BY <3>1, <3>2 DEF TypeOK
    <2>. QED  BY <2>1, SizeAssumption DEF Version, Stat
  <1>2. j1 \in ShapedJob
    <2> DEFINE c == job[w]
    <2>1. c \in Job /\ Shaped(c) /\ c.pc = "scan"
      BY JobFields DEF Examine
    <2>. HIDE DEF st
    <2>2. j1 \in Job
      BY <1>1, <2>1 DEF Job
    <2>3. /\ j1.pc = "hash" /\ j1.file = f /\ j1.stat = st
          /\ j1.plan = c.plan /\ j1.id = c.id /\ j1.snap = c.snap
          /\ j1.checksum = c.checksum
      BY <2>1 DEF Job
    <2>. HIDE DEF c, j1
    <2>4. Shaped(j1)
      BY <1>1, <2>1, <2>3, SentinelAssumption DEF Shaped
    <2>. QED  BY <2>2, <2>4 DEF ShapedJob
  <1>3. j2 \in ShapedJob
    <2> DEFINE c == job[w]
    <2>1. c \in Job /\ Shaped(c)
      BY JobFields
    <2>2. j2 \in Job /\ j2.pc = c.pc /\ j2.file = c.file /\ j2.stat = c.stat
          /\ j2.plan = c.plan /\ j2.id = c.id /\ j2.snap = c.snap
          /\ j2.checksum = c.checksum
      BY <2>1 DEF Job
    <2>. HIDE DEF c, j2
    <2>3. Shaped(j2)
      BY <2>1, <2>2 DEF Shaped
    <2>. QED  BY <2>2, <2>3 DEF ShapedJob
  <1>4. job' = [job EXCEPT ![w] = j1] \/ job' = [job EXCEPT ![w] = j2]
    BY DEF Examine, TypeOK
  <1>5. job' \in [Workers -> ShapedJob]
    <2>. HIDE DEF j1, j2
    <2>. QED  BY <1>2, <1>3, <1>4, JobUpdate
  <1>. QED  BY <1>5 DEF Examine, TypeOK, ShapedJob

\* Hashing a file keeps the types.
LEMMA HashType ==
    ASSUME TypeOK, NEW w \in Workers, Hash(w)
    PROVE  TypeOK'
  <1> DEFINE v == tree[job[w].snap.src][job[w].file]
             j == [job[w] EXCEPT !.pc = "copy", !.checksum = v.content]
  <1>1. v.content \in Contents
    <2>1. job[w].snap \in Snapshot /\ job[w].file \in Files /\ v # None
      BY JobFields DEF Hash
    <2>2. job[w].snap.src \in Sources
      BY <2>1 DEF Snapshot
    <2>3. v \in Version
      BY <2>1, <2>2 DEF TypeOK
    <2>. QED  BY <2>3 DEF Version
  <1>2. j \in ShapedJob
    <2> DEFINE c == job[w]
    <2>1. c \in Job /\ Shaped(c) /\ c.pc = "hash"
      BY JobFields DEF Hash
    <2>. HIDE DEF v
    <2>2. j \in Job
      BY <1>1, <2>1 DEF Job
    <2>3. /\ j.pc = "copy" /\ j.checksum = v.content /\ j.file = c.file
          /\ j.stat = c.stat /\ j.plan = c.plan /\ j.id = c.id /\ j.snap = c.snap
      BY <2>1 DEF Job
    <2>. HIDE DEF c, j
    <2>4. Shaped(j)
      BY <1>1, <2>1, <2>3, SentinelAssumption DEF Shaped
    <2>. QED  BY <2>2, <2>4 DEF ShapedJob
  <1>3. job' = [job EXCEPT ![w] = j]
    BY DEF Hash, TypeOK
  <1>4. job' \in [Workers -> ShapedJob]
    <2>. HIDE DEF j
    <2>. QED  BY <1>2, <1>3, JobUpdate
  <1>. QED  BY <1>4 DEF Hash, TypeOK, ShapedJob

\* The snapshot Copy leaves in the job record.
LEMMA CopySnapshot ==
    ASSUME TypeOK, NEW w \in Workers, Copy(w)
    PROVE  LET j == job[w]
               e == [mtime |-> j.stat.mtime, size |-> j.stat.size,
                     checksum |-> j.checksum]
           IN /\ e \in Entry
              /\ [j.snap EXCEPT !.entries[j.file] = e] \in Snapshot
              /\ job' = [job EXCEPT ![w] =
                            [j EXCEPT !.pc = "scan", !.todo = @ \ {j.file},
                                      !.snap = [j.snap EXCEPT !.entries[j.file] = e],
                                      !.file = None, !.stat = None,
                                      !.checksum = None]]
  <1> DEFINE j == job[w]
             e == [mtime |-> j.stat.mtime, size |-> j.stat.size,
                   checksum |-> j.checksum]
  <1>1. e \in Entry
    BY JobFields DEF Copy, Stat, Entry
  <1>2. [j.snap EXCEPT !.entries[j.file] = e] \in Snapshot
    <2>. HIDE DEF e
    <2>. QED  BY <1>1, JobFields DEF Copy, Snapshot
  <1>3. job' = [job EXCEPT ![w] =
                  [j EXCEPT !.pc = "scan", !.todo = @ \ {j.file},
                            !.snap = [j.snap EXCEPT !.entries[j.file] = e],
                            !.file = None, !.stat = None, !.checksum = None]]
    BY DEF Copy
  <1>. QED  BY <1>1, <1>2, <1>3

\* Storing a file and its entry keeps the types.
LEMMA CopyType ==
    ASSUME TypeOK, NEW w \in Workers, Copy(w)
    PROVE  TypeOK'
  <1> DEFINE c == job[w]
             e == [mtime |-> c.stat.mtime, size |-> c.stat.size,
                   checksum |-> c.checksum]
             snap == [c.snap EXCEPT !.entries[c.file] = e]
             v == tree[c.snap.src][c.file]
             j == [c EXCEPT !.pc = "scan", !.todo = @ \ {c.file}, !.snap = snap,
                            !.file = None, !.stat = None, !.checksum = None]
  <1>1. snap \in Snapshot /\ job' = [job EXCEPT ![w] = j]
    BY CopySnapshot
  <1>2. v.content \in Contents
    BY JobFields DEF Copy, TypeOK, Snapshot, Version
  <1>3. data' \in [Ids -> [Files -> Contents \cup {None}]]
    <2>1. data' = [data EXCEPT ![c.id][c.file] = v.content]
      BY DEF Copy
    <2>. HIDE DEF v
    <2>. QED  BY <1>2, <2>1 DEF TypeOK
  <1>4. j \in ShapedJob
    <2>. HIDE DEF snap
    <2>1. c \in Job /\ Shaped(c) /\ c.pc = "copy"
      BY JobFields DEF Copy
    <2>2. j \in Job
      BY <1>1, <2>1 DEF Job
    <2>3. j.pc = "scan" /\ j.plan = c.plan /\ j.id = c.id /\ j.snap = snap
          /\ j.file = None /\ j.stat = None /\ j.checksum = None
      BY <2>1 DEF Job
    <2>. HIDE DEF c, j
    <2>4. Shaped(j)
      BY <1>1, <2>1, <2>3, SentinelAssumption DEF Shaped
    <2>. QED  BY <2>2, <2>4 DEF ShapedJob
  <1>5. job' \in [Workers -> ShapedJob]
    <2>. HIDE DEF j
    <2>. QED  BY <1>1, <1>4, JobUpdate
  <1>. QED  BY <1>3, <1>5 DEF Copy, TypeOK, ShapedJob

\* Opening the metadata file keeps the types.
LEMMA OpenMetaType ==
    ASSUME TypeOK, NEW w \in Workers, OpenMeta(w)
    PROVE  TypeOK'
  <1> DEFINE j == [job[w] EXCEPT !.pc = "publish"]
  <1>1. j \in ShapedJob
    BY JobFields DEF OpenMeta, ShapedJob, Shaped, Job
  <1>2. job' = [job EXCEPT ![w] = j]
    BY DEF OpenMeta, TypeOK
  <1>3. job' \in [Workers -> ShapedJob]
    <2>. HIDE DEF j
    <2>. QED  BY <1>1, <1>2, JobUpdate
  <1>. QED  BY <1>3 DEF OpenMeta, TypeOK, ShapedJob

\* Publishing a snapshot keeps the types.
LEMMA WriteMetaType ==
    ASSUME TypeOK, NEW w \in Workers, WriteMeta(w)
    PROVE  TypeOK'
  <1>1. job[w].snap \in Snapshot /\ job[w].seen \in [Files -> Contents \cup {None}]
    BY JobFields DEF WriteMeta, Job
  <1>2. job' \in [Workers -> ShapedJob] /\ ctr' \in [Workers -> 0..MaxSnaps]
    BY FinishType DEF WriteMeta
  <1>. QED  BY <1>1, <1>2 DEF WriteMeta, TypeOK, ShapedJob

\* A job that stops half way keeps the types.
LEMMA AbortType ==
    ASSUME TypeOK, NEW w \in Workers, Abort(w)
    PROVE  TypeOK'
  <1>1. job' \in [Workers -> ShapedJob] /\ ctr' \in [Workers -> 0..MaxSnaps]
    BY FinishType DEF Abort
  <1>2. stops' \in 0..MaxStops
    BY BoundsAssumption DEF Abort, TypeOK
  <1>. QED  BY <1>1, <1>2 DEF Abort, TypeOK, ShapedJob

\* Removing a metadata file keeps the types.
LEMMA DeleteMetaType ==
    ASSUME TypeOK, NEW w \in Workers, NEW x \in Ids, DeleteMeta(w, x)
    PROVE  TypeOK'
  <1> DEFINE j == [Idle EXCEPT !.pc = "rmdata", !.id = x]
  <1>1. j \in ShapedJob
    BY SentinelAssumption DEF Idle, NoEntries, ShapedJob, Shaped, Job
  <1>2. job' \in [Workers -> ShapedJob]
    <2>1. job' = [job EXCEPT ![w] = j]
      BY DEF DeleteMeta
    <2>. HIDE DEF j
    <2>. QED  BY <1>1, <2>1, JobUpdate
  <1>3. stops' \in 0..MaxStops
    BY BoundsAssumption DEF DeleteMeta, TypeOK
  <1>. QED  BY <1>2, <1>3 DEF DeleteMeta, TypeOK, ShapedJob, NoEntries

\* Removing a data directory keeps the types.
LEMMA DeleteDataType ==
    ASSUME TypeOK, NEW w \in Workers, DeleteData(w)
    PROVE  TypeOK'
  <1>1. job' \in [Workers -> ShapedJob] /\ ctr' \in [Workers -> 0..MaxSnaps]
    BY FinishType DEF DeleteData
  <1>. QED  BY <1>1 DEF DeleteData, TypeOK, ShapedJob, NoEntries

\* A change of a source tree keeps the types.
LEMMA TouchType ==
    ASSUME TypeOK, NEW s \in Sources, NEW f \in Files,
           NEW v \in Version \cup {None}, Touch(s, f, v)
    PROVE  TypeOK'
  <1> DEFINE job2(w) == IF job[w].snap # None /\ job[w].snap.src = s
                        THEN [job[w] EXCEPT !.seen[f] = None] ELSE job[w]
  <1>1. ASSUME NEW w \in Workers
        PROVE  job2(w) \in ShapedJob
    BY JobFields DEF ShapedJob, Shaped, Job
  <1>2. job' \in [Workers -> ShapedJob]
    <2>1. job' = [w \in Workers |-> job2(w)]
      BY DEF Touch
    <2>. HIDE DEF job2
    <2>. QED  BY <1>1, <2>1
  <1>3. edits' \in 0..MaxEdits
    BY BoundsAssumption DEF Touch, TypeOK
  <1>4. tree' \in [Sources -> [Files -> Version \cup {None}]]
    BY DEF Touch, TypeOK
  <1>5. versions' \subseteq Sources \X Files \X Version
    BY DEF Touch, TypeOK
  <1>. QED  BY <1>2, <1>3, <1>4, <1>5 DEF Touch, TypeOK, ShapedJob

\* Every user action is a change of a source tree to a version.
LEMMA UserType ==
    ASSUME TypeOK, NEW s \in Sources, NEW f \in Files, User(s, f)
    PROVE  TypeOK'
  <1>1. CASE Edit(s, f)
    <2>1. PICK c \in Contents : Touch(s, f, [mtime |-> clock, content |-> c])
      BY <1>1 DEF Edit
    <2>2. [mtime |-> clock, content |-> c] \in Version
      BY DEF TypeOK, Version
    <2>. QED  BY <2>1, <2>2, TouchType
  <1>2. CASE Unlink(s, f)
    BY <1>2, TouchType DEF Unlink
  <1>3. CASE PutBack(s, f)
    BY <1>3, TouchType DEF PutBack
  <1>. QED  BY <1>1, <1>2, <1>3 DEF User

\* Every value the vault, the source trees and the processes can hold is of its
\* declared kind, for every choice of the constants.
THEOREM TypeCorrect == Spec => []TypeOK
  <1>1. Init => TypeOK
    <2>. SUFFICES ASSUME Init PROVE TypeOK
      OBVIOUS
    <2>1. 0 \in Times
      BY BoundsAssumption DEF Times
    <2>2. tree \in [Sources -> [Files -> Version \cup {None}]]
      BY <2>1 DEF Init, Version
    <2>. QED  BY <2>1, <2>2, BoundsAssumption, IdleType
              DEF Init, TypeOK, ShapedJob, NoEntries
  <1>2. TypeOK /\ [Next]_vars => TypeOK'
    <2>. SUFFICES ASSUME TypeOK, [Next]_vars PROVE TypeOK'
      OBVIOUS
    <2>1. ASSUME NEW w \in Workers, Backup(w)
          PROVE  TypeOK'
      BY <2>1, ChooseType, StartType, PrepareType, ExamineType, HashType, CopyType,
         OpenMetaType, WriteMetaType DEF Backup
    <2>2. ASSUME NEW w \in Workers, Delete(w) \/ Abort(w)
          PROVE  TypeOK'
      BY <2>2, DeleteMetaType, DeleteDataType, AbortType DEF Delete
    <2>3. ASSUME NEW s \in Sources, NEW f \in Files, User(s, f)
          PROVE  TypeOK'
      BY <2>3, UserType
    <2>4. CASE Tick
      BY <2>4, BoundsAssumption DEF Tick, TypeOK, Times
    <2>5. CASE UNCHANGED vars
      BY <2>5 DEF vars, TypeOK
    <2>. QED  BY <2>1, <2>2, <2>3, <2>4, <2>5 DEF Next
  <1>. QED  BY <1>1, <1>2, PTL DEF Spec

-----------------------------------------------------------------------------
(* What each step leaves.                                                  *)

\* A backup that starts.
LEMMA StartEffect ==
    ASSUME TypeOK, NEW w \in Workers, Start(w)
    PROVE  /\ job[w].snap = None /\ job[w].plan \in Plan
           /\ job'[w].pc = "prepare" /\ job'[w].id = <<clock, ctr[w]>>
           /\ job'[w].chain = job[w].chain /\ job'[w].file = None
           /\ job'[w].todo = job[w].todo
           /\ job'[w].snap = [born |-> births + 1, src |-> job[w].plan.src,
                              strategy |-> job[w].plan.strategy,
                              parent |-> job[w].plan.parent, entries |-> NoEntries]
           /\ job'[w].seen = [f \in Files |->
                                 IF tree[job[w].plan.src][f] = None THEN None
                                 ELSE tree[job[w].plan.src][f].content]
           /\ \A v \in Workers \ {w} : job'[v] = job[v]
           /\ <<clock, ctr[w]>> \in Ids /\ used' = used \cup {<<clock, ctr[w]>>}
           /\ births' = births + 1
           /\ UNCHANGED <<meta, data, witness, tree, versions>>
  <1> DEFINE c == job[w]
             id == <<clock, ctr[w]>>
             snap == [born |-> births + 1, src |-> c.plan.src,
                      strategy |-> c.plan.strategy, parent |-> c.plan.parent,
                      entries |-> NoEntries]
             seen == [f \in Files |-> IF tree[c.plan.src][f] = None THEN None
                                      ELSE tree[c.plan.src][f].content]
             j == [c EXCEPT !.pc = "prepare", !.plan = None, !.id = id,
                            !.snap = snap, !.seen = seen]
  <1>1. c \in Job /\ Shaped(c) /\ c.pc = "new" /\ c.plan \in Plan
    BY JobFields DEF Start
  <1>2. job' = [job EXCEPT ![w] = j]
    BY DEF Start
  <1>3. job'[w] = j
    <2>. HIDE DEF j
    <2>. QED  BY <1>2 DEF TypeOK
  <1>4. \A v \in Workers \ {w} : job'[v] = job[v]
    <2>. HIDE DEF j
    <2>. QED  BY <1>2 DEF TypeOK
  <1>5. /\ j.pc = "prepare" /\ j.id = id /\ j.snap = snap /\ j.seen = seen
        /\ j.chain = c.chain /\ j.file = c.file /\ j.todo = c.todo
    <2>. HIDE DEF c, id, snap, seen
    <2>. QED  BY <1>1 DEF Job
  <1>6. c.file = None /\ c.snap = None
    BY <1>1 DEF Shaped
  <1>7. /\ id \in Ids /\ used' = used \cup {id} /\ births' = births + 1
        /\ UNCHANGED <<meta, data, witness, tree, versions>>
    BY DEF Start, TypeOK, Ids
  <1>. HIDE DEF c, id, snap, seen, j
  <1>8. /\ job'[w].pc = "prepare" /\ job'[w].id = id /\ job'[w].chain = c.chain
        /\ job'[w].file = None /\ job'[w].todo = c.todo
        /\ job'[w].snap = snap /\ job'[w].seen = seen
    BY <1>3, <1>5, <1>6
  <1>9. job'[w].snap = [born |-> births + 1, src |-> job[w].plan.src,
                        strategy |-> job[w].plan.strategy,
                        parent |-> job[w].plan.parent, entries |-> NoEntries]
    BY <1>8, Zenon DEF snap, c
  <1>10. job'[w].seen = [f \in Files |->
                            IF tree[job[w].plan.src][f] = None THEN None
                            ELSE tree[job[w].plan.src][f].content]
    BY <1>8, Zenon DEF seen, c
  <1>. QED  BY <1>1, <1>4, <1>6, <1>7, <1>8, <1>9, <1>10 DEF c, id

\* A file and its entry that are stored.
LEMMA CopyEffect ==
    ASSUME TypeOK, NEW w \in Workers, Copy(w)
    PROVE  LET j == job[w]
               e == [mtime |-> j.stat.mtime, size |-> j.stat.size,
                     checksum |-> j.checksum]
               v == tree[j.snap.src][j.file]
           IN /\ j.snap \in Snapshot /\ j.id \in Ids /\ j.file \in Files
              /\ j.snap # None /\ j.pc = "copy"
              /\ v # None /\ v \in Version /\ e \in Entry
              /\ job'[w].pc = "scan" /\ job'[w].id = j.id /\ job'[w].seen = j.seen
              /\ job'[w].chain = j.chain /\ job'[w].todo = j.todo \ {j.file}
              /\ job'[w].file = None
              /\ job'[w].snap = [j.snap EXCEPT !.entries[j.file] = e]
              /\ job'[w].snap \in Snapshot
              /\ job'[w].snap.entries[j.file] = e
              /\ \A f \in Files \ {j.file} :
                     job'[w].snap.entries[f] = j.snap.entries[f]
              /\ \A u \in Workers \ {w} : job'[u] = job[u]
              /\ data'[j.id][j.file] = v.content
              /\ \A f \in Files \ {j.file} : data'[j.id][f] = data[j.id][f]
              /\ \A x \in Ids \ {j.id} : data'[x] = data[x]
              /\ UNCHANGED <<meta, used, witness, tree, versions, births>>
  <1> DEFINE c == job[w]
             e == [mtime |-> c.stat.mtime, size |-> c.stat.size,
                   checksum |-> c.checksum]
             snap == [c.snap EXCEPT !.entries[c.file] = e]
             v == tree[c.snap.src][c.file]
             j == [c EXCEPT !.pc = "scan", !.todo = @ \ {c.file}, !.snap = snap,
                            !.file = None, !.stat = None, !.checksum = None]
  <1>1. /\ c.snap \in Snapshot /\ c.id \in Ids /\ c.file \in Files
        /\ c.snap # None /\ c.pc = "copy" /\ c \in Job
    BY JobFields DEF Copy, Shaped
  <1>2. v # None /\ v \in Version
    BY <1>1 DEF Copy, TypeOK, Snapshot
  <1>3. snap \in Snapshot /\ job' = [job EXCEPT ![w] = j] /\ e \in Entry
    BY CopySnapshot
  <1>4. /\ snap.entries[c.file] = e
        /\ \A f \in Files \ {c.file} : snap.entries[f] = c.snap.entries[f]
    BY <1>1 DEF Snapshot
  <1>5. /\ j.pc = "scan" /\ j.id = c.id /\ j.seen = c.seen /\ j.chain = c.chain
        /\ j.todo = c.todo \ {c.file} /\ j.file = None /\ j.snap = snap
    <2>. HIDE DEF c, snap
    <2>. QED  BY <1>1 DEF Job
  <1>6. job'[w] = j /\ \A u \in Workers \ {w} : job'[u] = job[u]
    <2>. HIDE DEF j
    <2>. QED  BY <1>3 DEF TypeOK
  <1>7. /\ data'[c.id][c.file] = v.content
        /\ \A f \in Files \ {c.file} : data'[c.id][f] = data[c.id][f]
        /\ \A x \in Ids \ {c.id} : data'[x] = data[x]
        /\ UNCHANGED <<meta, used, witness, tree, versions, births>>
    BY <1>1 DEF Copy, TypeOK
  <1>. HIDE DEF c, e, snap, v, j
  <1>8. /\ job'[w].pc = "scan" /\ job'[w].id = c.id /\ job'[w].seen = c.seen
        /\ job'[w].chain = c.chain /\ job'[w].todo = c.todo \ {c.file}
        /\ job'[w].file = None /\ job'[w].snap = snap /\ job'[w].snap \in Snapshot
        /\ job'[w].snap.entries[c.file] = e
        /\ \A f \in Files \ {c.file} : job'[w].snap.entries[f] = c.snap.entries[f]
    BY <1>3, <1>4, <1>5, <1>6
  <1>. QED  BY <1>1, <1>2, <1>3, <1>6, <1>7, <1>8, Zenon DEF c, e, snap, v

\* A metadata file that is opened.
LEMMA OpenMetaEffect ==
    ASSUME TypeOK, NEW w \in Workers, OpenMeta(w)
    PROVE  /\ job[w].id \in Ids /\ job[w].snap # None
           /\ job[w].pc = "scan" /\ job[w].todo = {}
           /\ job'[w].id = job[w].id /\ job'[w].snap = job[w].snap
           /\ job'[w].seen = job[w].seen /\ job'[w].chain = job[w].chain
           /\ job'[w].pc = "publish" /\ job'[w].todo = {}
           /\ \A u \in Workers \ {w} : job'[u] = job[u]
           /\ meta'[job[w].id] = Torn
           /\ \A x \in Ids \ {job[w].id} : meta'[x] = meta[x]
           /\ UNCHANGED <<data, used, witness, tree, versions, births>>
  <1>1. /\ job[w].id \in Ids /\ job[w].snap # None
        /\ job[w].pc = "scan" /\ job[w].todo = {}
    BY JobFields DEF OpenMeta, Shaped
  <1>2. /\ job'[w].id = job[w].id /\ job'[w].snap = job[w].snap
        /\ job'[w].seen = job[w].seen /\ job'[w].chain = job[w].chain
        /\ job'[w].pc = "publish" /\ job'[w].todo = job[w].todo
        /\ \A u \in Workers \ {w} : job'[u] = job[u]
    BY JobFields DEF OpenMeta, TypeOK, Job
  <1>3. /\ meta'[job[w].id] = Torn
        /\ \A x \in Ids \ {job[w].id} : meta'[x] = meta[x]
        /\ UNCHANGED <<data, used, witness, tree, versions, births>>
    BY <1>1 DEF OpenMeta, TypeOK
  <1>. QED  BY <1>1, <1>2, <1>3

\* A snapshot that is published.
LEMMA WriteMetaEffect ==
    ASSUME TypeOK, NEW w \in Workers, WriteMeta(w)
    PROVE  /\ job[w].id \in Ids /\ job[w].snap \in Snapshot /\ job[w].snap # None
           /\ job[w].pc = "publish"
           /\ job'[w] = Idle /\ \A u \in Workers \ {w} : job'[u] = job[u]
           /\ meta'[job[w].id] = job[w].snap
           /\ witness'[job[w].id] = job[w].seen
           /\ \A x \in Ids \ {job[w].id} :
                  meta'[x] = meta[x] /\ witness'[x] = witness[x]
           /\ UNCHANGED <<data, used, tree, versions, births>>
  <1>1. /\ job[w].id \in Ids /\ job[w].snap \in Snapshot /\ job[w].snap # None
        /\ job[w].pc = "publish"
    BY JobFields DEF WriteMeta, Shaped
  <1>2. job'[w] = Idle /\ \A u \in Workers \ {w} : job'[u] = job[u]
    BY DEF WriteMeta, Finish, TypeOK
  <1>3. /\ meta'[job[w].id] = job[w].snap
        /\ \A x \in Ids \ {job[w].id} : meta'[x] = meta[x]
    BY <1>1 DEF WriteMeta, TypeOK
  <1>4. /\ witness'[job[w].id] = job[w].seen
        /\ \A x \in Ids \ {job[w].id} : witness'[x] = witness[x]
    BY <1>1 DEF WriteMeta, TypeOK
  <1>5. UNCHANGED <<data, used, tree, versions, births>>
    BY DEF WriteMeta
  <1>. QED  BY <1>1, <1>2, <1>3, <1>4, <1>5

\* A metadata file that is removed.
LEMMA DeleteMetaEffect ==
    ASSUME TypeOK, NEW w \in Workers, NEW x \in Ids, DeleteMeta(w, x)
    PROVE  /\ Listed(x) /\ ~Listed(x)' /\ job[w].snap = None
           /\ job'[w].snap = None /\ job'[w].pc = "rmdata" /\ job'[w].id = x
           /\ \A u \in Workers \ {w} : job'[u] = job[u]
           /\ \A y \in Ids \ {x} : meta'[y] = meta[y] /\ witness'[y] = witness[y]
           /\ UNCHANGED <<data, used, tree, versions, births>>
  <1>1. job[w].pc = "idle" /\ Listed(x)
    BY DEF DeleteMeta
  <1>2. job[w].snap = None
    BY <1>1, JobFields DEF Shaped
  <1>3. /\ job'[w].snap = None /\ job'[w].pc = "rmdata" /\ job'[w].id = x
        /\ \A u \in Workers \ {w} : job'[u] = job[u]
    BY DEF DeleteMeta, TypeOK, Idle
  <1>4. /\ meta'[x] = None
        /\ \A y \in Ids \ {x} : meta'[y] = meta[y] /\ witness'[y] = witness[y]
        /\ UNCHANGED <<data, used, tree, versions, births>>
    BY DEF DeleteMeta, TypeOK
  <1>. QED  BY <1>1, <1>2, <1>3, <1>4, SentinelAssumption DEF Listed

\* A data directory that is removed.
LEMMA DeleteDataEffect ==
    ASSUME TypeOK, NEW w \in Workers, DeleteData(w)
    PROVE  /\ job[w].id \in Ids /\ job[w].id # None /\ job[w].pc = "rmdata"
           /\ job[w].snap = None
           /\ job'[w] = Idle /\ \A u \in Workers \ {w} : job'[u] = job[u]
           /\ \A x \in Ids \ {job[w].id} : data'[x] = data[x]
           /\ UNCHANGED <<meta, used, witness, tree, versions, births>>
  <1>1. /\ job[w].id \in Ids /\ job[w].id # None /\ job[w].pc = "rmdata"
        /\ job[w].snap = None
    BY JobFields DEF DeleteData, Shaped
  <1>2. job'[w] = Idle /\ \A u \in Workers \ {w} : job'[u] = job[u]
    BY DEF DeleteData, Finish, TypeOK
  <1>3. /\ \A x \in Ids \ {job[w].id} : data'[x] = data[x]
        /\ UNCHANGED <<meta, used, witness, tree, versions, births>>
    BY <1>1 DEF DeleteData, TypeOK
  <1>. QED  BY <1>1, <1>2, <1>3

\* A change of a source tree: the backups of the source forget what they saw.
LEMMA TouchEffect ==
    ASSUME TypeOK, NEW s \in Sources, NEW f \in Files, NEW v, Touch(s, f, v)
    PROVE  /\ \A w \in Workers :
                /\ job'[w].id = job[w].id /\ job'[w].snap = job[w].snap
                /\ job'[w].pc = job[w].pc /\ job'[w].checksum = job[w].checksum
                /\ job'[w].file = job[w].file /\ job'[w].chain = job[w].chain
                /\ job'[w].todo = job[w].todo /\ job'[w].stat = job[w].stat
                /\ job'[w].plan = job[w].plan
                /\ \A g \in Files : job'[w].seen[g] # None =>
                      /\ job'[w].seen[g] = job[w].seen[g]
                      /\ job[w].snap # None => job[w].snap.src # s \/ g # f
           /\ tree'[s][f] = v
           /\ \A t \in Sources, g \in Files : t # s \/ g # f => tree'[t][g] = tree[t][g]
           /\ UNCHANGED <<meta, data, used, witness, births>>
  <1>1. tree'[s][f] = v
        /\ \A t \in Sources, g \in Files : t # s \/ g # f => tree'[t][g] = tree[t][g]
    BY DEF Touch, TypeOK
  <1>2. UNCHANGED <<meta, data, used, witness, births>>
    BY DEF Touch
  <1>3. ASSUME NEW w \in Workers
        PROVE  /\ job'[w].id = job[w].id /\ job'[w].snap = job[w].snap
               /\ job'[w].pc = job[w].pc /\ job'[w].checksum = job[w].checksum
               /\ job'[w].file = job[w].file /\ job'[w].chain = job[w].chain
               /\ job'[w].todo = job[w].todo /\ job'[w].stat = job[w].stat
               /\ job'[w].plan = job[w].plan
               /\ \A g \in Files : job'[w].seen[g] # None =>
                     /\ job'[w].seen[g] = job[w].seen[g]
                     /\ job[w].snap # None => job[w].snap.src # s \/ g # f
    <2>1. job[w] \in Job
      BY JobFields
    <2>2. CASE job[w].snap # None /\ job[w].snap.src = s
      <3>1. job'[w] = [job[w] EXCEPT !.seen[f] = None]
        BY <2>2 DEF Touch
      <3>. QED  BY <2>1, <3>1 DEF Job
    <2>3. CASE ~(job[w].snap # None /\ job[w].snap.src = s)
      <3>1. job'[w] = job[w]
        BY <2>3 DEF Touch
      <3>. QED  BY <2>3, <3>1
    <2>. QED  BY <2>2, <2>3
  <1>. QED  BY <1>1, <1>2, <1>3

-----------------------------------------------------------------------------
(* When snapshot ids cannot repeat.                                        *)

\* No two process runs start a backup in one second, or a single process that lives
\* on makes all the backups.
LoneProcess == LongLived /\ \A v, w \in Workers : v = w
FreshIds == ~SameSecondRuns \/ LoneProcess

\* The counter of a lone process is ahead of every id it gave.
CounterAhead == LoneProcess => \A w \in Workers, x \in used : x[2] < ctr[w]

\* Every step keeps the counter ahead of the ids.
LEMMA CounterAheadStep == TypeOK /\ CounterAhead /\ [Next]_vars => CounterAhead'
  <1>. SUFFICES ASSUME TypeOK, CounterAhead, [Next]_vars, LoneProcess
                PROVE  \A w \in Workers, x \in used' : x[2] < ctr'[w]
    BY DEF CounterAhead, LoneProcess
  <1>1. ASSUME NEW w \in Workers, Start(w)
        PROVE  \A v \in Workers, x \in used' : x[2] < ctr'[v]
    <2>1. ctr'[w] = ctr[w] + 1 /\ ctr[w] \in Nat
      BY <1>1, BoundsAssumption DEF Start, TypeOK
    <2>2. \A x \in used : x[2] < ctr[w] /\ x[2] \in Nat
      BY BoundsAssumption DEF CounterAhead, TypeOK, Ids
    <2>3. \A x \in used' : x[2] < ctr'[w]
      <3>1. used' = used \cup {<<clock, ctr[w]>>}
        BY <1>1 DEF Start
      <3>. QED  BY <3>1, <2>1, <2>2
    <2>. QED  BY <2>3 DEF LoneProcess
  <1>2. CASE UNCHANGED <<used, ctr>>
    BY <1>2 DEF CounterAhead
  <1>3. CASE \E w \in Workers : Backup(w) /\ ~Start(w)
    <2>. UNCHANGED <<used, ctr>>
      BY <1>3 DEF Backup, Choose, Prepare, Examine, Hash, Copy, OpenMeta, WriteMeta,
                  Finish, LoneProcess
    <2>. QED  BY <1>2
  <1>4. CASE \E w \in Workers : Delete(w) \/ Abort(w)
    <2>. UNCHANGED <<used, ctr>>
      BY <1>4 DEF Delete, Abort, DeleteMeta, DeleteData, Finish, LoneProcess
    <2>. QED  BY <1>2
  <1>5. CASE Tick \/ (\E s \in Sources, f \in Files : User(s, f)) \/ UNCHANGED vars
    <2>. UNCHANGED <<used, ctr>>
      BY <1>5 DEF Tick, User, Edit, Unlink, PutBack, Touch, vars
    <2>. QED  BY <1>2
  <1>. QED  BY <1>1, <1>3, <1>4, <1>5 DEF Next

\* A backup starts with an id that was never used.
LEMMA FreshStart ==
    ASSUME TypeOK, CounterAhead, FreshIds, NEW w \in Workers, Start(w)
    PROVE  <<clock, ctr[w]>> \notin used
  <1>1. CASE ~SameSecondRuns
    BY <1>1 DEF Start
  <1>2. CASE LoneProcess
    <2>. SUFFICES ASSUME <<clock, ctr[w]>> \in used PROVE FALSE
      OBVIOUS
    <2>1. <<clock, ctr[w]>>[2] < ctr[w]
      BY <1>2 DEF CounterAhead
    <2>. QED  BY <2>1, BoundsAssumption DEF TypeOK
  <1>. QED  BY <1>1, <1>2 DEF FreshIds

-----------------------------------------------------------------------------
(* A listed snapshot has its data, when ids cannot repeat.                 *)

\* A step that leaves meta and data alone and gives job w a record with the same
\* id and a snapshot with the same entries, or an idle one, keeps the invariant.
LEMMA QuietStep ==
    ASSUME VaultInv, TypeOK', NEW w \in Workers,
           UNCHANGED <<meta, data, used>>,
           \A v \in Workers \ {w} : job'[v] = job[v],
           \/ job'[w] = Idle
           \/ /\ job'[w].id = job[w].id
              /\ job'[w].snap = job[w].snap
              /\ job'[w].pc = "rmdata" <=> job[w].pc = "rmdata"
    PROVE  VaultInv'
  <1> USE DEF VaultInv
  <1>1. IdsApart'
    BY DEF IdsApart, Idle
  <1>2. BuildingHidden'
    BY DEF BuildingHidden, Listed, Idle
  <1>3. DeletedHidden'
    BY DEF DeletedHidden, Listed, Idle
  <1>4. PublishedHasData'
    BY DEF PublishedHasData, Listed
  <1>. QED  BY <1>1, <1>2, <1>3, <1>4

\* A new backup gets an id nothing in the vault belongs to.
LEMMA StartInv ==
    ASSUME VaultInv, TypeOK', NEW w \in Workers, Start(w),
           <<clock, ctr[w]>> \notin used
    PROVE  VaultInv'
  <1> DEFINE id == <<clock, ctr[w]>>
  <1>1. id \in Ids /\ id \notin used /\ used' = used \cup {id}
        /\ UNCHANGED <<meta, data>>
    BY DEF Start, VaultInv, TypeOK, Ids
  <1> DEFINE snap == [born |-> births + 1, src |-> job[w].plan.src,
                      strategy |-> job[w].plan.strategy,
                      parent |-> job[w].plan.parent, entries |-> NoEntries]
  <1>2. /\ job'[w].id = id /\ job'[w].pc = "prepare"
        /\ job'[w].snap.entries = NoEntries
    <2>1. job'[w].snap = snap /\ job'[w].id = id /\ job'[w].pc = "prepare"
      BY StartEffect, Zenon DEF VaultInv
    <2>2. snap.entries = NoEntries
      OBVIOUS
    <2>. QED  BY <2>1, <2>2
  <1>. HIDE DEF snap
  <1>3. \A v \in Workers \ {w} : job'[v] = job[v]
    BY DEF Start, VaultInv, TypeOK
  <1>4. meta[id] = None
    BY <1>1 DEF VaultInv, IdsApart
  <1>. HIDE DEF id
  <1>5. IdsApart'
    BY <1>1, <1>2, <1>3 DEF VaultInv, IdsApart
  <1>6. BuildingHidden'
    <2>. SUFFICES ASSUME NEW v \in Workers, job'[v].snap # None
                  PROVE  /\ ~Listed(job[v].id)'
                         /\ \A f \in Files : job'[v].snap.entries[f] # None
                                => data'[job'[v].id][f] # None
      BY DEF BuildingHidden
    <2>1. CASE v = w
      BY <2>1, <1>1, <1>2, <1>4, SentinelAssumption DEF Listed, NoEntries
    <2>2. CASE v # w
      BY <2>2, <1>1, <1>3 DEF VaultInv, BuildingHidden, Listed
    <2>. QED  BY <2>1, <2>2
  <1>7. DeletedHidden'
    BY <1>1, <1>2, <1>3 DEF VaultInv, DeletedHidden, Listed
  <1>8. PublishedHasData'
    BY <1>1 DEF VaultInv, PublishedHasData, Listed
  <1>. QED  BY <1>5, <1>6, <1>7, <1>8 DEF VaultInv

\* Storing a file writes under an id that is not listed and that no other job has.
LEMMA CopyInv ==
    ASSUME VaultInv, TypeOK', NEW w \in Workers, Copy(w)
    PROVE  VaultInv'
  <1> DEFINE c == job[w]
             e == [mtime |-> c.stat.mtime, size |-> c.stat.size,
                   checksum |-> c.checksum]
             snap == [c.snap EXCEPT !.entries[c.file] = e]
             v == tree[c.snap.src][c.file]
  <1>. TypeOK
    BY DEF VaultInv
  <1>1. /\ c.snap \in Snapshot /\ c.id \in Ids /\ c.file \in Files
        /\ c.snap # None
    BY CopyEffect
  <1>2. /\ job'[w].id = c.id /\ job'[w].snap = snap /\ job'[w].pc = "scan"
        /\ \A u \in Workers \ {w} : job'[u] = job[u]
    BY CopyEffect
  <1>3. \A f \in Files \ {c.file} : snap.entries[f] = c.snap.entries[f]
    BY <1>1 DEF Snapshot
  <1>4. v.content \in Contents
    BY CopyEffect DEF Version
  <1>5. /\ data'[c.id][c.file] = v.content
        /\ \A f \in Files \ {c.file} : data'[c.id][f] = data[c.id][f]
        /\ \A x \in Ids \ {c.id} : data'[x] = data[x]
    BY CopyEffect
  <1>6. UNCHANGED <<meta, used>>
    BY DEF Copy
  <1>. HIDE DEF c, snap, v
  <1>7. IdsApart'
    BY <1>1, <1>2, <1>6 DEF VaultInv, IdsApart, c
  <1>8. BuildingHidden'
    <2>. SUFFICES ASSUME NEW u \in Workers, job'[u].snap # None
                  PROVE  /\ ~Listed(job[u].id)'
                         /\ \A f \in Files : job'[u].snap.entries[f] # None
                                => data'[job'[u].id][f] # None
      BY DEF BuildingHidden
    <2>1. CASE u = w
      BY <2>1, <1>1, <1>2, <1>3, <1>4, <1>5, <1>6, SentinelAssumption
         DEF VaultInv, BuildingHidden, Listed, c
    <2>2. CASE u # w
      <3>1. job[u].id # c.id /\ job[u].id \in Ids
        BY <2>2, <1>1, <1>2, JobFields DEF VaultInv, IdsApart, c, Shaped
      <3>. QED  BY <2>2, <3>1, <1>2, <1>5, <1>6 DEF VaultInv, BuildingHidden, Listed
    <2>. QED  BY <2>1, <2>2
  <1>9. DeletedHidden'
    BY <1>2, <1>6 DEF VaultInv, DeletedHidden, Listed
  <1>10. PublishedHasData'
    <2>1. ~Listed(c.id)
      BY <1>1 DEF VaultInv, BuildingHidden, c
    <2>. QED  BY <2>1, <1>5, <1>6 DEF VaultInv, PublishedHasData, Listed
  <1>. QED  BY <1>7, <1>8, <1>9, <1>10 DEF VaultInv

\* A metadata file that is open is not listed.
LEMMA OpenMetaInv ==
    ASSUME VaultInv, TypeOK', NEW w \in Workers, OpenMeta(w)
    PROVE  VaultInv'
  <1> DEFINE id == job[w].id
  <1>. TypeOK
    BY DEF VaultInv
  <1>1. id \in Ids /\ id # None /\ job[w].snap # None
    BY JobFields DEF OpenMeta, Shaped
  <1>2. /\ job'[w].id = id /\ job'[w].snap = job[w].snap /\ job'[w].pc = "publish"
        /\ \A u \in Workers \ {w} : job'[u] = job[u]
    BY JobFields DEF OpenMeta, TypeOK, Job
  <1>3. /\ meta'[id] = Torn /\ \A x \in Ids \ {id} : meta'[x] = meta[x]
        /\ UNCHANGED <<data, used>>
    BY <1>1 DEF OpenMeta, TypeOK
  <1>4. \A x : Listed(x)' => Listed(x)
    BY <1>3, SentinelAssumption DEF Listed
  <1>5. IdsApart'
    <2>1. id \in used
      BY <1>1 DEF VaultInv, IdsApart
    <2>. QED  BY <2>1, <1>1, <1>2, <1>3 DEF VaultInv, IdsApart
  <1>6. BuildingHidden'
    BY <1>2, <1>3, <1>4 DEF VaultInv, BuildingHidden
  <1>7. DeletedHidden'
    BY <1>2, <1>3, <1>4 DEF VaultInv, DeletedHidden
  <1>8. PublishedHasData'
    <2>1. \A x \in Ids : Listed(x)' => meta'[x] = meta[x]
      BY <1>3, SentinelAssumption DEF Listed
    <2>. QED  BY <2>1, <1>3, <1>4 DEF VaultInv, PublishedHasData
  <1>. QED  BY <1>5, <1>6, <1>7, <1>8 DEF VaultInv

\* A snapshot is published with the data of all its entries.
LEMMA WriteMetaInv ==
    ASSUME VaultInv, TypeOK', NEW w \in Workers, WriteMeta(w)
    PROVE  VaultInv'
  <1> DEFINE id == job[w].id
  <1>. TypeOK
    BY DEF VaultInv
  <1>1. id \in Ids /\ id # None /\ job[w].snap \in Snapshot /\ job[w].snap # None
    BY JobFields DEF WriteMeta, Shaped
  <1>2. job'[w] = Idle /\ \A u \in Workers \ {w} : job'[u] = job[u]
    BY DEF WriteMeta, Finish, TypeOK
  <1>3. /\ meta'[id] = job[w].snap /\ \A x \in Ids \ {id} : meta'[x] = meta[x]
        /\ UNCHANGED <<data, used>>
    BY <1>1 DEF WriteMeta, TypeOK
  <1>4. IdsApart'
    <2>1. id \in used
      BY <1>1 DEF VaultInv, IdsApart
    <2>. QED  BY <2>1, <1>1, <1>2, <1>3 DEF VaultInv, IdsApart, Idle
  <1>5. ASSUME NEW u \in Workers, job'[u].id # None
        PROVE  job'[u] = job[u] /\ job[u].id # id /\ job[u].id \in Ids
    <2>1. u # w
      BY <1>2, <1>5 DEF Idle
    <2>. QED  BY <2>1, <1>1, <1>2, <1>5 DEF VaultInv, IdsApart, TypeOK, Job
  <1>6. BuildingHidden'
    <2>. SUFFICES ASSUME NEW u \in Workers, job'[u].snap # None
                  PROVE  /\ ~Listed(job[u].id)'
                         /\ \A f \in Files : job'[u].snap.entries[f] # None
                                => data'[job'[u].id][f] # None
      BY DEF BuildingHidden
    <2>1. job'[u].id # None
      <3>1. u # w
        BY <1>2 DEF Idle
      <3>. QED  BY <3>1, <1>2, JobFields DEF Shaped
    <2>. QED  BY <2>1, <1>3, <1>5 DEF VaultInv, BuildingHidden, Listed
  <1>7. DeletedHidden'
    <2>. SUFFICES ASSUME NEW u \in Workers, job'[u].pc = "rmdata"
                  PROVE  ~Listed(job[u].id)'
      BY DEF DeletedHidden
    <2>1. job'[u].id # None
      <3>1. u # w
        BY <1>2 DEF Idle
      <3>. QED  BY <3>1, <1>2, JobFields DEF Shaped
    <2>. QED  BY <2>1, <1>3, <1>5 DEF VaultInv, DeletedHidden, Listed
  <1>8. PublishedHasData'
    <2>. SUFFICES ASSUME NEW x \in Ids, Listed(x)', NEW f \in Files,
                         meta'[x].entries[f] # None
                  PROVE  data'[x][f] # None
      BY DEF PublishedHasData
    <2>1. CASE x = id
      BY <2>1, <1>1, <1>3 DEF VaultInv, BuildingHidden
    <2>2. CASE x # id
      BY <2>2, <1>3 DEF VaultInv, PublishedHasData, Listed
    <2>. QED  BY <2>1, <2>2
  <1>. QED  BY <1>4, <1>6, <1>7, <1>8 DEF VaultInv

\* A snapshot stops being listed before its data goes.
LEMMA DeleteMetaInv ==
    ASSUME VaultInv, TypeOK', NEW w \in Workers, NEW x \in Ids, DeleteMeta(w, x)
    PROVE  VaultInv'
  <1>. TypeOK
    BY DEF VaultInv
  <1>1. /\ job'[w].id = x /\ job'[w].snap = None /\ job'[w].pc = "rmdata"
        /\ \A u \in Workers \ {w} : job'[u] = job[u]
    BY DEF DeleteMeta, TypeOK, Idle
  <1>2. /\ meta'[x] = None /\ \A y \in Ids \ {x} : meta'[y] = meta[y]
        /\ UNCHANGED <<data, used>>
    BY DEF DeleteMeta, TypeOK
  <1>3. \A y : Listed(y)' => Listed(y) /\ meta'[y] = meta[y]
    BY <1>2, SentinelAssumption DEF Listed
  <1>4. Listed(x) /\ x \in used
    BY SentinelAssumption DEF DeleteMeta, Listed, VaultInv, IdsApart
  <1>5. ~Listed(x)'
    BY <1>2, SentinelAssumption DEF Listed
  <1>6. IdsApart'
    <2>1. \A u \in Workers : job[u].snap # None => job[u].id # x
      BY <1>4 DEF VaultInv, BuildingHidden
    <2>. QED  BY <2>1, <1>1, <1>2, <1>4 DEF VaultInv, IdsApart
  <1>7. BuildingHidden'
    BY <1>1, <1>2, <1>3 DEF VaultInv, BuildingHidden
  <1>8. DeletedHidden'
    BY <1>1, <1>3, <1>5 DEF VaultInv, DeletedHidden
  <1>9. PublishedHasData'
    BY <1>2, <1>3 DEF VaultInv, PublishedHasData
  <1>. QED  BY <1>6, <1>7, <1>8, <1>9 DEF VaultInv

\* The data removed belongs to an id that is not listed.
LEMMA DeleteDataInv ==
    ASSUME VaultInv, TypeOK', NEW w \in Workers, DeleteData(w)
    PROVE  VaultInv'
  <1> DEFINE id == job[w].id
  <1>. TypeOK
    BY DEF VaultInv
  <1>1. id \in Ids /\ id # None /\ ~Listed(id)
    BY JobFields DEF DeleteData, VaultInv, DeletedHidden, Shaped
  <1>2. job'[w] = Idle /\ \A u \in Workers \ {w} : job'[u] = job[u]
    BY DEF DeleteData, Finish, TypeOK
  <1>3. /\ \A x \in Ids \ {id} : data'[x] = data[x]
        /\ UNCHANGED <<meta, used>>
    BY DEF DeleteData, TypeOK
  <1>4. IdsApart'
    BY <1>2, <1>3 DEF VaultInv, IdsApart, Idle
  <1>5. BuildingHidden'
    <2>. SUFFICES ASSUME NEW u \in Workers, job'[u].snap # None
                  PROVE  /\ ~Listed(job[u].id)'
                         /\ \A f \in Files : job'[u].snap.entries[f] # None
                                => data'[job'[u].id][f] # None
      BY DEF BuildingHidden
    <2>1. u # w /\ job'[u] = job[u]
      BY <1>2 DEF Idle
    <2>2. job[u].id # id /\ job[u].id \in Ids
      BY <2>1, <1>1, JobFields DEF VaultInv, IdsApart, Shaped
    <2>. QED  BY <2>1, <2>2, <1>3 DEF VaultInv, BuildingHidden, Listed
  <1>6. DeletedHidden'
    BY <1>2, <1>3 DEF VaultInv, DeletedHidden, Listed, Idle
  <1>7. PublishedHasData'
    BY <1>1, <1>3 DEF VaultInv, PublishedHasData, Listed
  <1>. QED  BY <1>4, <1>5, <1>6, <1>7 DEF VaultInv

\* Changes of the source trees do not reach the vault.
LEMMA TouchInv ==
    ASSUME VaultInv, TypeOK', NEW s \in Sources, NEW f \in Files, User(s, f)
    PROVE  VaultInv'
  <1>. TypeOK
    BY DEF VaultInv
  <1>1. PICK v : Touch(s, f, v)
    BY DEF User, Edit, Unlink, PutBack
  <1>2. \A w \in Workers : /\ job'[w].id = job[w].id
                           /\ job'[w].snap = job[w].snap
                           /\ job'[w].pc = job[w].pc
    BY <1>1, JobFields DEF Touch, Job
  <1>3. UNCHANGED <<meta, data, used>>
    BY <1>1 DEF Touch
  <1>4. IdsApart'
    BY <1>2, <1>3 DEF VaultInv, IdsApart
  <1>5. BuildingHidden'
    BY <1>2, <1>3 DEF VaultInv, BuildingHidden, Listed
  <1>6. DeletedHidden'
    BY <1>2, <1>3 DEF VaultInv, DeletedHidden, Listed
  <1>7. PublishedHasData'
    BY <1>3 DEF VaultInv, PublishedHasData, Listed
  <1>. QED  BY <1>4, <1>5, <1>6, <1>7 DEF VaultInv

\* The steps of a backup that touch neither the vault nor the used ids, and Abort.
Quiet(w) == \/ \E s \in Sources, k \in Kinds : Choose(w, s, k)
            \/ Prepare(w) \/ (\E f \in Files : Examine(w, f)) \/ Hash(w) \/ Abort(w)

\* What a quiet step leaves of the job.
LEMMA QuietEffect ==
    ASSUME TypeOK, NEW w \in Workers, Quiet(w)
    PROVE  /\ UNCHANGED <<meta, data, used, witness, tree, versions, births>>
           /\ \A v \in Workers \ {w} : job'[v] = job[v]
           /\ \/ job'[w] = Idle /\ Abort(w)
              \/ /\ job'[w].id = job[w].id
                 /\ job'[w].snap = job[w].snap
                 /\ job'[w].pc = "rmdata" <=> job[w].pc = "rmdata"
                 /\ job[w].snap # None => job'[w].seen = job[w].seen
  <1> DEFINE Kept == /\ job'[w].id = job[w].id
                     /\ job'[w].snap = job[w].snap
                     /\ job'[w].pc = "rmdata" <=> job[w].pc = "rmdata"
                     /\ job[w].snap # None => job'[w].seen = job[w].seen
  <1>1. UNCHANGED <<meta, data, used, witness, tree, versions, births>>
    BY DEF Quiet, Choose, Prepare, Examine, Hash, Abort
  <1>2. \A v \in Workers \ {w} : job'[v] = job[v]
    BY DEF Quiet, Choose, Prepare, Examine, Hash, Abort, Finish, TypeOK
  <1>. SUFFICES (job'[w] = Idle /\ Abort(w)) \/ Kept
    BY <1>1, <1>2
  <1>3. CASE Prepare(w)
    <2>1. PICK todo, chain :
              job' = [job EXCEPT ![w].pc = "scan", ![w].todo = todo,
                                 ![w].chain = chain]
      BY <1>3 DEF Prepare
    <2>2. job[w].pc = "prepare" /\ job[w] \in Job
      BY <1>3, JobFields DEF Prepare
    <2>3. job'[w] = [job[w] EXCEPT !.pc = "scan", !.todo = todo, !.chain = chain]
      BY <2>1 DEF TypeOK
    <2>. QED  BY <2>2, <2>3 DEF Job
  <1>4. CASE \E f \in Files : Examine(w, f)
    <2>1. PICK f, st, todo :
              \/ job' = [job EXCEPT ![w].pc = "hash", ![w].file = f, ![w].stat = st]
              \/ job' = [job EXCEPT ![w].todo = todo]
      BY <1>4 DEF Examine
    <2>2. job[w].pc = "scan" /\ job[w] \in Job
      BY <1>4, JobFields DEF Examine
    <2> DEFINE r1 == [job[w] EXCEPT !.pc = "hash", !.file = f, !.stat = st]
               r2 == [job[w] EXCEPT !.todo = todo]
    <2>3. job'[w] = r1 \/ job'[w] = r2
      BY <2>1 DEF TypeOK
    <2>4. \A r \in {r1, r2} : /\ r.id = job[w].id /\ r.snap = job[w].snap
                             /\ r.seen = job[w].seen /\ r.pc # "rmdata"
      BY <2>2 DEF Job
    <2>. HIDE DEF r1, r2
    <2>. QED  BY <2>2, <2>3, <2>4
  <1>5. CASE Hash(w)
    <2>1. PICK sum : job' = [job EXCEPT ![w].pc = "copy", ![w].checksum = sum]
      BY <1>5 DEF Hash
    <2>2. job[w].pc = "hash" /\ job[w] \in Job
      BY <1>5, JobFields DEF Hash
    <2>3. job'[w] = [job[w] EXCEPT !.pc = "copy", !.checksum = sum]
      BY <2>1 DEF TypeOK
    <2>. QED  BY <2>2, <2>3 DEF Job
  <1>6. CASE Abort(w)
    BY <1>6 DEF Abort, Finish, TypeOK
  <1>7. CASE \E s \in Sources, k \in Kinds : Choose(w, s, k)
    <2>1. PICK plan, chain :
              job' = [job EXCEPT ![w] = [Idle EXCEPT !.pc = "new", !.plan = plan,
                                                     !.chain = chain]]
      BY <1>7 DEF Choose
    <2>2. job[w].pc = "idle" /\ job[w].id = None /\ job[w].snap = None
      BY <1>7, JobFields DEF Choose, Shaped
    <2>3. job'[w] = [Idle EXCEPT !.pc = "new", !.plan = plan, !.chain = chain]
      BY <2>1 DEF TypeOK
    <2>. QED  BY <2>2, <2>3 DEF Idle
  <1>. QED  BY <1>3, <1>4, <1>5, <1>6, <1>7 DEF Quiet

\* A quiet step keeps the invariant.
LEMMA QuietInv ==
    ASSUME VaultInv, TypeOK', NEW w \in Workers, Quiet(w)
    PROVE  VaultInv'
  <1>1. TypeOK
    BY DEF VaultInv
  <1>. QED  BY <1>1, QuietEffect, QuietStep

\* VaultInv is inductive.
LEMMA VaultInvStep ==
    ASSUME VaultInv, TypeOK', CounterAhead, FreshIds, [Next]_vars
    PROVE  VaultInv'
  <1>1. ASSUME NEW w \in Workers, Backup(w)
        PROVE  VaultInv'
    <2>1. CASE Start(w)
      BY <2>1, StartInv, FreshStart DEF VaultInv
    <2>. QED  BY <1>1, <2>1, QuietInv, CopyInv, OpenMetaInv, WriteMetaInv
              DEF Backup, Quiet
  <1>2. ASSUME NEW w \in Workers, Delete(w) \/ Abort(w)
        PROVE  VaultInv'
    BY <1>2, DeleteMetaInv, DeleteDataInv, QuietInv DEF Delete, Quiet
  <1>3. ASSUME NEW s \in Sources, NEW f \in Files, User(s, f)
        PROVE  VaultInv'
    BY <1>3, TouchInv
  <1>4. CASE Tick \/ UNCHANGED vars
    BY <1>4 DEF Tick, vars, VaultInv, IdsApart, BuildingHidden, DeletedHidden,
                PublishedHasData, Listed
  <1>. QED  BY <1>1, <1>2, <1>3, <1>4 DEF Next

\* VaultInv holds of an empty vault.
LEMMA VaultInvInit == Init /\ TypeOK => VaultInv
  BY SentinelAssumption
  DEF Init, VaultInv, IdsApart, BuildingHidden, DeletedHidden, PublishedHasData,
      Listed, Idle

\* The inductive invariant is an invariant.
LEMMA VaultInvariant ==
    ASSUME FreshIds
    PROVE  Spec => [](VaultInv /\ CounterAhead)
  <1>1. Init /\ TypeOK => VaultInv /\ CounterAhead
    BY VaultInvInit DEF Init, CounterAhead
  <1>2. VaultInv /\ CounterAhead /\ TypeOK' /\ [Next]_vars => (VaultInv /\ CounterAhead)'
    BY VaultInvStep, CounterAheadStep DEF VaultInv
  <1>. QED  BY <1>1, <1>2, TypeCorrect, PTL DEF Spec

\* Whatever number of processes back up and delete in one vault, in any
\* interleaving and with crashes anywhere, every entry of a snapshot that is
\* listed has its file in the vault, as long as snapshot ids cannot repeat.
THEOREM PublishedComplete ==
    ASSUME FreshIds
    PROVE  Spec => []PublishedHasData
  <1>1. VaultInv => PublishedHasData
    BY DEF VaultInv
  <1>. QED  BY <1>1, VaultInvariant, PTL

-----------------------------------------------------------------------------
(* The vault implements its catalogue.                                     *)

\* A step that leaves the life and the files of every id alone is not seen.
LEMMA Unseen ==
    ASSUME \A x \in Ids : Life(x)' = Life(x) /\ Holds(x)' = Holds(x)
    PROVE  UNCHANGED Catalog!vars
  BY DEF Catalog!vars

\* What a change of one id's life and files looks like to the catalogue.
LEMMA Seen ==
    ASSUME NEW x \in Ids,
           \A y \in Ids \ {x} : Life(y)' = Life(y) /\ Holds(y)' = Holds(y)
    PROVE  /\ [y \in Ids |-> Life(y)]' = [[y \in Ids |-> Life(y)] EXCEPT ![x] = Life(x)']
           /\ [y \in Ids |-> Holds(y)]' = [[y \in Ids |-> Holds(y)] EXCEPT ![x] = Holds(x)']
  OBVIOUS

\* The owner of an id is its only one.
LEMMA OneOwner ==
    ASSUME VaultInv, NEW w \in Workers, job[w].snap # None
    PROVE  /\ job[w].id \in Ids /\ job[w].id \in used /\ ~Listed(job[w].id)
           /\ Owners(job[w].id) = {w}
           /\ Life(job[w].id) = "reserved" /\ Holds(job[w].id) = NoEntries
  <1>. TypeOK
    BY DEF VaultInv
  <1>1. job[w].id \in Ids /\ job[w].id # None
    BY JobFields DEF Shaped
  <1>2. job[w].id \in used /\ ~Listed(job[w].id)
    BY <1>1 DEF VaultInv, IdsApart, BuildingHidden
  <1>3. \A v \in Workers : job[v].snap # None => job[v].id # None
    BY JobFields DEF Shaped
  <1>4. Owners(job[w].id) = {w}
    BY <1>3 DEF VaultInv, IdsApart, Owners
  <1>. QED  BY <1>1, <1>2, <1>4 DEF Life, Holds


\* An id keeps its life when its metadata file is listed as before and the same jobs
\* own it, and its files when a listed id keeps its metadata and its data.
LEMMA SameLife ==
    ASSUME NEW x \in Ids, x \in used' <=> x \in used, Listed(x)' <=> Listed(x),
           \A w \in Workers :
               job'[w].snap # None /\ job'[w].id = x <=> job[w].snap # None /\ job[w].id = x,
           Listed(x) => meta'[x] = meta[x] /\ data'[x] = data[x]
    PROVE  Life(x)' = Life(x) /\ Holds(x)' = Holds(x)
  <1>1. Owners(x)' = Owners(x)
    BY DEF Owners
  <1>2. Life(x)' = Life(x)
    BY <1>1 DEF Life
  <1>3. Holds(x)' = Holds(x)
    BY DEF Holds
  <1>. QED  BY <1>2, <1>3

\* A backup that starts reserves its id.
LEMMA StartReserves ==
    ASSUME VaultInv, TypeOK', NEW w \in Workers, Start(w),
           <<clock, ctr[w]>> \notin used
    PROVE  Catalog!Reserve(<<clock, ctr[w]>>)
  <1>. TypeOK
    BY DEF VaultInv
  <1>0. PICK id \in Ids : id = <<clock, ctr[w]>>
    BY StartEffect
  <1>1. id \in Ids /\ id \notin used /\ meta[id] = None
    BY <1>0, StartEffect DEF VaultInv, IdsApart
  <1>2. ~Listed(id) /\ ~Listed(id)'
    BY <1>1, StartEffect, SentinelAssumption DEF Listed
  <1>3. Life(id) = "free" /\ Holds(id) = NoEntries /\ Holds(id)' = NoEntries
    BY <1>1, <1>2 DEF Life, Holds, NoEntries
  <1>4. Life(id)' = "reserved"
    <2>1. job'[w].snap # None
      <3>1. job'[w].pc = "prepare" /\ Shaped(job'[w])
        BY StartEffect DEF TypeOK
      <3>. QED  BY <3>1 DEF Shaped
    <2>2. w \in Owners(id)' /\ id \in used'
      BY <1>0, <1>1, <2>1, StartEffect DEF Owners
    <2>. QED  BY <1>2, <2>2 DEF Life
  <1>5. ASSUME NEW x \in Ids \ {id}
        PROVE  Life(x)' = Life(x) /\ Holds(x)' = Holds(x)
    <2>1. (x \in used' <=> x \in used) /\ (Listed(x)' <=> Listed(x))
      BY <1>0, StartEffect DEF Listed
    <2>2. \A v \in Workers :
              job'[v].snap # None /\ job'[v].id = x <=> job[v].snap # None /\ job[v].id = x
      BY <1>0, StartEffect
    <2>. QED  BY <2>1, <2>2, StartEffect, SameLife
  <1>6. /\ [y \in Ids |-> Life(y)]' = [[y \in Ids |-> Life(y)] EXCEPT ![id] = Life(id)']
        /\ [y \in Ids |-> Holds(y)]' = [[y \in Ids |-> Holds(y)] EXCEPT ![id] = Holds(id)']
    BY <1>1, <1>5, Seen
  <1>7. [y \in Ids |-> Holds(y)]' = [y \in Ids |-> Holds(y)]
    BY <1>1, <1>3, <1>6
  <1>. QED  BY <1>0, <1>1, <1>3, <1>4, <1>6, <1>7 DEF Catalog!Reserve

\* A metadata file that is written publishes the id.
LEMMA WriteMetaPublishes ==
    ASSUME VaultInv, NEW w \in Workers, WriteMeta(w)
    PROVE  Catalog!Publish(job[w].id)
  <1>. TypeOK
    BY DEF VaultInv
  <1>0. PICK id \in Ids : id = job[w].id
    BY WriteMetaEffect
  <1>1. id \in Ids /\ id \in used /\ Owners(id) = {w} /\ Life(id) = "reserved"
    BY <1>0, WriteMetaEffect, OneOwner
  <1>2. Listed(id)' /\ Life(id)' = "published"
    BY <1>0, <1>1, WriteMetaEffect DEF Listed, Life
  <1>3. Holds(id)' \in [Files -> Contents \cup {None}]
    BY <1>0, <1>1, <1>2, WriteMetaEffect DEF Holds, TypeOK
  <1>4. ASSUME NEW x \in Ids \ {id}
        PROVE  Life(x)' = Life(x) /\ Holds(x)' = Holds(x)
    <2>1. (x \in used' <=> x \in used) /\ (Listed(x)' <=> Listed(x))
      BY <1>0, WriteMetaEffect DEF Listed
    <2>2. \A v \in Workers :
              job'[v].snap # None /\ job'[v].id = x <=> job[v].snap # None /\ job[v].id = x
      BY <1>0, WriteMetaEffect DEF Idle
    <2>. QED  BY <1>0, <2>1, <2>2, WriteMetaEffect, SameLife
  <1>5. /\ [y \in Ids |-> Life(y)]' = [[y \in Ids |-> Life(y)] EXCEPT ![id] = Life(id)']
        /\ [y \in Ids |-> Holds(y)]' = [[y \in Ids |-> Holds(y)] EXCEPT ![id] = Holds(id)']
    BY <1>1, <1>4, Seen
  <1>. QED  BY <1>0, <1>1, <1>2, <1>3, <1>5 DEF Catalog!Publish

\* A backup that stops half way abandons its id, if it has one.
LEMMA AbortAbandons ==
    ASSUME VaultInv, NEW w \in Workers, job'[w] = Idle, job[w].snap # None,
           \A v \in Workers \ {w} : job'[v] = job[v],
           UNCHANGED <<meta, data, used>>
    PROVE  Catalog!Abandon(job[w].id)
  <1>0. PICK id \in Ids : id = job[w].id
    BY OneOwner
  <1>1. /\ id \in Ids /\ id \in used /\ Owners(id) = {w} /\ ~Listed(id)
        /\ Life(id) = "reserved" /\ Holds(id) = NoEntries
    BY <1>0, OneOwner
  <1>2. ~Listed(id)' /\ Owners(id)' = {} /\ id \in used'
    BY <1>0, <1>1 DEF Listed, Owners, Idle
  <1>3. Life(id)' = "gone" /\ Holds(id)' = NoEntries
    BY <1>2 DEF Life, Holds, NoEntries
  <1>4. ASSUME NEW x \in Ids \ {id}
        PROVE  Life(x)' = Life(x) /\ Holds(x)' = Holds(x)
    <2>1. (x \in used' <=> x \in used) /\ (Listed(x)' <=> Listed(x))
      BY DEF Listed
    <2>2. \A v \in Workers :
              job'[v].snap # None /\ job'[v].id = x <=> job[v].snap # None /\ job[v].id = x
      BY <1>0 DEF Idle
    <2>. QED  BY <2>1, <2>2, SameLife
  <1>5. /\ [y \in Ids |-> Life(y)]' = [[y \in Ids |-> Life(y)] EXCEPT ![id] = Life(id)']
        /\ [y \in Ids |-> Holds(y)]' = [[y \in Ids |-> Holds(y)] EXCEPT ![id] = Holds(id)']
    BY <1>1, <1>4, Seen
  <1>6. [y \in Ids |-> Holds(y)]' = [y \in Ids |-> Holds(y)]
    BY <1>1, <1>3, <1>5
  <1>. QED  BY <1>0, <1>1, <1>3, <1>5, <1>6 DEF Catalog!Abandon

\* A metadata file that is removed removes the snapshot.
LEMMA DeleteMetaRemoves ==
    ASSUME VaultInv, NEW w \in Workers, NEW x \in Ids, DeleteMeta(w, x)
    PROVE  Catalog!Remove(x)
  <1>. TypeOK
    BY DEF VaultInv
  <1>1. Listed(x) /\ ~Listed(x)' /\ x \in used /\ x \in used'
    BY DeleteMetaEffect, SentinelAssumption DEF Listed, VaultInv, IdsApart
  <1>2. Owners(x)' = {}
    BY <1>1, DeleteMetaEffect DEF Owners, VaultInv, BuildingHidden
  <1>3. Life(x) = "published" /\ Life(x)' = "gone" /\ Holds(x)' = Catalog!Nothing
    BY <1>1, <1>2 DEF Life, Holds, NoEntries, Catalog!Nothing
  <1>4. ASSUME NEW y \in Ids \ {x}
        PROVE  Life(y)' = Life(y) /\ Holds(y)' = Holds(y)
    <2>1. (y \in used' <=> y \in used) /\ (Listed(y)' <=> Listed(y))
      BY DeleteMetaEffect DEF Listed
    <2>2. \A v \in Workers :
              job'[v].snap # None /\ job'[v].id = y <=> job[v].snap # None /\ job[v].id = y
      BY DeleteMetaEffect
    <2>. QED  BY <2>1, <2>2, DeleteMetaEffect, SameLife
  <1>5. /\ [y \in Ids |-> Life(y)]' = [[y \in Ids |-> Life(y)] EXCEPT ![x] = Life(x)']
        /\ [y \in Ids |-> Holds(y)]' = [[y \in Ids |-> Holds(y)] EXCEPT ![x] = Holds(x)']
    BY <1>4, Seen
  <1>. QED  BY <1>3, <1>5 DEF Catalog!Remove

\* Every other step leaves the catalogue alone: it changes data only under ids that
\* are not listed, and metadata only from not listed to not listed.
LEMMA OthersUnseen ==
    ASSUME VaultInv, [Next]_vars,
           \A w \in Workers : ~Start(w) /\ ~WriteMeta(w),
           \A w \in Workers : ~Abort(w) \/ job[w].snap = None,
           \A w \in Workers, x \in Ids : ~DeleteMeta(w, x)
    PROVE  UNCHANGED Catalog!vars
  <1>. TypeOK
    BY DEF VaultInv
  <1>1. ASSUME UNCHANGED <<meta, data, used>>,
               \A v \in Workers : job'[v].snap = job[v].snap
                                  /\ (job[v].snap # None => job'[v].id = job[v].id)
        PROVE  UNCHANGED Catalog!vars
    <2>1. ASSUME NEW x \in Ids
          PROVE  Life(x)' = Life(x) /\ Holds(x)' = Holds(x)
      BY <1>1, SameLife DEF Listed
    <2>. QED  BY <2>1, Unseen
  <1>2. ASSUME NEW w \in Workers, Quiet(w)
        PROVE  UNCHANGED Catalog!vars
    <2>1. \A v \in Workers : job'[v].snap = job[v].snap
                             /\ (job[v].snap # None => job'[v].id = job[v].id)
      BY <1>2, QuietEffect DEF Idle
    <2>. QED  BY <1>1, <1>2, <2>1, QuietEffect
  <1>3. ASSUME NEW w \in Workers, Copy(w)
        PROVE  UNCHANGED Catalog!vars
    <2>1. job[w].snap # None /\ ~Listed(job[w].id) /\ job'[w].snap \in Snapshot
          /\ job'[w].id = job[w].id
      BY <1>3, CopyEffect DEF VaultInv, BuildingHidden
    <2>2. job'[w].snap # None
      BY <2>1, SentinelAssumption
    <2>3. ASSUME NEW x \in Ids
          PROVE  Life(x)' = Life(x) /\ Holds(x)' = Holds(x)
      <3>1. (x \in used' <=> x \in used) /\ (Listed(x)' <=> Listed(x))
        BY <1>3, CopyEffect DEF Listed
      <3>2. \A v \in Workers :
                job'[v].snap # None /\ job'[v].id = x
                    <=> job[v].snap # None /\ job[v].id = x
        BY <1>3, <2>1, <2>2, CopyEffect
      <3>3. Listed(x) => meta'[x] = meta[x] /\ data'[x] = data[x]
        <4>1. Listed(x) => x # job[w].id
          BY <2>1
        <4>2. \A y \in Ids \ {job[w].id} : data'[y] = data[y]
          BY <1>3, CopyEffect, Zenon
        <4>3. meta' = meta
          BY <1>3 DEF Copy
        <4>. QED  BY <4>1, <4>2, <4>3
      <3>. QED  BY <3>1, <3>2, <3>3, SameLife
    <2>. QED  BY <2>3, Unseen
  <1>4. ASSUME NEW w \in Workers, OpenMeta(w)
        PROVE  UNCHANGED Catalog!vars
    <2>1. ~Listed(job[w].id) /\ ~Listed(job[w].id)'
      BY <1>4, OpenMetaEffect, SentinelAssumption DEF VaultInv, BuildingHidden, Listed
    <2>2. ASSUME NEW x \in Ids
          PROVE  Life(x)' = Life(x) /\ Holds(x)' = Holds(x)
      <3>1. x # job[w].id => meta'[x] = meta[x]
        BY <1>4, OpenMetaEffect
      <3>2. (x \in used' <=> x \in used) /\ (Listed(x)' <=> Listed(x))
        BY <1>4, <2>1, <3>1, OpenMetaEffect DEF Listed
      <3>3. \A v \in Workers :
                job'[v].snap # None /\ job'[v].id = x
                    <=> job[v].snap # None /\ job[v].id = x
        BY <1>4, OpenMetaEffect
      <3>. QED  BY <1>4, <2>1, <3>1, <3>2, <3>3, OpenMetaEffect, SameLife
    <2>. QED  BY <2>2, Unseen
  <1>5. ASSUME NEW w \in Workers, DeleteData(w)
        PROVE  UNCHANGED Catalog!vars
    <2>1. ~Listed(job[w].id)
      BY <1>5, DeleteDataEffect DEF VaultInv, DeletedHidden
    <2>2. ASSUME NEW x \in Ids
          PROVE  Life(x)' = Life(x) /\ Holds(x)' = Holds(x)
      <3>1. (x \in used' <=> x \in used) /\ (Listed(x)' <=> Listed(x))
        BY <1>5, DeleteDataEffect DEF Listed
      <3>2. \A v \in Workers :
                job'[v].snap # None /\ job'[v].id = x
                    <=> job[v].snap # None /\ job[v].id = x
        BY <1>5, DeleteDataEffect DEF Idle
      <3>3. Listed(x) => meta'[x] = meta[x] /\ data'[x] = data[x]
        BY <1>5, <2>1, DeleteDataEffect
      <3>. QED  BY <3>1, <3>2, <3>3, SameLife
    <2>. QED  BY <2>2, Unseen
  <1>6. ASSUME NEW s \in Sources, NEW f \in Files, User(s, f)
        PROVE  UNCHANGED Catalog!vars
    <2>1. PICK v : Touch(s, f, v)
      BY <1>6 DEF User, Edit, Unlink, PutBack
    <2>2. /\ \A u \in Workers : job'[u].snap = job[u].snap /\ job'[u].id = job[u].id
          /\ UNCHANGED <<meta, data, used>>
      BY <2>1, TouchEffect
    <2>. QED  BY <2>2, <1>1
  <1>7. CASE Tick \/ UNCHANGED vars
    BY <1>7, <1>1 DEF Tick, vars
  <1>. QED
    BY <1>2, <1>3, <1>4, <1>5, <1>6, <1>7 DEF Next, Backup, Delete, Quiet

\* Whatever number of processes back up and delete in one vault, in any interleaving
\* and with crashes anywhere, the vault behaves as its catalogue: a snapshot appears in
\* one step with all its files, they stay as they are while it is listed, and an id
\* that is gone never returns, as long as snapshot ids cannot repeat.
THEOREM VaultImplementsCatalog ==
    ASSUME FreshIds
    PROVE  Spec => ImplementsCatalog
  <1>1. Init => Catalog!Init
    <2>. SUFFICES ASSUME Init PROVE Catalog!Init
      OBVIOUS
    <2>1. \A x \in Ids : ~Listed(x) /\ Life(x) = "free" /\ Holds(x) = Catalog!Nothing
      BY SentinelAssumption DEF Init, Listed, Life, Holds, NoEntries, Catalog!Nothing
    <2>. QED  BY <2>1 DEF Catalog!Init
  <1>2. VaultInv /\ CounterAhead /\ TypeOK' /\ [Next]_vars => [Catalog!Next]_Catalog!vars
    <2>. SUFFICES ASSUME VaultInv, CounterAhead, TypeOK', [Next]_vars
                  PROVE  [Catalog!Next]_Catalog!vars
      OBVIOUS
    <2>. TypeOK
      BY DEF VaultInv
    <2>1. ASSUME NEW w \in Workers, Start(w)
          PROVE  Catalog!Next
      BY <2>1, FreshStart, StartReserves, StartEffect DEF Catalog!Next
    <2>2. ASSUME NEW w \in Workers, WriteMeta(w)
          PROVE  Catalog!Next
      BY <2>2, WriteMetaPublishes, WriteMetaEffect DEF Catalog!Next
    <2>3. ASSUME NEW w \in Workers, Abort(w), job[w].snap # None
          PROVE  Catalog!Next
      <3>1. job'[w] = Idle /\ \A v \in Workers \ {w} : job'[v] = job[v]
        BY <2>3 DEF Abort, Finish, TypeOK
      <3>2. Catalog!Abandon(job[w].id)
        BY <2>3, <3>1, AbortAbandons DEF Abort
      <3>. QED  BY <2>3, <3>2, OneOwner DEF Catalog!Next
    <2>4. ASSUME NEW w \in Workers, NEW x \in Ids, DeleteMeta(w, x)
          PROVE  Catalog!Next
      BY <2>4, DeleteMetaRemoves DEF Catalog!Next
    <2>. QED  BY <2>1, <2>2, <2>3, <2>4, OthersUnseen
  <1>. QED  BY <1>1, <1>2, VaultInvariant, TypeCorrect, PTL DEF Spec, ImplementsCatalog, Catalog!Spec


-----------------------------------------------------------------------------
(* What a published entry says of its file.                                *)

\* A new backup has seen what the tree holds and made no entry.
LEMMA StartFaithful ==
    ASSUME VaultInv, FaithfulInv, NEW w \in Workers, Start(w)
    PROVE  FaithfulInv'
  <1>. TypeOK
    BY DEF VaultInv
  <1> DEFINE v == tree[job[w].plan.src]
             snap == [born |-> births + 1, src |-> job[w].plan.src,
                      strategy |-> job[w].plan.strategy,
                      parent |-> job[w].plan.parent, entries |-> NoEntries]
  <1>0. /\ job'[w].snap = snap /\ job'[w].pc = "prepare"
        /\ job'[w].seen = [f \in Files |-> IF v[f] = None THEN None ELSE v[f].content]
    BY StartEffect, Zenon
  <1>6. snap.src = job[w].plan.src /\ \A f \in Files : snap.entries[f] = None
    BY DEF NoEntries
  <1>. HIDE DEF snap
  <1>1. /\ job'[w].snap.src = job[w].plan.src
        /\ job'[w].pc = "prepare"
        /\ \A f \in Files : job'[w].snap.entries[f] = None
        /\ \A f \in Files : job'[w].seen[f] = IF v[f] = None THEN None ELSE v[f].content
    BY <1>0, <1>6
  <1>2. /\ \A u \in Workers \ {w} : job'[u] = job[u]
        /\ UNCHANGED <<meta, data, witness, tree>>
    BY StartEffect
  <1>3. SeenInTree'
    BY <1>1, <1>2 DEF FaithfulInv, SeenInTree
  <1>4. BuildingFaithful'
    BY <1>1, <1>2 DEF FaithfulInv, BuildingFaithful
  <1>5. PublishedFaithful'
    BY <1>2 DEF FaithfulInv, PublishedFaithful, Listed
  <1>. QED  BY <1>3, <1>4, <1>5 DEF FaithfulInv

\* A checksum is taken of the file as it is, and the other quiet steps change nothing.
LEMMA QuietFaithful ==
    ASSUME VaultInv, FaithfulInv, NEW w \in Workers, Quiet(w)
    PROVE  FaithfulInv'
  <1>. TypeOK
    BY DEF VaultInv
  <1>1. /\ \A v \in Workers \ {w} : job'[v] = job[v]
        /\ UNCHANGED <<meta, data, witness, tree>>
    BY QuietEffect
  <1>2. ASSUME job'[w].snap # None
        PROVE  /\ job'[w].snap = job[w].snap /\ job'[w].seen = job[w].seen
               /\ job'[w].id = job[w].id
    BY <1>2, QuietEffect DEF Idle
  <1>3. ASSUME job'[w].snap # None, job'[w].pc = "copy"
        PROVE  /\ job'[w].file = job[w].file /\ job[w].file \in Files
               /\ job'[w].checksum = tree[job[w].snap.src][job[w].file].content
    <2>1. Hash(w)
      <3>1. ~Prepare(w)
        <4>. SUFFICES ASSUME Prepare(w) PROVE FALSE
          OBVIOUS
        <4>1. job'[w].pc = "scan"
          BY JobFields DEF Prepare, TypeOK, Job
        <4>. QED  BY <4>1, <1>3
      <3>2. \A f \in Files : ~Examine(w, f)
        <4>. SUFFICES ASSUME NEW f \in Files, Examine(w, f) PROVE FALSE
          OBVIOUS
        <4>1. job'[w].pc \in {"scan", "hash"}
          BY JobFields, SMTT(30) DEF Examine, TypeOK, Job
        <4>. QED  BY <4>1, <1>3, SMTT(30)
      <3>3. \A s \in Sources, k \in Kinds : ~Choose(w, s, k)
        <4>. SUFFICES ASSUME NEW s \in Sources, NEW k \in Kinds, Choose(w, s, k)
                      PROVE  FALSE
          OBVIOUS
        <4>1. job'[w].pc = "new"
          BY DEF Choose, TypeOK, Idle
        <4>. QED  BY <4>1, <1>3
      <3>4. ~Abort(w)
        BY <1>3 DEF Abort, Finish, TypeOK, Idle
      <3>. QED  BY <3>1, <3>2, <3>3, <3>4 DEF Quiet
    <2>2. job[w] \in Job /\ job[w].file \in Files
      BY <2>1, JobFields DEF Hash
    <2>3. job'[w] = [job[w] EXCEPT !.pc = "copy",
                                   !.checksum = tree[job[w].snap.src][job[w].file].content]
      BY <2>1 DEF Hash, TypeOK
    <2>. QED  BY <2>2, <2>3 DEF Job
  <1>4. SeenInTree'
    <2>. SUFFICES ASSUME NEW v \in Workers, NEW f \in Files,
                         job'[v].snap # None, job'[v].seen[f] # None
                  PROVE  /\ tree[job'[v].snap.src][f] # None
                         /\ tree[job'[v].snap.src][f].content = job'[v].seen[f]
                         /\ job'[v].pc = "copy" /\ job'[v].file = f
                               => job'[v].checksum = job'[v].seen[f]
      BY <1>1 DEF SeenInTree
    <2>1. CASE v # w
      BY <2>1, <1>1 DEF FaithfulInv, SeenInTree
    <2>2. CASE v = w
      <3>1. /\ tree[job'[v].snap.src][f] # None
            /\ tree[job'[v].snap.src][f].content = job'[v].seen[f]
        BY <2>2, <1>2 DEF FaithfulInv, SeenInTree
      <3>. QED  BY <2>2, <3>1, <1>2, <1>3
    <2>. QED  BY <2>1, <2>2
  <1>5. BuildingFaithful'
    BY <1>1, <1>2 DEF FaithfulInv, BuildingFaithful
  <1>6. PublishedFaithful'
    BY <1>1 DEF FaithfulInv, PublishedFaithful, Listed
  <1>. QED  BY <1>4, <1>5, <1>6 DEF FaithfulInv

\* The copy of a file nobody touched is what the checksum was taken of.
LEMMA CopyFaithful ==
    ASSUME VaultInv, FaithfulInv, NEW w \in Workers, Copy(w)
    PROVE  FaithfulInv'
  <1>. TypeOK
    BY DEF VaultInv
  <1> DEFINE c == job[w]
             e == [mtime |-> c.stat.mtime, size |-> c.stat.size,
                   checksum |-> c.checksum]
             v == tree[c.snap.src][c.file]
  <1>1. /\ c.snap \in Snapshot /\ c.id \in Ids /\ c.file \in Files
        /\ c.snap # None /\ c.pc = "copy"
    BY CopyEffect
  <1>2. /\ job'[w].pc = "scan" /\ job'[w].id = c.id /\ job'[w].seen = c.seen
        /\ job'[w].snap = [c.snap EXCEPT !.entries[c.file] = e]
        /\ job'[w].snap.entries[c.file] = e
        /\ \A f \in Files \ {c.file} : job'[w].snap.entries[f] = c.snap.entries[f]
    BY CopyEffect
  <1>3. /\ data'[c.id][c.file] = v.content
        /\ \A f \in Files \ {c.file} : data'[c.id][f] = data[c.id][f]
        /\ \A x \in Ids \ {c.id} : data'[x] = data[x]
    BY CopyEffect
  <1>4. /\ \A u \in Workers \ {w} : job'[u] = job[u]
        /\ UNCHANGED <<meta, witness, tree>>
    BY CopyEffect
  <1>5. job'[w].snap.src = c.snap.src
    BY <1>1, <1>2 DEF Snapshot
  <1>6. e.checksum = c.checksum
    OBVIOUS
  <1>7. c.seen[c.file] # None => v.content = c.seen[c.file] /\ c.checksum = c.seen[c.file]
    BY <1>1 DEF FaithfulInv, SeenInTree
  <1>. HIDE DEF c, e, v
  <1>8. SeenInTree'
    <2>1. \A f \in Files : c.seen[f] # None =>
              tree[c.snap.src][f] # None /\ tree[c.snap.src][f].content = c.seen[f]
      BY <1>1 DEF FaithfulInv, SeenInTree, c
    <2>. SUFFICES ASSUME NEW u \in Workers, NEW f \in Files,
                         job'[u].snap # None, job'[u].seen[f] # None
                  PROVE  /\ tree[job'[u].snap.src][f] # None
                         /\ tree[job'[u].snap.src][f].content = job'[u].seen[f]
                         /\ job'[u].pc = "copy" /\ job'[u].file = f
                               => job'[u].checksum = job'[u].seen[f]
      BY <1>4 DEF SeenInTree
    <2>2. CASE u = w
      BY <2>1, <2>2, <1>2, <1>5
    <2>3. CASE u # w
      BY <2>3, <1>4 DEF FaithfulInv, SeenInTree
    <2>. QED  BY <2>2, <2>3
  <1>9. BuildingFaithful'
    <2>. SUFFICES ASSUME NEW u \in Workers, NEW f \in Files, job'[u].snap # None,
                         job'[u].seen[f] # None, job'[u].snap.entries[f] # None
                  PROVE  /\ job'[u].snap.entries[f].checksum = job'[u].seen[f]
                         /\ data'[job'[u].id][f] = job'[u].seen[f]
      BY DEF BuildingFaithful
    <2>1. CASE u = w /\ f = c.file
      BY <2>1, <1>2, <1>3, <1>6, <1>7
    <2>2. CASE u = w /\ f # c.file
      BY <2>2, <1>1, <1>2, <1>3 DEF FaithfulInv, BuildingFaithful, c
    <2>3. CASE u # w
      <3>1. job'[u] = job[u] /\ job[u].id \in Ids /\ job[u].id # c.id
        BY <2>3, <1>1, <1>4, JobFields DEF VaultInv, IdsApart, Shaped, c
      <3>. QED  BY <3>1, <1>3 DEF FaithfulInv, BuildingFaithful
    <2>. QED  BY <2>1, <2>2, <2>3
  <1>10. PublishedFaithful'
    <2>1. ~Listed(c.id)
      BY <1>1 DEF VaultInv, BuildingHidden, c
    <2>. QED  BY <2>1, <1>3, <1>4 DEF FaithfulInv, PublishedFaithful, Listed
  <1>. QED  BY <1>8, <1>9, <1>10 DEF FaithfulInv

\* Opening a metadata file changes no entry of a listed snapshot.
LEMMA OpenMetaFaithful ==
    ASSUME VaultInv, FaithfulInv, NEW w \in Workers, OpenMeta(w)
    PROVE  FaithfulInv'
  <1>. TypeOK
    BY DEF VaultInv
  <1>1. /\ job'[w].id = job[w].id /\ job'[w].snap = job[w].snap
        /\ job'[w].seen = job[w].seen /\ job'[w].pc = "publish"
        /\ \A u \in Workers \ {w} : job'[u] = job[u]
        /\ UNCHANGED <<data, witness, tree>>
    BY OpenMetaEffect
  <1>2. \A x \in Ids : Listed(x)' => Listed(x) /\ meta'[x] = meta[x]
    BY OpenMetaEffect, SentinelAssumption DEF Listed
  <1>3. SeenInTree'
    BY <1>1 DEF FaithfulInv, SeenInTree
  <1>4. BuildingFaithful'
    BY <1>1 DEF FaithfulInv, BuildingFaithful
  <1>5. PublishedFaithful'
    BY <1>1, <1>2 DEF FaithfulInv, PublishedFaithful
  <1>. QED  BY <1>3, <1>4, <1>5 DEF FaithfulInv

\* What is published is what was built.
LEMMA WriteMetaFaithful ==
    ASSUME VaultInv, FaithfulInv, NEW w \in Workers, WriteMeta(w)
    PROVE  FaithfulInv'
  <1>. TypeOK
    BY DEF VaultInv
  <1>1. /\ job[w].id \in Ids /\ job[w].snap # None
        /\ job'[w] = Idle /\ \A u \in Workers \ {w} : job'[u] = job[u]
        /\ UNCHANGED <<data, tree>>
    BY WriteMetaEffect
  <1>2. /\ meta'[job[w].id] = job[w].snap /\ witness'[job[w].id] = job[w].seen
        /\ \A x \in Ids \ {job[w].id} : meta'[x] = meta[x] /\ witness'[x] = witness[x]
    BY WriteMetaEffect
  <1>3. SeenInTree'
    BY <1>1 DEF FaithfulInv, SeenInTree, Idle
  <1>4. BuildingFaithful'
    BY <1>1 DEF FaithfulInv, BuildingFaithful, Idle
  <1>5. PublishedFaithful'
    <2>. SUFFICES ASSUME NEW x \in Ids, NEW f \in Files, Listed(x)',
                         meta'[x].entries[f] # None, witness'[x][f] # None
                  PROVE  /\ meta'[x].entries[f].checksum = witness'[x][f]
                         /\ data'[x][f] = witness'[x][f]
      BY DEF PublishedFaithful
    <2>1. CASE x = job[w].id
      BY <2>1, <1>1, <1>2 DEF FaithfulInv, BuildingFaithful
    <2>2. CASE x # job[w].id
      BY <2>2, <1>1, <1>2 DEF FaithfulInv, PublishedFaithful, Listed
    <2>. QED  BY <2>1, <2>2
  <1>. QED  BY <1>3, <1>4, <1>5 DEF FaithfulInv

\* Deleting takes listed snapshots away, and then data that is not listed.
LEMMA DeleteFaithful ==
    ASSUME VaultInv, FaithfulInv, NEW w \in Workers, Delete(w)
    PROVE  FaithfulInv'
  <1>. TypeOK
    BY DEF VaultInv
  <1>1. ASSUME NEW x \in Ids, DeleteMeta(w, x)
        PROVE  FaithfulInv'
    <2>1. /\ job'[w].snap = None /\ \A u \in Workers \ {w} : job'[u] = job[u]
          /\ UNCHANGED <<data, tree>>
      BY <1>1, DeleteMetaEffect
    <2>2. \A y \in Ids : Listed(y)' =>
              Listed(y) /\ meta'[y] = meta[y] /\ witness'[y] = witness[y]
      BY <1>1, DeleteMetaEffect DEF Listed
    <2>3. SeenInTree'
      BY <2>1 DEF FaithfulInv, SeenInTree
    <2>4. BuildingFaithful'
      BY <2>1 DEF FaithfulInv, BuildingFaithful
    <2>5. PublishedFaithful'
      BY <2>1, <2>2 DEF FaithfulInv, PublishedFaithful
    <2>. QED  BY <2>3, <2>4, <2>5 DEF FaithfulInv
  <1>2. ASSUME DeleteData(w)
        PROVE  FaithfulInv'
    <2>1. /\ job'[w] = Idle /\ \A u \in Workers \ {w} : job'[u] = job[u]
          /\ \A x \in Ids \ {job[w].id} : data'[x] = data[x]
          /\ UNCHANGED <<meta, witness, tree>>
      BY <1>2, DeleteDataEffect
    <2>2. ~Listed(job[w].id)
      BY <1>2, DeleteDataEffect DEF VaultInv, DeletedHidden
    <2>3. SeenInTree'
      BY <2>1 DEF FaithfulInv, SeenInTree, Idle
    <2>4. BuildingFaithful'
      <3>. SUFFICES ASSUME NEW u \in Workers, job'[u].snap # None
                    PROVE  job'[u] = job[u] /\ data'[job[u].id] = data[job[u].id]
        BY DEF FaithfulInv, BuildingFaithful
      <3>1. u # w /\ job'[u] = job[u]
        BY <2>1 DEF Idle
      <3>2. job[u].id \in Ids /\ job[u].id # job[w].id
        BY <1>2, <3>1, DeleteDataEffect, JobFields DEF VaultInv, IdsApart, Shaped
      <3>. QED  BY <3>1, <3>2, <2>1
    <2>5. PublishedFaithful'
      BY <2>1, <2>2 DEF FaithfulInv, PublishedFaithful, Listed
    <2>. QED  BY <2>3, <2>4, <2>5 DEF FaithfulInv
  <1>. QED  BY <1>1, <1>2 DEF Delete

\* A user who touches a file makes every backup of its source forget it.
LEMMA TouchFaithful ==
    ASSUME VaultInv, FaithfulInv, NEW s \in Sources, NEW f \in Files, User(s, f)
    PROVE  FaithfulInv'
  <1>. TypeOK
    BY DEF VaultInv
  <1>1. PICK v : Touch(s, f, v)
    BY DEF User, Edit, Unlink, PutBack
  <1>2. /\ \A w \in Workers :
             /\ job'[w].id = job[w].id /\ job'[w].snap = job[w].snap
             /\ job'[w].pc = job[w].pc /\ job'[w].checksum = job[w].checksum
             /\ job'[w].file = job[w].file
             /\ \A g \in Files : job'[w].seen[g] # None =>
                   /\ job'[w].seen[g] = job[w].seen[g]
                   /\ job[w].snap # None => job[w].snap.src # s \/ g # f
        /\ \A t \in Sources, g \in Files : t # s \/ g # f => tree'[t][g] = tree[t][g]
        /\ UNCHANGED <<meta, data, witness>>
    BY <1>1, TouchEffect
  <1>3. SeenInTree'
    <2>. SUFFICES ASSUME NEW w \in Workers, NEW g \in Files,
                         job'[w].snap # None, job'[w].seen[g] # None
                  PROVE  /\ tree'[job'[w].snap.src][g] # None
                         /\ tree'[job'[w].snap.src][g].content = job'[w].seen[g]
                         /\ job'[w].pc = "copy" /\ job'[w].file = g
                               => job'[w].checksum = job'[w].seen[g]
      BY DEF SeenInTree
    <2>1. job[w].snap \in Snapshot
      BY <1>2, JobFields DEF Shaped
    <2>2. job[w].snap.src \in Sources
      BY <2>1 DEF Snapshot
    <2>3. tree'[job[w].snap.src][g] = tree[job[w].snap.src][g]
      BY <1>2, <2>2
    <2>. QED  BY <2>3, <1>2 DEF FaithfulInv, SeenInTree
  <1>4. BuildingFaithful'
    BY <1>2 DEF FaithfulInv, BuildingFaithful
  <1>5. PublishedFaithful'
    BY <1>2 DEF FaithfulInv, PublishedFaithful, Listed
  <1>. QED  BY <1>3, <1>4, <1>5 DEF FaithfulInv

\* FaithfulInv is an invariant.
LEMMA FaithfulInvariant ==
    ASSUME FreshIds
    PROVE  Spec => []FaithfulInv
  <1>1. Init => FaithfulInv
    BY SentinelAssumption
    DEF Init, FaithfulInv, SeenInTree, BuildingFaithful, PublishedFaithful, Listed, Idle
  <1>2. VaultInv /\ FaithfulInv /\ [Next]_vars => FaithfulInv'
    <2>. SUFFICES ASSUME VaultInv, FaithfulInv, [Next]_vars PROVE FaithfulInv'
      OBVIOUS
    <2>1. ASSUME NEW w \in Workers, Backup(w) \/ Delete(w) \/ Abort(w)
          PROVE  FaithfulInv'
      BY <2>1, StartFaithful, QuietFaithful, CopyFaithful, OpenMetaFaithful,
         WriteMetaFaithful, DeleteFaithful DEF Backup, Quiet
    <2>2. ASSUME NEW s \in Sources, NEW f \in Files, User(s, f)
          PROVE  FaithfulInv'
      BY <2>2, TouchFaithful
    <2>3. CASE Tick \/ UNCHANGED vars
      BY <2>3 DEF Tick, vars, FaithfulInv, SeenInTree, BuildingFaithful,
                  PublishedFaithful, Listed
    <2>. QED  BY <2>1, <2>2, <2>3 DEF Next
  <1>. QED  BY <1>1, <1>2, VaultInvariant, PTL DEF Spec

\* In every listed snapshot the checksum of an entry is the checksum of the stored
\* data, for every file nobody touched while the backup ran, whatever backups, deletes,
\* crashes and edits of other files came in between, as long as ids cannot repeat.
THEOREM UntouchedFilesVerify ==
    ASSUME FreshIds
    PROVE  Spec => []UntouchedVerifies
  <1>1. FaithfulInv => UntouchedVerifies
    BY DEF FaithfulInv, PublishedFaithful, UntouchedVerifies
  <1>. QED  BY <1>1, FaithfulInvariant, PTL

-----------------------------------------------------------------------------
(* Induction on natural numbers, from the well-foundedness of <.           *)

\* A set of natural numbers that is not empty has a least one.
LEMMA LeastNatural ==
    ASSUME NEW T, T \subseteq Nat, T # {}
    PROVE  \E n \in T : \A m \in T : n <= m
  <1> DEFINE R == OpToRel(<,Nat)
  <1>1. IsWellFoundedOn(R, Nat)
    BY NatLessThanWellFounded, Zenon
  <1>2. R = {ss \in Nat \X Nat : ss[1] < ss[2]}
    BY Zenon DEF OpToRel
  <1>3. \A x, y \in Nat : y < x => <<y, x>> \in R
    BY <1>2
  <1>. HIDE DEF R
  <1>4. \E x \in T : \A y \in T : ~ (<<y, x>> \in R)
    BY <1>1, WFMin, Zenon
  <1>5. PICK n \in T : \A m \in T : ~ (<<m, n>> \in R)
    BY <1>4, Zenon
  <1>6. \A m \in T : ~ (m < n)
    BY <1>3, <1>5, Zenon
  <1>. QED  BY <1>6

\* A set that holds 0 and with every natural number its successor holds them all.
LEMMA Induction ==
    ASSUME NEW S, 0 \in S, \A n \in Nat : n \in S => n + 1 \in S
    PROVE  Nat \subseteq S
  <1> DEFINE T == Nat \ S
  <1>. SUFFICES ASSUME T # {} PROVE FALSE
    OBVIOUS
  <1>1. PICK n \in T : \A m \in T : n <= m
    BY LeastNatural
  <1>2. n \in Nat /\ n # 0
    BY <1>1
  <1>3. n - 1 \in Nat /\ n - 1 \in S
    BY <1>1, <1>2
  <1>. QED  BY <1>1, <1>3

-----------------------------------------------------------------------------
(* The lineage of a snapshot, for any state m of the metadata files.       *)

ListedIn(m, x) == x \in Ids /\ m[x] \in Snapshot
ParentsIn(m, S) == {m[x].parent : x \in {y \in S : ListedIn(m, y)}} \ {None}
WalkEq(m, p, g, N) == g = [n \in 0..N |-> IF n = 0 THEN {p} \ {None}
                                          ELSE g[n - 1] \cup ParentsIn(m, g[n - 1])]
WalkIn(m, p) == CHOOSE g : WalkEq(m, p, g, MaxSnaps)
LineageIn(m, p) == WalkIn(m, p)[MaxSnaps]

\* A child is born after its parent.
DownIn(m) == \A x \in Ids : ListedIn(m, x) /\ ListedIn(m, m[x].parent)
                               => m[m[x].parent].born < m[x].born

\* These are the operators of the model, now and after a step.
LEMMA LineageNow ==
    /\ \A x : Listed(x) = ListedIn(meta, x)
    /\ \A p : Lineage(p) = LineageIn(meta, p)
  BY DEF Listed, Lineage, LineageIn, WalkIn, WalkEq, ListedIn, Parents, ParentsIn

LEMMA LineageNext ==
    /\ \A x : Listed(x)' = ListedIn(meta', x)
    /\ \A p : Lineage(p)' = LineageIn(meta', p)
  BY DEF Listed, Lineage, LineageIn, WalkIn, WalkEq, ListedIn, Parents, ParentsIn

\* The walk along parent_id exists.
LEMMA WalkExists ==
    ASSUME NEW m, NEW p
    PROVE  WalkEq(m, p, WalkIn(m, p), MaxSnaps)
  <1> DEFINE S == {N \in Nat : \E g : WalkEq(m, p, g, N)}
  <1>1. 0 \in S
    <2> DEFINE g == [n \in 0..0 |-> {p} \ {None}]
    <2>1. WalkEq(m, p, g, 0)
      BY DEF WalkEq
    <2>. QED  BY <2>1
  <1>2. ASSUME NEW N \in Nat, N \in S PROVE N + 1 \in S
    <2>1. PICK g : WalkEq(m, p, g, N)
      BY <1>2
    <2> DEFINE h == [n \in 0..N+1 |-> IF n = N + 1 THEN g[N] \cup ParentsIn(m, g[N])
                                      ELSE g[n]]
    <2>2. (\A n \in 0..N : h[n] = g[n]) /\ h[N + 1] = g[N] \cup ParentsIn(m, g[N])
      OBVIOUS
    <2>3. h = [n \in 0..N+1 |-> h[n]]
      OBVIOUS
    <2>. HIDE DEF h
    <2>4. ASSUME NEW n \in 0..N+1
          PROVE  h[n] = IF n = 0 THEN {p} \ {None} ELSE h[n - 1] \cup ParentsIn(m, h[n - 1])
      <3>1. CASE n = N + 1
        <4>1. h[n - 1] = g[N] /\ n # 0
          BY <3>1, <2>2
        <4>. QED  BY <3>1, <4>1, <2>2
      <3>2. CASE n # N + 1
        <4>1. n \in 0..N /\ (n # 0 => n - 1 \in 0..N)
          BY <3>2
        <4>2. g[n] = IF n = 0 THEN {p} \ {None} ELSE g[n - 1] \cup ParentsIn(m, g[n - 1])
          BY <4>1, <2>1 DEF WalkEq
        <4>. QED  BY <4>1, <4>2, <2>2
      <3>. QED  BY <3>1, <3>2
    <2>5. WalkEq(m, p, h, N + 1)
      BY <2>3, <2>4 DEF WalkEq
    <2>. QED  BY <2>5
  <1>. HIDE DEF S
  <1>3. Nat \subseteq S
    BY <1>1, <1>2, Induction
  <1>4. \E g : WalkEq(m, p, g, MaxSnaps)
    BY <1>3, BoundsAssumption DEF S
  <1>. QED  BY <1>4, Zenon DEF WalkIn

\* What the walk has met after n steps.
LEMMA WalkSteps ==
    ASSUME NEW m, NEW p
    PROVE  /\ WalkIn(m, p)[0] = {p} \ {None}
           /\ \A n \in Nat : n + 1 <= MaxSnaps =>
                 WalkIn(m, p)[n + 1] = WalkIn(m, p)[n] \cup ParentsIn(m, WalkIn(m, p)[n])
  <1> DEFINE g == WalkIn(m, p)
  <1>1. g = [n \in 0..MaxSnaps |-> IF n = 0 THEN {p} \ {None}
                                   ELSE g[n - 1] \cup ParentsIn(m, g[n - 1])]
    BY WalkExists DEF WalkEq
  <1>. HIDE DEF g
  <1>2. g[0] = {p} \ {None}
    BY <1>1, BoundsAssumption
  <1>3. ASSUME NEW n \in Nat, n + 1 <= MaxSnaps
        PROVE  g[n + 1] = g[n] \cup ParentsIn(m, g[n])
    <2>1. n + 1 \in 0..MaxSnaps /\ n + 1 # 0 /\ (n + 1) - 1 = n
      BY <1>3, BoundsAssumption
    <2>. QED  BY <1>1, <2>1
  <1>. QED  BY <1>2, <1>3 DEF g

\* The walk only grows.
LEMMA WalkGrows ==
    ASSUME NEW m, NEW p, NEW k \in 0..MaxSnaps
    PROVE  WalkIn(m, p)[k] \subseteq LineageIn(m, p)
  <1> DEFINE g == WalkIn(m, p)
             S == {d \in Nat : k + d <= MaxSnaps => g[k] \subseteq g[k + d]}
  <1>1. 0 \in S
    OBVIOUS
  <1>2. ASSUME NEW d \in Nat, d \in S PROVE d + 1 \in S
    <2>. SUFFICES ASSUME k + (d + 1) <= MaxSnaps PROVE g[k] \subseteq g[k + (d + 1)]
      OBVIOUS
    <2>1. g[k] \subseteq g[k + d] /\ k + d \in Nat /\ k + (d + 1) = (k + d) + 1
      BY <1>2, BoundsAssumption
    <2>2. g[(k + d) + 1] = g[k + d] \cup ParentsIn(m, g[k + d])
      BY <2>1, WalkSteps
    <2>. QED  BY <2>1, <2>2
  <1>. HIDE DEF S
  <1>3. Nat \subseteq S
    BY <1>1, <1>2, Induction
  <1>4. MaxSnaps - k \in S /\ k + (MaxSnaps - k) = MaxSnaps
    BY <1>3, BoundsAssumption
  <1>. QED  BY <1>4 DEF S, LineageIn

\* The lineage starts at p.
LEMMA LineageStart ==
    ASSUME NEW m, NEW p
    PROVE  /\ p # None => p \in LineageIn(m, p)
           /\ p = None => LineageIn(m, p) = {}
  <1>1. p # None => p \in LineageIn(m, p)
    <2>1. WalkIn(m, p)[0] = {p} \ {None}
      BY WalkSteps, Zenon
    <2>2. 0 \in 0..MaxSnaps
      BY BoundsAssumption
    <2>3. WalkIn(m, p)[0] \subseteq LineageIn(m, p)
      BY <2>2, WalkGrows, Zenon
    <2>. QED  BY <2>1, <2>3
  <1>2. ASSUME p = None PROVE LineageIn(m, p) = {}
    <2> DEFINE g == WalkIn(m, p)
               S == {n \in Nat : n <= MaxSnaps => g[n] = {}}
    <2>1. 0 \in S
      BY <1>2, WalkSteps
    <2>2. ASSUME NEW n \in Nat, n \in S PROVE n + 1 \in S
      <3>. SUFFICES ASSUME n + 1 <= MaxSnaps PROVE g[n + 1] = {}
        OBVIOUS
      <3>1. g[n] = {}
        BY <2>2, BoundsAssumption
      <3>2. g[n + 1] = g[n] \cup ParentsIn(m, g[n])
        BY WalkSteps
      <3>. QED  BY <3>1, <3>2 DEF ParentsIn
    <2>. HIDE DEF S
    <2>3. Nat \subseteq S
      BY <2>1, <2>2, Induction
    <2>. QED  BY <2>3, BoundsAssumption DEF S, LineageIn
  <1>. QED  BY <1>1, <1>2

\* Whatever holds p and the parents of its listed members holds the lineage.
LEMMA LineageLeast ==
    ASSUME NEW m, NEW p, NEW T, p # None => p \in T,
           \A x \in T : ListedIn(m, x) /\ m[x].parent # None => m[x].parent \in T
    PROVE  LineageIn(m, p) \subseteq T
  <1> DEFINE g == WalkIn(m, p)
             S == {n \in Nat : n <= MaxSnaps => g[n] \subseteq T}
  <1>1. 0 \in S
    BY WalkSteps
  <1>2. ASSUME NEW n \in Nat, n \in S PROVE n + 1 \in S
    <2>. SUFFICES ASSUME n + 1 <= MaxSnaps PROVE g[n + 1] \subseteq T
      OBVIOUS
    <2>1. g[n] \subseteq T
      BY <1>2, BoundsAssumption
    <2>2. g[n + 1] = g[n] \cup ParentsIn(m, g[n])
      BY WalkSteps
    <2>. QED  BY <2>1, <2>2 DEF ParentsIn
  <1>. HIDE DEF S
  <1>3. Nat \subseteq S
    BY <1>1, <1>2, Induction
  <1>. QED  BY <1>3, BoundsAssumption DEF S, LineageIn

\* The lineage holds the parents of its listed members: MaxSnaps steps are enough,
\* because each step meets a snapshot born earlier.
LEMMA LineageUp ==
    ASSUME NEW m, NEW p, DownIn(m),
           NEW x \in LineageIn(m, p), ListedIn(m, x), m[x].parent # None
    PROVE  m[x].parent \in LineageIn(m, p)
  <1> DEFINE g == WalkIn(m, p)
             New(n) == \A y \in g[n] : ListedIn(m, y) =>
                          \/ \E k \in Nat : k < n /\ y \in g[k]
                          \/ m[y].born <= MaxSnaps - n
             S == {n \in Nat : n <= MaxSnaps => New(n)}
  <1>0. \A y : ListedIn(m, y) => m[y].born \in 1..MaxSnaps
    BY DEF ListedIn, Snapshot
  <1>1. 0 \in S
    BY <1>0, BoundsAssumption
  <1>2. ASSUME NEW n \in Nat, n \in S PROVE n + 1 \in S
    <2>. SUFFICES ASSUME n + 1 <= MaxSnaps, NEW y \in g[n + 1], ListedIn(m, y),
                         \A k \in Nat : k < n + 1 => y \notin g[k]
                  PROVE  m[y].born <= MaxSnaps - (n + 1)
      OBVIOUS
    <2>1. New(n)
      BY <1>2, BoundsAssumption
    <2>2. g[n + 1] = g[n] \cup ParentsIn(m, g[n])
      BY WalkSteps
    <2>3. PICK z \in g[n] : ListedIn(m, z) /\ m[z].parent = y
      BY <2>2 DEF ParentsIn
    <2>4. y # None
      BY SentinelAssumption DEF ListedIn
    <2>5. ASSUME NEW k \in Nat, k < n, z \in g[k] PROVE FALSE
      <3>1. g[k + 1] = g[k] \cup ParentsIn(m, g[k]) /\ k + 1 < n + 1
        BY <2>5, WalkSteps, BoundsAssumption
      <3>2. y \in g[k + 1]
        BY <3>1, <2>3, <2>4, <2>5 DEF ParentsIn
      <3>. QED  BY <3>1, <3>2
    <2>6. m[z].born <= MaxSnaps - n
      BY <2>1, <2>3, <2>5
    <2>7. m[y].born < m[z].born
      BY <2>3 DEF DownIn, ListedIn
    <2>8. m[y].born \in Int /\ m[z].born \in Int
      BY <1>0, <2>3
    <2>. QED  BY <2>6, <2>7, <2>8, BoundsAssumption
  <1>. HIDE DEF S
  <1>3. Nat \subseteq S
    BY <1>1, <1>2, Induction
  <1>4. New(MaxSnaps)
    BY <1>3, BoundsAssumption DEF S
  <1>5. PICK k \in Nat : k < MaxSnaps /\ x \in g[k]
    BY <1>0, <1>4, BoundsAssumption DEF LineageIn
  <1>6. g[k + 1] = g[k] \cup ParentsIn(m, g[k])
    BY <1>5, WalkSteps, BoundsAssumption
  <1>7. m[x].parent \in g[k + 1]
    BY <1>5, <1>6 DEF ParentsIn
  <1>. QED  BY <1>5, <1>7, WalkGrows, BoundsAssumption


\* Of a listed p it is p and the lineage of its parent.
LEMMA LineageUnfold ==
    ASSUME NEW m, NEW p, DownIn(m), ListedIn(m, p)
    PROVE  LineageIn(m, p) = {p} \cup LineageIn(m, m[p].parent)
  <1> DEFINE q == m[p].parent
             T == {p} \cup LineageIn(m, q)
  <1>0. p # None
    BY SentinelAssumption DEF ListedIn
  <1>1. ASSUME NEW x \in T, ListedIn(m, x), m[x].parent # None PROVE m[x].parent \in T
    <2>1. CASE x = p
      BY <1>1, <2>1, LineageStart
    <2>2. CASE x \in LineageIn(m, q)
      BY <1>1, <2>2, LineageUp
    <2>. QED  BY <2>1, <2>2
  <1>. HIDE DEF q
  <1>2. LineageIn(m, p) \subseteq T
    BY <1>1, LineageLeast
  <1>3. p \in LineageIn(m, p)
    BY <1>0, LineageStart
  <1>4. q # None => q \in LineageIn(m, p)
    BY <1>3, LineageUp DEF q
  <1>5. \A x \in LineageIn(m, p) : ListedIn(m, x) /\ m[x].parent # None
                                      => m[x].parent \in LineageIn(m, p)
    BY LineageUp
  <1>6. LineageIn(m, q) \subseteq LineageIn(m, p)
    BY <1>4, <1>5, LineageLeast
  <1>. QED  BY <1>2, <1>3, <1>6 DEF q

\* It holds the whole lineage of each of its members.
LEMMA LineageSub ==
    ASSUME NEW m, NEW p, DownIn(m), NEW x \in LineageIn(m, p)
    PROVE  LineageIn(m, x) \subseteq LineageIn(m, p)
  BY LineageUp, LineageLeast

\* Its members other than None are p and parents; with a parent that is an id or None
\* they are ids.
LEMMA LineageIds ==
    ASSUME NEW m, NEW p \in Ids \cup {None}
    PROVE  LineageIn(m, p) \subseteq Ids
  <1>1. ASSUME NEW x \in Ids, ListedIn(m, x), m[x].parent # None PROVE m[x].parent \in Ids
    BY <1>1 DEF ListedIn, Snapshot
  <1>. QED  BY <1>1, LineageLeast

\* A listed member is not born after p, nor after any listed child of p.
LEMMA LineageBorn ==
    ASSUME NEW m, NEW p, DownIn(m), NEW b \in Int, ListedIn(m, p) => m[p].born <= b,
           \A y \in LineageIn(m, p) : ListedIn(m, y),
           NEW x \in LineageIn(m, p)
    PROVE  m[x].born <= b
  <1> DEFINE T == {y \in LineageIn(m, p) : m[y].born <= b}
  <1>1. p # None => p \in T
    BY LineageStart
  <1>2. ASSUME NEW y \in T, ListedIn(m, y), m[y].parent # None PROVE m[y].parent \in T
    <2>1. m[y].parent \in LineageIn(m, p)
      BY <1>2, LineageUp
    <2>2. ListedIn(m, m[y].parent)
      BY <2>1
    <2>3. m[m[y].parent].born < m[y].born
      BY <1>2, <2>2 DEF DownIn, ListedIn
    <2>4. m[m[y].parent].born \in Int /\ m[y].born \in Int
      BY <1>2, <2>2 DEF ListedIn, Snapshot
    <2>. QED  BY <1>2, <2>1, <2>3, <2>4
  <1>. HIDE DEF T
  <1>3. LineageIn(m, p) \subseteq T
    BY <1>1, <1>2, LineageLeast
  <1>. QED  BY <1>3 DEF T

\* Of two listed members one is in the lineage of the other.
LEMMA LineageLinear ==
    ASSUME NEW m, NEW p, DownIn(m), NEW z \in LineageIn(m, p), ListedIn(m, z)
    PROVE  \A y \in LineageIn(m, p) : y \in LineageIn(m, z) \/ z \in LineageIn(m, y)
  <1> DEFINE T == {y \in LineageIn(m, p) : y \in LineageIn(m, z) \/ z \in LineageIn(m, y)}
  <1>1. p # None => p \in T
    BY LineageStart
  <1>2. ASSUME NEW y \in T, ListedIn(m, y), m[y].parent # None PROVE m[y].parent \in T
    <2>1. m[y].parent \in LineageIn(m, p)
      BY <1>2, LineageUp
    <2>2. CASE y \in LineageIn(m, z)
      BY <1>2, <2>1, <2>2, LineageUp
    <2>3. CASE z \in LineageIn(m, y)
      <3>1. z = y \/ z \in LineageIn(m, m[y].parent)
        BY <1>2, <2>3, LineageUnfold
      <3>2. z # None
        BY SentinelAssumption DEF ListedIn
      <3>3. z \in LineageIn(m, z)
        BY <3>2, LineageStart
      <3>4. z = y => m[y].parent \in LineageIn(m, z)
        BY <1>2, <3>3, LineageUp
      <3>. QED  BY <2>1, <3>1, <3>4
    <2>. QED  BY <1>2, <2>2, <2>3
  <1>. HIDE DEF T
  <1>3. LineageIn(m, p) \subseteq T
    BY <1>1, <1>2, LineageLeast
  <1>. QED  BY <1>3 DEF T

\* A chain that is intact after records came and went, none of those below p among those
\* that came, was intact before, and is the same.
LEMMA LineageKept ==
    ASSUME NEW m, NEW n, NEW p, DownIn(m), DownIn(n), NEW D, p # None => p \in D,
           \A y \in D : ListedIn(n, y) => ListedIn(m, y) /\ n[y] = m[y],
           \A y \in D : ListedIn(m, y) /\ m[y].parent # None => m[y].parent \in D,
           \A y \in LineageIn(n, p) : ListedIn(n, y)
    PROVE  /\ LineageIn(n, p) = LineageIn(m, p)
           /\ LineageIn(n, p) \subseteq D
           /\ \A y \in LineageIn(n, p) : ListedIn(m, y) /\ n[y] = m[y]
  <1> DEFINE T == LineageIn(n, p) \cap D
  <1>1. p # None => p \in T
    BY LineageStart
  <1>2. ASSUME NEW y \in T, ListedIn(n, y), n[y].parent # None PROVE n[y].parent \in T
    <2>1. n[y].parent \in LineageIn(n, p)
      BY <1>2, LineageUp
    <2>2. ListedIn(m, y) /\ n[y] = m[y]
      BY <1>2
    <2>. QED  BY <1>2, <2>1, <2>2
  <1>. HIDE DEF T
  <1>3. LineageIn(n, p) \subseteq T
    BY <1>1, <1>2, LineageLeast
  <1>4. LineageIn(n, p) \subseteq D
    BY <1>3 DEF T
  <1>5. \A y \in LineageIn(n, p) : ListedIn(m, y) /\ n[y] = m[y]
    BY <1>4
  <1>6. ASSUME NEW y \in LineageIn(n, p), ListedIn(m, y), m[y].parent # None
        PROVE  m[y].parent \in LineageIn(n, p)
    BY <1>5, <1>6, LineageUp
  <1>7. LineageIn(m, p) \subseteq LineageIn(n, p)
    <2>1. p # None => p \in LineageIn(n, p)
      BY LineageStart
    <2>. QED  BY <1>6, <2>1, LineageLeast
  <1>8. ASSUME NEW y \in LineageIn(m, p), ListedIn(n, y), n[y].parent # None,
               y \in LineageIn(n, p)
        PROVE  n[y].parent \in LineageIn(m, p)
    BY <1>5, <1>8, LineageUp
  <1>9. LineageIn(n, p) \subseteq LineageIn(m, p)
    <2> DEFINE U == LineageIn(m, p) \cap LineageIn(n, p)
    <2>1. p # None => p \in U
      BY LineageStart
    <2>2. ASSUME NEW y \in U, ListedIn(n, y), n[y].parent # None PROVE n[y].parent \in U
      BY <1>8, <2>2, LineageUp
    <2>. HIDE DEF U
    <2>3. LineageIn(n, p) \subseteq U
      BY <2>1, <2>2, LineageLeast
    <2>. QED  BY <2>3 DEF U
  <1>. QED  BY <1>4, <1>5, <1>7, <1>9

\* A set of listed snapshots that is not empty has a newest and an oldest one.
LEMMA NewestExists ==
    ASSUME NEW m, NEW S, S # {}, \A x \in S : ListedIn(m, x)
    PROVE  /\ \E x \in S : \A y \in S : m[y].born <= m[x].born
           /\ \E x \in S : \A y \in S : m[x].born <= m[y].born
  <1> DEFINE T == {m[x].born : x \in S}
             U == {MaxSnaps - m[x].born : x \in S}
  <1>1. \A x \in S : m[x].born \in 1..MaxSnaps
    BY DEF ListedIn, Snapshot
  <1>2. T \subseteq Nat /\ T # {} /\ U \subseteq Nat /\ U # {}
    BY <1>1, BoundsAssumption
  <1>3. PICK t \in T : \A u \in T : t <= u
    BY <1>2, LeastNatural
  <1>4. PICK t2 \in U : \A u \in U : t2 <= u
    BY <1>2, LeastNatural
  <1>5. \E x \in S : \A y \in S : m[x].born <= m[y].born
    BY <1>3
  <1>6. PICK x \in S : t2 = MaxSnaps - m[x].born
    BY <1>4
  <1>7. \A y \in S : MaxSnaps - m[x].born <= MaxSnaps - m[y].born
    BY <1>4, <1>6
  <1>8. \A y \in S : m[y].born <= m[x].born
    BY <1>1, <1>7, BoundsAssumption
  <1>. QED  BY <1>5, <1>8
-----------------------------------------------------------------------------
(* What any step makes of the snapshots and the jobs.                      *)

\* A listed snapshot is one no job works on any more.
LEMMA ListedDone ==
    ASSUME VaultInv, NEW x, Listed(x)
    PROVE  Done(x) /\ x \in Ids /\ meta[x] \in Snapshot
  BY SentinelAssumption DEF VaultInv, IdsApart, BuildingHidden, Owners, Done, Listed

\* The record, the data and the witness of x stay.
Same(x) == meta'[x] = meta[x] /\ data'[x] = data[x] /\ witness'[x] = witness[x]

\* A snapshot that a step leaves listed was listed before with the same record and data,
\* or is just published.
LEMMA ListedStep ==
    ASSUME VaultInv, VaultInv', [Next]_vars, NEW x \in Ids, Listed(x)'
    PROVE  \/ Listed(x) /\ Same(x)
           \/ \E w \in Workers :
                 /\ job[w].snap # None /\ job[w].id = x /\ job[w].pc = "publish"
                 /\ job[w].snap \in Snapshot
                 /\ meta'[x] = job[w].snap /\ witness'[x] = job[w].seen
                 /\ UNCHANGED <<data, used, tree, versions, births>>
  <1>. TypeOK
    BY DEF VaultInv
  <1>1. ASSUME UNCHANGED <<meta, data, witness>> PROVE Listed(x) /\ Same(x)
    BY <1>1 DEF Same, Listed
  <1>2. ASSUME NEW w \in Workers, Quiet(w) \/ Start(w) PROVE Listed(x) /\ Same(x)
    BY <1>1, <1>2, QuietEffect, StartEffect
  <1>3. ASSUME NEW w \in Workers, Copy(w) PROVE Listed(x) /\ Same(x)
    <2>1. /\ job[w].snap # None /\ \A y \in Ids \ {job[w].id} : data'[y] = data[y]
          /\ UNCHANGED <<meta, witness>>
      BY <1>3, CopyEffect
    <2>. QED  BY <2>1 DEF Same, Listed, VaultInv, BuildingHidden
  <1>4. ASSUME NEW w \in Workers, OpenMeta(w) PROVE Listed(x) /\ Same(x)
    <2>1. /\ meta'[job[w].id] = Torn /\ \A y \in Ids \ {job[w].id} : meta'[y] = meta[y]
          /\ UNCHANGED <<data, witness>>
      BY <1>4, OpenMetaEffect
    <2>. QED  BY <2>1, SentinelAssumption DEF Same, Listed
  <1>5. ASSUME NEW w \in Workers, WriteMeta(w), ~ (Listed(x) /\ Same(x))
        PROVE  /\ job[w].snap # None /\ job[w].id = x /\ job[w].pc = "publish"
               /\ job[w].snap \in Snapshot
               /\ meta'[x] = job[w].snap /\ witness'[x] = job[w].seen
               /\ UNCHANGED <<data, used, tree, versions, births>>
    BY <1>5, WriteMetaEffect DEF Same, Listed
  <1>6. ASSUME NEW w \in Workers, NEW y \in Ids, DeleteMeta(w, y) PROVE Listed(x) /\ Same(x)
    BY <1>6, DeleteMetaEffect DEF Same, Listed
  <1>7. ASSUME NEW w \in Workers, DeleteData(w) PROVE Listed(x) /\ Same(x)
    <2>1. /\ job[w].pc = "rmdata" /\ \A y \in Ids \ {job[w].id} : data'[y] = data[y]
          /\ UNCHANGED <<meta, witness>>
      BY <1>7, DeleteDataEffect
    <2>2. ~Listed(job[w].id) /\ Listed(x)
      BY <2>1 DEF Listed, VaultInv, DeletedHidden
    <2>. QED  BY <2>1, <2>2 DEF Same
  <1>8. ASSUME NEW s \in Sources, NEW f \in Files, User(s, f) PROVE Listed(x) /\ Same(x)
    BY <1>1, <1>8, TouchEffect DEF User, Edit, Unlink, PutBack
  <1>9. ASSUME Tick \/ UNCHANGED vars PROVE Listed(x) /\ Same(x)
    BY <1>1, <1>9 DEF Tick, vars
  <1>. QED  BY <1>2, <1>3, <1>4, <1>5, <1>6, <1>7, <1>8, <1>9
            DEF Next, Backup, Delete, Quiet

\* Job v goes on with the snapshot it has.
Carried(v) ==
    /\ job'[v].plan = job[v].plan /\ job'[v].id = job[v].id
    /\ job'[v].snap = job[v].snap /\ job'[v].chain = job[v].chain
    /\ job'[v].todo = job[v].todo
    /\ \A f \in Files : job'[v].seen[f] # None => job'[v].seen[f] = job[v].seen[f]
    /\ job'[v].pc = "new" => job[v].pc = "new"
    /\ job'[v].pc = "prepare" => job[v].pc = "prepare"
    /\ Comparing(job'[v]) => Comparing(job[v])
    /\ job'[v].pc = "publish" => job[v].pc = "publish" \/ job[v].todo = {}
    /\ job'[v].pc \in {"hash", "copy"} =>
           /\ job[v].pc \in {"hash", "copy"}
           /\ job'[v].file = job[v].file /\ job'[v].stat = job[v].stat
    /\ job[v].snap # None => data'[job[v].id] = data[job[v].id]

\* A job that is not touched goes on.
LEMMA Untouched ==
    ASSUME NEW v \in Workers, job'[v] = job[v],
           job[v].snap # None => data'[job[v].id] = data[job[v].id]
    PROVE  Carried(v)
  BY DEF Carried

\* What the steps of the other jobs leave of a job.
LEMMA OthersCarried ==
    ASSUME VaultInv, NEW v \in Workers, NEW w \in Workers \ {v},
           Backup(w) \/ Delete(w) \/ Abort(w)
    PROVE  Carried(v)
  <1>. TypeOK
    BY DEF VaultInv
  <1>1. CASE Copy(w)
    <2>1. /\ job[w].snap # None /\ job'[v] = job[v]
          /\ \A x \in Ids \ {job[w].id} : data'[x] = data[x]
      <3>1. job[w].snap # None
        BY <1>1, CopyEffect, Zenon
      <3>2. \A u \in Workers \ {w} : job'[u] = job[u]
        BY <1>1, CopyEffect, Zenon
      <3>3. \A x \in Ids \ {job[w].id} : data'[x] = data[x]
        BY <1>1, CopyEffect, Zenon
      <3>. QED  BY <3>1, <3>2, <3>3
    <2>2. job[v].snap # None => job[v].id \in Ids /\ job[v].id # job[w].id
      BY <2>1, JobFields DEF VaultInv, IdsApart, Shaped
    <2>. QED  BY <2>1, <2>2, Untouched
  <1>2. CASE DeleteData(w)
    <2>1. /\ job[w].id # None /\ job'[v] = job[v]
          /\ \A x \in Ids \ {job[w].id} : data'[x] = data[x]
      BY <1>2, DeleteDataEffect
    <2>2. job[v].snap # None => job[v].id \in Ids /\ job[v].id # job[w].id
      BY <2>1, JobFields DEF VaultInv, IdsApart, Shaped
    <2>. QED  BY <2>1, <2>2, Untouched
  <1>3. CASE Start(w)
    BY <1>3, StartEffect, Untouched
  <1>4. CASE Quiet(w)
    BY <1>4, QuietEffect, Untouched
  <1>5. CASE OpenMeta(w)
    BY <1>5, OpenMetaEffect, Untouched
  <1>6. CASE WriteMeta(w)
    BY <1>6, WriteMetaEffect, Untouched
  <1>7. CASE \E x \in Ids : DeleteMeta(w, x)
    BY <1>7, DeleteMetaEffect, Untouched
  <1>. QED  BY <1>1, <1>2, <1>3, <1>4, <1>5, <1>6, <1>7 DEF Backup, Delete, Quiet

\* What a step makes of a job, by the action that takes it on.
LEMMA JobStep ==
    ASSUME VaultInv, [Next]_vars, NEW v \in Workers
    PROVE  \/ Carried(v)
           \/ job'[v].snap = None /\ job'[v].pc \in {"idle", "rmdata"}
           \/ \E s \in Sources, k \in Kinds : Choose(v, s, k)
           \/ Start(v) \/ Prepare(v) \/ Copy(v) \/ \E f \in Files : Examine(v, f)
  <1>. TypeOK
    BY DEF VaultInv
  <1>1. CASE Hash(v)
    <2>1. PICK sum : job' = [job EXCEPT ![v].pc = "copy", ![v].checksum = sum]
      BY <1>1 DEF Hash
    <2>2. job[v].pc = "hash" /\ job[v] \in Job /\ data' = data
      BY <1>1, JobFields DEF Hash
    <2>3. job'[v] = [job[v] EXCEPT !.pc = "copy", !.checksum = sum]
      BY <2>1 DEF TypeOK
    <2> DEFINE c == job[v]
               d == [job[v] EXCEPT !.pc = "copy", !.checksum = sum]
    <2>4. /\ d.plan = c.plan /\ d.id = c.id /\ d.snap = c.snap /\ d.chain = c.chain
          /\ d.todo = c.todo /\ d.seen = c.seen /\ d.pc = "copy"
          /\ d.file = c.file /\ d.stat = c.stat
      BY <2>2 DEF Job
    <2>. HIDE DEF d
    <2>. QED  BY <2>2, <2>3, <2>4 DEF Carried, Comparing
  <1>2. CASE OpenMeta(v)
    <2>1. job[v] \in Job /\ job'[v] = [job[v] EXCEPT !.pc = "publish"] /\ data' = data
      BY <1>2, JobFields DEF OpenMeta, TypeOK
    <2>2. job[v].pc = "scan" /\ job[v].todo = {}
      BY <1>2 DEF OpenMeta
    <2> DEFINE c == job[v]
               d == [job[v] EXCEPT !.pc = "publish"]
    <2>3. /\ d.plan = c.plan /\ d.id = c.id /\ d.snap = c.snap /\ d.chain = c.chain
          /\ d.todo = c.todo /\ d.seen = c.seen /\ d.pc = "publish"
      BY <2>1 DEF Job
    <2>. HIDE DEF d
    <2>. QED  BY <2>1, <2>2, <2>3 DEF Carried, Comparing
  <1>3. CASE WriteMeta(v) \/ Abort(v) \/ DeleteData(v)
    <2>1. job'[v] = Idle
      BY <1>3 DEF WriteMeta, Abort, DeleteData, Finish, TypeOK
    <2>. QED  BY <2>1 DEF Idle
  <1>4. CASE \E x \in Ids : DeleteMeta(v, x)
    BY <1>4, DeleteMetaEffect
  <1>5. ASSUME NEW s \in Sources, NEW f \in Files, User(s, f)
        PROVE  Carried(v)
    <2>1. PICK u : Touch(s, f, u)
      BY <1>5 DEF User, Edit, Unlink, PutBack
    <2>. QED  BY <2>1, TouchEffect DEF Carried, Comparing
  <1>6. CASE Tick \/ UNCHANGED vars
    BY <1>6, Untouched DEF Tick, vars
  <1>7. ASSUME NEW w \in Workers, Backup(w) \/ Delete(w) \/ Abort(w), w # v
        PROVE  Carried(v)
    BY <1>7, OthersCarried
  <1>. QED  BY <1>1, <1>2, <1>3, <1>4, <1>5, <1>6, <1>7 DEF Next, Backup, Delete

\* Nothing that is done is undone, and births and versions only grow.
DoneKept == \A x \in Ids : Done(x) => Done(x)' /\ (Listed(x)' => Listed(x) /\ Same(x))
Grown == /\ births \in Int /\ births' \in Int /\ births <= births'
         /\ versions \subseteq versions'
Kept == DoneKept /\ Grown

\* Every step keeps them.
LEMMA KeptStep ==
    ASSUME VaultInv, VaultInv', CounterAhead, FreshIds, [Next]_vars
    PROVE  Kept
  <1>. TypeOK /\ TypeOK'
    BY DEF VaultInv
  <1>1. births \in Int /\ births' \in Int
    BY DEF TypeOK
  <1> DEFINE Grows == births <= births' /\ versions \subseteq versions' /\ used \subseteq used'
  <1>2. Grows
    <2>1. ASSUME NEW w \in Workers, Start(w) PROVE Grows
      <3>1. births' = births + 1 /\ versions' = versions
        BY <2>1 DEF Start
      <3>2. used \subseteq used'
        BY <2>1 DEF Start
      <3>. QED  BY <1>1, <3>1, <3>2
    <2>2. ASSUME NEW w \in Workers, Copy(w) \/ OpenMeta(w) \/ WriteMeta(w) PROVE Grows
      <3>1. births' = births /\ versions' = versions /\ used' = used
        BY <2>2 DEF Copy, OpenMeta, WriteMeta
      <3>. QED  BY <1>1, <3>1
    <2>3. ASSUME NEW w \in Workers, Delete(w) PROVE Grows
      BY <1>1, <2>3, DeleteMetaEffect, DeleteDataEffect DEF Delete
    <2>4. ASSUME NEW w \in Workers, Quiet(w) PROVE Grows
      BY <1>1, <2>4, QuietEffect
    <2>5. ASSUME NEW s \in Sources, NEW f \in Files, User(s, f) PROVE Grows
      <3>1. births' = births /\ used' = used /\ versions \subseteq versions'
        BY <2>5 DEF User, Edit, Unlink, PutBack, Touch
      <3>. QED  BY <1>1, <3>1
    <2>6. CASE Tick \/ UNCHANGED vars
      BY <1>1, <2>6 DEF Tick, vars
    <2>. HIDE DEF Grows
    <2>. QED  BY <2>1, <2>2, <2>3, <2>4, <2>5, <2>6 DEF Next, Backup, Quiet
  <1>3. ASSUME NEW x \in Ids, Done(x) PROVE Done(x)'
    <2>. SUFFICES ASSUME NEW v \in Workers, job'[v].snap # None, job'[v].id = x
                  PROVE  FALSE
      BY <1>2, <1>3 DEF Done, Owners
    <2>1. CASE Carried(v)
      BY <1>3, <2>1 DEF Carried, Done, Owners
    <2>2. CASE Start(v)
      <3>1. job'[v].id = <<clock, ctr[v]>>
        BY <2>2, StartEffect, Zenon
      <3>. QED  BY <1>3, <2>2, <3>1, FreshStart DEF Done
    <2>3. CASE Copy(v)
      BY <1>3, <2>3, CopyEffect DEF Done, Owners
    <2>4. CASE Quiet(v)
      BY <1>3, <2>4, QuietEffect DEF Idle, Done, Owners
    <2>. QED  BY <2>1, <2>2, <2>3, <2>4, JobStep DEF Quiet
  <1>4. ASSUME NEW x \in Ids, Done(x), Listed(x)' PROVE Listed(x) /\ Same(x)
    BY <1>4, ListedStep DEF Done, Owners
  <1>. QED  BY <1>1, <1>2, <1>3, <1>4 DEF Kept, DoneKept, Grown

\* The reference snapshot that a backup chooses.
LEMMA ChooseEffect ==
    ASSUME TypeOK, NEW w \in Workers, NEW s \in Sources, NEW k \in Kinds, Choose(w, s, k)
    PROVE  \E p \in Ids \cup {None} :
               /\ job'[w].pc = "new" /\ job'[w].snap = None
               /\ job'[w].plan.src = s /\ job'[w].plan.strategy = k
               /\ job'[w].plan.parent = p
               /\ p = None => job'[w].chain = {}
               /\ p # None => job'[w].chain = {meta[p]}
               /\ p # None => /\ Listed(p) /\ meta[p].src = s /\ k # "full"
                              /\ k = "differential" => meta[p].strategy = "full"
  <1> DEFINE plan(p) == [src |-> s, strategy |-> k, parent |-> p]
             chain(p) == IF p = None THEN {} ELSE {meta[p]}
             j(p) == [Idle EXCEPT !.pc = "new", !.plan = plan(p), !.chain = chain(p)]
  <1>1. PICK p \in (IF Reference(s, k) = {} THEN {None} ELSE Reference(s, k)) :
            job' = [job EXCEPT ![w] = j(p)]
    BY DEF Choose
  <1>2. job'[w] = j(p)
    BY <1>1 DEF TypeOK
  <1>3. /\ j(p).pc = "new" /\ j(p).snap = None /\ j(p).plan = plan(p)
        /\ j(p).chain = chain(p)
    BY DEF Idle
  <1>5. plan(p).src = s /\ plan(p).strategy = k /\ plan(p).parent = p
    OBVIOUS
  <1>4. ASSUME p # None
        PROVE  /\ p \in Ids /\ Listed(p) /\ meta[p].src = s /\ k # "full"
               /\ k = "differential" => meta[p].strategy = "full"
    <2>1. p \in Reference(s, k) /\ k \in Strategies
      BY <1>1, <1>4, BoundsAssumption
    <2>2. k # "full"
      BY <2>1 DEF Reference
    <2>3. CASE k = "incremental"
      BY <2>1, <2>3 DEF Reference, Latest, Snaps, Listed
    <2>4. CASE k = "differential"
      BY <2>1, <2>4 DEF Reference, Latest, FullSnaps, Snaps, Listed
    <2>. QED  BY <2>1, <2>2, <2>3, <2>4 DEF Strategies
  <1>. HIDE DEF j, plan
  <1>. QED  BY <1>2, <1>3, <1>4, <1>5

\* The files a backup goes through, and the chain it compares them with.
LEMMA PrepareEffect ==
    ASSUME TypeOK, NEW w \in Workers, Prepare(w)
    PROVE  LET j == job[w]
               older == UNION {Lineage(s.parent) : s \in j.chain}
               load == IF j.snap.strategy = "incremental" THEN older ELSE {}
           IN /\ j.pc = "prepare" /\ j.snap \in Snapshot
              /\ job'[w].pc = "scan" /\ job'[w].id = j.id /\ job'[w].snap = j.snap
              /\ job'[w].seen = j.seen
              /\ job'[w].todo = {f \in Files : tree[j.snap.src][f] # None}
              /\ job'[w].chain = j.chain \cup {meta[x] : x \in load}
              /\ UNCHANGED <<meta, data, witness, tree, versions, births>>
  <1> DEFINE c == job[w]
             older == UNION {Lineage(s.parent) : s \in c.chain}
             load == IF c.snap.strategy = "incremental" THEN older ELSE {}
             todo == {f \in Files : tree[c.snap.src][f] # None}
             chain == c.chain \cup {meta[x] : x \in load}
             d == [c EXCEPT !.pc = "scan", !.todo = todo, !.chain = chain]
  <1>1. c.pc = "prepare" /\ c \in Job /\ c.snap \in Snapshot
    BY JobFields DEF Prepare
  <1>2. job' = [job EXCEPT ![w].pc = "scan", ![w].todo = todo, ![w].chain = chain]
    BY DEF Prepare
  <1>3. UNCHANGED <<meta, data, witness, tree, versions, births>>
    BY DEF Prepare
  <1>. HIDE DEF todo, chain
  <1>4. job'[w] = d
    BY <1>2 DEF TypeOK
  <1>5. /\ d.pc = "scan" /\ d.id = c.id /\ d.snap = c.snap /\ d.seen = c.seen
        /\ d.todo = todo /\ d.chain = chain
    BY <1>1 DEF Job
  <1>. HIDE DEF d
  <1>6. /\ job'[w].pc = "scan" /\ job'[w].id = c.id /\ job'[w].snap = c.snap
        /\ job'[w].seen = c.seen /\ job'[w].todo = todo /\ job'[w].chain = chain
    BY <1>4, <1>5, Zenon
  <1>. HIDE DEF c
  <1>. QED  BY <1>1, <1>3, <1>6, Zenon DEF c, todo, chain

\* A file that is compared with the chain.
LEMMA ExamineEffect ==
    ASSUME TypeOK, NEW w \in Workers, NEW f \in Files, Examine(w, f)
    PROVE  LET j == job[w]
               v == tree[j.snap.src][f]
               st == [mtime |-> v.mtime, size |-> SizeOf[v.content]]
           IN /\ j.pc = "scan" /\ j.snap \in Snapshot /\ v # None
              /\ job'[w].id = j.id /\ job'[w].snap = j.snap /\ job'[w].seen = j.seen
              /\ job'[w].chain = j.chain
              /\ \/ /\ job'[w].pc = "hash" /\ job'[w].file = f /\ job'[w].stat = st
                    /\ job'[w].todo = j.todo
                 \/ /\ job'[w].pc = "scan" /\ job'[w].todo = j.todo \ {f}
                    /\ ~Changed(j.chain, f, st)
              /\ UNCHANGED <<meta, data, witness, tree, versions, births>>
  <1> DEFINE c == job[w]
             v == tree[c.snap.src][f]
             st == [mtime |-> v.mtime, size |-> SizeOf[v.content]]
             d1 == [c EXCEPT !.pc = "hash", !.file = f, !.stat = st]
             d2 == [c EXCEPT !.todo = @ \ {f}]
  <1>1. c.pc = "scan" /\ c \in Job /\ c.snap \in Snapshot /\ v # None
    BY JobFields DEF Examine
  <1>2. \/ job' = [job EXCEPT ![w].pc = "hash", ![w].file = f, ![w].stat = st]
        \/ /\ ~Changed(c.chain, f, st)
           /\ job' = [job EXCEPT ![w].todo = @ \ {f}]
    BY DEF Examine
  <1>3. UNCHANGED <<meta, data, witness, tree, versions, births>>
    BY DEF Examine
  <1>. HIDE DEF st
  <1>4. job'[w] = d1 \/ (job'[w] = d2 /\ ~Changed(c.chain, f, st))
    BY <1>2 DEF TypeOK
  <1>5. /\ d1.pc = "hash" /\ d1.id = c.id /\ d1.snap = c.snap /\ d1.seen = c.seen
        /\ d1.todo = c.todo /\ d1.chain = c.chain /\ d1.file = f /\ d1.stat = st
    BY <1>1 DEF Job
  <1>6. /\ d2.pc = "scan" /\ d2.id = c.id /\ d2.snap = c.snap /\ d2.seen = c.seen
        /\ d2.todo = c.todo \ {f} /\ d2.chain = c.chain
    BY <1>1 DEF Job
  <1>. HIDE DEF c, d1, d2, v
  <1>. QED  BY <1>1, <1>3, <1>4, <1>5, <1>6, Zenon DEF c, st, v

-----------------------------------------------------------------------------
(* Parents.                                                                *)

\* A child is born after its parent.
LEMMA BornDown ==
    ASSUME TypeOK, LinkInv
    PROVE  DownIn(meta)
  <1>. SUFFICES ASSUME NEW x \in Ids, Listed(x), Listed(meta[x].parent)
                PROVE  meta[meta[x].parent].born < meta[x].born
    BY DEF DownIn, ListedIn, Listed
  <1>. QED  BY DEF LinkInv, LinkedRecord, Linked

\* A link to what is done stays good.
LEMMA LinkStays ==
    ASSUME TypeOK, Kept, NEW p, NEW b \in Int, NEW c \in Int, b <= c, NEW s, NEW k,
           Linked(p, b, s, k)
    PROVE  Linked(p, c, s, k)'
  <1>1. ASSUME p \in Ids
        PROVE  /\ Done(p) /\ Done(p)'
               /\ Listed(p)' => Listed(p) /\ meta'[p] = meta[p]
    BY <1>1, SentinelAssumption DEF Kept, DoneKept, Same, Linked
  <1>2. p # None => Done(p)'
    <2>1. ASSUME p # None PROVE p \in Ids
      BY <2>1 DEF Linked, Done, TypeOK
    <2>. QED  BY <1>1, <2>1
  <1>3. ASSUME Listed(p)'
        PROVE  /\ meta'[p].born < c /\ meta'[p].src = s
               /\ k = "differential" => meta'[p].strategy = "full"
    <2>1. p \in Ids /\ Listed(p) /\ meta'[p] = meta[p]
      BY <1>1, <1>3 DEF Listed
    <2>2. meta[p].born \in Int
      BY <2>1 DEF Listed, Snapshot
    <2>. QED  BY <2>1, <2>2 DEF Linked
  <1>. QED  BY <1>2, <1>3 DEF Linked

\* A good record stays good.
LEMMA RecordStays ==
    ASSUME TypeOK, Kept, NEW r \in Snapshot, LinkedRecord(r)
    PROVE  LinkedRecord(r)'
  <1>1. r.born \in Int /\ births \in Int /\ births' \in Int /\ births <= births'
    BY DEF Snapshot, Kept, Grown
  <1>2. Linked(r.parent, r.born, r.src, r.strategy) /\ r.born <= births
    BY DEF LinkedRecord
  <1>3. Linked(r.parent, r.born, r.src, r.strategy)'
    BY <1>1, <1>2, LinkStays
  <1>. QED  BY <1>1, <1>2, <1>3 DEF LinkedRecord

\* A new backup is born after everything that is done.
LEMMA StartLinked ==
    ASSUME VaultInv, Kept, LinkInv, NEW w \in Workers, Start(w), NEW r, r = job'[w].snap
    PROVE  LinkedRecord(r)'
  <1>. TypeOK
    BY DEF VaultInv
  <1> DEFINE plan == job[w].plan
             snap == [born |-> births + 1, src |-> plan.src, strategy |-> plan.strategy,
                      parent |-> plan.parent, entries |-> NoEntries]
  <1>1. job'[w].snap = snap
    BY StartEffect, Zenon
  <1>2. births' = births + 1 /\ births \in Int
    BY DEF Start, Kept, Grown
  <1>3. /\ snap.born = births + 1 /\ snap.src = plan.src /\ snap.strategy = plan.strategy
        /\ snap.parent = plan.parent
    OBVIOUS
  <1>. HIDE DEF snap
  <1>4. r = snap /\ job[w].pc = "new"
    BY <1>1 DEF Start
  <1>5. PICK p, s, k : p = plan.parent /\ s = plan.src /\ k = plan.strategy
    OBVIOUS
  <1>6. PICK b \in Int : b = births + 1
    BY <1>2
  <1>7. Linked(p, b, s, k)
    BY <1>4, <1>5, <1>6 DEF LinkInv
  <1>8. Linked(p, b, s, k)'
    BY <1>7, LinkStays
  <1>9. r.born = b /\ r.src = s /\ r.strategy = k /\ r.parent = p /\ b <= births'
    BY <1>2, <1>3, <1>4, <1>5, <1>6
  <1>. QED  BY <1>8, <1>9 DEF LinkedRecord

\* The jobs keep their links.
LEMMA JobLinked ==
    ASSUME VaultInv, VaultInv', Kept, LinkInv, [Next]_vars, NEW v \in Workers,
           job'[v].snap # None, NEW r, r = job'[v].snap
    PROVE  LinkedRecord(r)'
  <1>. TypeOK /\ TypeOK'
    BY DEF VaultInv
  <1>1. r \in Snapshot
    BY DEF TypeOK, Job
  <1>2. ASSUME job[v].snap # None, job'[v].snap = job[v].snap PROVE LinkedRecord(r)'
    BY <1>1, <1>2, RecordStays DEF LinkInv
  <1>3. CASE Carried(v)
    BY <1>2, <1>3 DEF Carried
  <1>4. CASE Start(v)
    BY <1>4, StartLinked
  <1>5. CASE Copy(v)
    <2> DEFINE e == [mtime |-> job[v].stat.mtime, size |-> job[v].stat.size,
                     checksum |-> job[v].checksum]
    <2>1. job[v].snap \in Snapshot /\ job[v].snap # None
      BY <1>5, CopyEffect
    <2>2. job'[v].snap = [job[v].snap EXCEPT !.entries[job[v].file] = e]
      BY <1>5, CopyEffect, Zenon
    <2>. HIDE DEF e
    <2>3. /\ r.born = job[v].snap.born /\ r.src = job[v].snap.src
          /\ r.strategy = job[v].snap.strategy /\ r.parent = job[v].snap.parent
      BY <2>1, <2>2 DEF Snapshot
    <2>4. LinkedRecord(r)
      BY <2>1, <2>3 DEF LinkInv, LinkedRecord
    <2>. QED  BY <1>1, <2>4, RecordStays
  <1>6. CASE Quiet(v)
    BY <1>2, <1>6, QuietEffect DEF Idle
  <1>. QED  BY <1>3, <1>4, <1>5, <1>6, JobStep DEF Quiet

\* A plan starts from a snapshot of the source that is listed.
LEMMA ChooseLinked ==
    ASSUME VaultInv, Kept, LinkInv, NEW v \in Workers, NEW s \in Sources, NEW k \in Kinds,
           Choose(v, s, k), NEW r, r = job'[v].plan, NEW c \in Int, births' = c - 1
    PROVE  Linked(r.parent, c, r.src, r.strategy)'
  <1>. TypeOK
    BY DEF VaultInv
  <1>1. PICK p \in Ids \cup {None} :
            /\ r.src = s /\ r.strategy = k /\ r.parent = p
            /\ p # None => /\ Listed(p) /\ meta[p].src = s /\ k # "full"
                           /\ k = "differential" => meta[p].strategy = "full"
    BY ChooseEffect
  <1>2. p # None => Done(p) /\ p \in Ids /\ Listed(p) /\ meta[p] \in Snapshot
    BY <1>1, ListedDone
  <1>3. ASSUME p # None PROVE meta[p].born < c
    <2>1. meta[p].born <= births /\ meta[p].born \in Int
      BY <1>2, <1>3 DEF LinkInv, LinkedRecord, Snapshot
    <2>. QED  BY <2>1 DEF Kept, Grown
  <1>4. ~Listed(None)
    BY SentinelAssumption DEF Listed
  <1>5. Linked(p, c, s, k)
    BY <1>1, <1>2, <1>3, <1>4 DEF Linked
  <1>. QED  BY <1>1, <1>5, LinkStays

\* A plan starts from a listed snapshot of the source and keeps its link.
LEMMA PlanLinked ==
    ASSUME VaultInv, VaultInv', Kept, LinkInv, [Next]_vars, NEW v \in Workers,
           job'[v].pc = "new", NEW r, r = job'[v].plan, NEW c \in Int, births' = c - 1
    PROVE  Linked(r.parent, c, r.src, r.strategy)'
  <1>. TypeOK /\ TypeOK'
    BY DEF VaultInv
  <1>1. CASE Carried(v)
    <2>1. job[v].pc = "new" /\ r = job[v].plan
      BY <1>1 DEF Carried
    <2>2. births \in Int /\ births' \in Int /\ births <= births'
      BY DEF Kept, Grown
    <2>3. PICK b \in Int : b = births + 1
      BY <2>2
    <2>4. b <= c
      BY <2>2, <2>3
    <2>5. Linked(r.parent, b, r.src, r.strategy)
      <3>1. Linked(r.parent, births + 1, r.src, r.strategy)
        BY <2>1 DEF LinkInv
      <3>. QED  BY <2>3, <3>1, Zenon
    <2>. QED  BY <2>4, <2>5, LinkStays
  <1>2. ASSUME NEW s \in Sources, NEW k \in Kinds, Choose(v, s, k)
        PROVE  Linked(r.parent, c, r.src, r.strategy)'
    BY <1>2, ChooseLinked
  <1>3. ~Start(v)
    BY StartEffect
  <1>4. ~Prepare(v)
    BY PrepareEffect
  <1>5. ~Copy(v)
    BY CopyEffect
  <1>6. \A f \in Files : ~Examine(v, f)
    BY ExamineEffect
  <1>. QED  BY <1>1, <1>2, <1>3, <1>4, <1>5, <1>6, JobStep

\* LinkInv is inductive.
LEMMA LinkStep ==
    ASSUME VaultInv, VaultInv', Kept, LinkInv, [Next]_vars
    PROVE  LinkInv'
  <1>. TypeOK /\ TypeOK'
    BY DEF VaultInv
  <1>1. ASSUME NEW x \in Ids, Listed(x)' PROVE LinkedRecord(meta[x])'
    <2>1. PICK r \in Snapshot : r = meta'[x]
      BY <1>1 DEF Listed
    <2>2. LinkedRecord(r)
      BY <1>1, <2>1, ListedStep DEF LinkInv, Same
    <2>. QED  BY <2>1, <2>2, RecordStays DEF LinkedRecord, Linked, Listed, Done, Owners
  <1>2. ASSUME NEW v \in Workers, job'[v].snap # None PROVE LinkedRecord(job[v].snap)'
    <2>1. PICK r : r = job'[v].snap
      OBVIOUS
    <2>2. LinkedRecord(r)'
      BY <1>2, <2>1, JobLinked
    <2>. QED  BY <2>1, <2>2 DEF LinkedRecord, Linked, Listed, Done, Owners
  <1>3. ASSUME NEW v \in Workers, job'[v].pc = "new"
        PROVE  Linked(job[v].plan.parent, births + 1, job[v].plan.src, job[v].plan.strategy)'
    <2>1. PICK r : r = job'[v].plan
      OBVIOUS
    <2>2. births' \in Int
      BY DEF Kept, Grown
    <2>3. PICK c \in Int : births' = c - 1
      <3>1. PICK n \in Int : n = births'
        BY <2>2
      <3>2. n + 1 \in Int /\ n = (n + 1) - 1
        OBVIOUS
      <3>. QED  BY <3>1, <3>2
    <2>4. Linked(r.parent, c, r.src, r.strategy)'
      BY <1>3, <2>1, <2>3, PlanLinked
    <2>5. Linked(r.parent, births + 1, r.src, r.strategy)'
      BY <2>2, <2>3, <2>4 DEF Linked, Listed, Done, Owners
    <2>. QED  BY <2>1, <2>5, Zenon DEF Linked, Listed, Done, Owners
  <1>. QED  BY <1>1, <1>2, <1>3 DEF LinkInv, Listed

-----------------------------------------------------------------------------
(* Chains.                                                                 *)

\* The snapshots no job works on hold the parents of the listed ones among them.
LEMMA DoneUp ==
    ASSUME VaultInv, LinkInv, NEW y, ListedIn(meta, y), meta[y].parent # None
    PROVE  Done(meta[y].parent) /\ meta[y].parent \in Ids
  <1>1. Listed(y) /\ y \in Ids /\ meta[y] \in Snapshot
    BY DEF ListedIn, Listed
  <1>2. Done(meta[y].parent)
    BY <1>1 DEF LinkInv, LinkedRecord, Linked
  <1>3. meta[y].parent \in Ids
    BY <1>1 DEF Snapshot
  <1>. QED  BY <1>2, <1>3

\* A chain that is intact after a step was intact before it, and its snapshots are the
\* same.
LEMMA ChainStays ==
    ASSUME VaultInv, VaultInv', Kept, LinkInv, LinkInv', NEW p \in Ids \cup {None},
           p # None => Done(p), ChainIntact(p)'
    PROVE  /\ ChainIntact(p) /\ Lineage(p)' = Lineage(p)
           /\ \A y \in Lineage(p) : y \in Ids /\ Done(y) /\ Listed(y) /\ Listed(y)' /\ Same(y)
  <1>. TypeOK /\ TypeOK'
    BY DEF VaultInv
  <1> DEFINE D == {y \in Ids : Done(y)}
             m == meta
             n == meta'
  <1>1. DownIn(m) /\ DownIn(n)
    <2>1. ASSUME NEW x \in Ids, Listed(x)', NEW q, q = meta'[x].parent, Listed(q)'
          PROVE  meta'[q].born < meta'[x].born
      BY <2>1 DEF LinkInv, LinkedRecord, Linked, Listed
    <2>2. \A x : Listed(x)' = ListedIn(meta', x)
      BY LineageNext
    <2>3. DownIn(meta')
      BY <2>1, <2>2 DEF DownIn
    <2>. QED  BY <2>3, BornDown
  <1>2. p # None => p \in D
    OBVIOUS
  <1>3. \A y \in D : ListedIn(n, y) => ListedIn(m, y) /\ n[y] = m[y]
    BY LineageNow, LineageNext DEF Kept, DoneKept, Same
  <1>4. \A y \in D : ListedIn(m, y) /\ m[y].parent # None => m[y].parent \in D
    BY DoneUp
  <1>5. \A y \in LineageIn(n, p) : ListedIn(n, y)
    BY LineageNext DEF ChainIntact
  <1>. HIDE DEF D, m, n
  <1>6. /\ LineageIn(n, p) = LineageIn(m, p)
        /\ LineageIn(n, p) \subseteq D
        /\ \A y \in LineageIn(n, p) : ListedIn(m, y) /\ n[y] = m[y]
    BY <1>1, <1>2, <1>3, <1>4, <1>5, LineageKept
  <1>7. Lineage(p)' = LineageIn(n, p) /\ Lineage(p) = LineageIn(m, p)
    BY LineageNow, LineageNext DEF m, n
  <1>8. ChainIntact(p)
    BY <1>6, <1>7, LineageNow DEF ChainIntact, m
  <1>9. ASSUME NEW y \in Lineage(p)
        PROVE  y \in Ids /\ Done(y) /\ Listed(y) /\ Listed(y)' /\ Same(y)
    <2>1. y \in Ids /\ Done(y)
      BY <1>6, <1>7 DEF D
    <2>2. Listed(y)'
      BY <1>5, <1>6, <1>7, LineageNext DEF n
    <2>. QED  BY <2>1, <2>2 DEF Kept, DoneKept
  <1>. QED  BY <1>6, <1>7, <1>8, <1>9

\* The chain of a listed snapshot is the snapshot and the chain of its parent.
LEMMA ChainUnfold ==
    ASSUME VaultInv, LinkInv, NEW p, Listed(p)
    PROVE  /\ Lineage(p) = {p} \cup Lineage(meta[p].parent)
           /\ meta[p].parent \in Ids \cup {None}
           /\ meta[p].parent # None => Done(meta[p].parent)
  <1>1. DownIn(meta) /\ ListedIn(meta, p) /\ p \in Ids /\ meta[p] \in Snapshot
    BY BornDown, LineageNow DEF VaultInv, Listed
  <1>2. Lineage(p) = {p} \cup Lineage(meta[p].parent)
    BY <1>1, LineageUnfold, LineageNow
  <1>3. meta[p].parent \in Ids \cup {None}
    BY <1>1 DEF Snapshot
  <1>. QED  BY <1>1, <1>2, <1>3, DoneUp

\* No parent, no chain.
LEMMA NoChain == Lineage(None) = {}
  BY LineageStart, LineageNow

\* The parent of a backup is an id that is done, or None.
LEMMA JobParent ==
    ASSUME VaultInv, LinkInv, NEW v \in Workers, job[v].snap # None
    PROVE  /\ job[v].snap \in Snapshot /\ job[v].snap.parent \in Ids \cup {None}
           /\ job[v].snap.parent # None => Done(job[v].snap.parent)
  <1>1. job[v].snap \in Snapshot
    BY JobFields DEF VaultInv, Shaped
  <1>. QED  BY <1>1 DEF LinkInv, LinkedRecord, Linked, Snapshot

\* The chain loaded by a backup is the whole chain of its parent.
LEMMA PrepareChain ==
    ASSUME VaultInv, LinkInv, ChainInv, NEW w \in Workers, Prepare(w),
           NEW p, p = job[w].snap.parent, ChainIntact(p)
    PROVE  job'[w].chain = {meta[y] : y \in Lineage(p)}
  <1>. TypeOK
    BY DEF VaultInv
  <1> DEFINE c == job[w]
             older == UNION {Lineage(s.parent) : s \in c.chain}
             load == IF c.snap.strategy = "incremental" THEN older ELSE {}
  <1>1. c.pc = "prepare" /\ c.snap \in Snapshot
    BY PrepareEffect, Zenon
  <1>2. job'[w].chain = c.chain \cup {meta[x] : x \in load}
    BY PrepareEffect, Zenon
  <1>3. c.snap # None /\ p \in Ids \cup {None} /\ FirstOf(p, c.chain)
    BY <1>1, SentinelAssumption, JobParent DEF ChainInv
  <1>4. Linked(p, c.snap.born, c.snap.src, c.snap.strategy)
    BY <1>1, <1>3 DEF LinkInv, LinkedRecord
  <1>. HIDE DEF c
  <1>5. CASE p = None
    <2>1. c.chain = {}
      BY <1>3, <1>5 DEF FirstOf
    <2>2. load = {}
      BY <2>1
    <2>. QED  BY <1>2, <1>5, <2>1, <2>2, NoChain
  <1>6. CASE p # None
    <2>1. Listed(p)
      BY <1>6, LineageStart, LineageNow DEF ChainIntact
    <2>2. c.chain = {meta[p]}
      BY <1>3, <2>1 DEF FirstOf
    <2>3. older = Lineage(meta[p].parent)
      BY <2>2
    <2>4. Lineage(p) = {p} \cup Lineage(meta[p].parent)
      BY <2>1, ChainUnfold
    <2>5. load = Lineage(meta[p].parent)
      <3>1. CASE c.snap.strategy = "incremental"
        BY <3>1, <2>3
      <3>2. CASE c.snap.strategy = "differential"
        <4>1. meta[p].strategy = "full" /\ LinkedRecord(meta[p])
          BY <1>4, <2>1, <3>2 DEF Linked, LinkInv, Listed
        <4>2. meta[p].parent = None
          BY <4>1 DEF LinkedRecord, Linked
        <4>. QED  BY <3>2, <4>2, NoChain
      <3>3. c.snap.strategy # "full"
        BY <1>4, <1>6 DEF Linked
      <3>. QED  BY <1>1, <3>1, <3>2, <3>3 DEF Snapshot, Strategies
    <2>. HIDE DEF load
    <2>. QED  BY <1>2, <2>2, <2>4, <2>5
  <1>. QED  BY <1>5, <1>6

\* What a backup starts comparing with stays what its parent is.
LEMMA FirstStays ==
    ASSUME Kept, NEW p \in Ids \cup {None}, p # None => Done(p), NEW chain, FirstOf(p, chain)
    PROVE  FirstOf(p, chain)'
  <1>1. ASSUME Listed(p)' PROVE Listed(p) /\ meta'[p] = meta[p]
    <2>1. p \in Ids /\ p # None
      BY <1>1, SentinelAssumption DEF Listed
    <2>. QED  BY <1>1, <2>1 DEF Kept, DoneKept, Same
  <1>. QED  BY <1>1 DEF FirstOf

\* A plan knows its reference snapshot.
LEMMA PlanFirst ==
    ASSUME VaultInv, VaultInv', Kept, LinkInv, ChainInv, [Next]_vars, NEW v \in Workers,
           job'[v].pc = "new", NEW p, p = job'[v].plan.parent, NEW chain, chain = job'[v].chain
    PROVE  FirstOf(p, chain)'
  <1>. TypeOK /\ TypeOK'
    BY DEF VaultInv
  <1>1. CASE Carried(v)
    <2>1. /\ job[v].pc = "new" /\ p = job[v].plan.parent /\ chain = job[v].chain
          /\ job[v].plan \in Plan
      BY <1>1, JobFields DEF Carried
    <2>2. p \in Ids \cup {None} /\ (p # None => Done(p)) /\ FirstOf(p, chain)
      BY <2>1 DEF LinkInv, Linked, Plan, ChainInv
    <2>. QED  BY <2>2, FirstStays
  <1>2. ASSUME NEW s \in Sources, NEW k \in Kinds, Choose(v, s, k) PROVE FirstOf(p, chain)'
    <2>1. PICK q \in Ids \cup {None} :
              /\ job'[v].plan.parent = q
              /\ q = None => job'[v].chain = {}
              /\ q # None => job'[v].chain = {meta[q]}
              /\ q # None => Listed(q)
      BY <1>2, ChooseEffect
    <2>2. p = q /\ (p # None => Done(p)) /\ ~Listed(None)
      BY <2>1, ListedDone, SentinelAssumption DEF Listed
    <2>3. FirstOf(p, chain)
      BY <2>1, <2>2 DEF FirstOf
    <2>. QED  BY <2>2, <2>3, FirstStays
  <1>3. ~Start(v)
    BY StartEffect
  <1>4. ~Prepare(v)
    BY PrepareEffect
  <1>5. ~Copy(v)
    BY CopyEffect
  <1>6. \A f \in Files : ~Examine(v, f)
    BY ExamineEffect
  <1>. QED  BY <1>1, <1>2, <1>3, <1>4, <1>5, <1>6, JobStep

\* A backup that starts knows its reference snapshot.
LEMMA PrepareFirst ==
    ASSUME VaultInv, VaultInv', Kept, LinkInv, ChainInv, [Next]_vars, NEW v \in Workers,
           job'[v].pc = "prepare", NEW p, p = job'[v].snap.parent, NEW chain, chain = job'[v].chain
    PROVE  FirstOf(p, chain)'
  <1>. TypeOK /\ TypeOK'
    BY DEF VaultInv
  <1>1. CASE Carried(v)
    <2>1. /\ job[v].pc = "prepare" /\ p = job[v].snap.parent /\ chain = job[v].chain
          /\ job[v].snap # None
      BY <1>1, JobFields, SentinelAssumption DEF Carried
    <2>2. p \in Ids \cup {None} /\ (p # None => Done(p)) /\ FirstOf(p, chain)
      BY <2>1, JobParent DEF ChainInv
    <2>. QED  BY <2>2, FirstStays
  <1>2. CASE Start(v)
    <2> DEFINE plan == job[v].plan
               snap == [born |-> births + 1, src |-> plan.src, strategy |-> plan.strategy,
                        parent |-> plan.parent, entries |-> NoEntries]
    <2>1. job'[v].snap = snap /\ job'[v].chain = job[v].chain /\ plan \in Plan
      BY <1>2, StartEffect, Zenon
    <2>2. snap.parent = plan.parent
      OBVIOUS
    <2>. HIDE DEF snap
    <2>3. job[v].pc = "new" /\ p = plan.parent /\ chain = job[v].chain
      BY <1>2, <2>1, <2>2 DEF Start
    <2>4. p \in Ids \cup {None} /\ (p # None => Done(p)) /\ FirstOf(p, chain)
      BY <2>1, <2>3 DEF LinkInv, Linked, Plan, ChainInv
    <2>. QED  BY <2>4, FirstStays
  <1>3. \A s \in Sources, k \in Kinds : ~Choose(v, s, k)
    BY ChooseEffect
  <1>4. ~Prepare(v)
    BY PrepareEffect
  <1>5. ~Copy(v)
    BY CopyEffect
  <1>6. \A f \in Files : ~Examine(v, f)
    BY ExamineEffect
  <1>. QED  BY <1>1, <1>2, <1>3, <1>4, <1>5, <1>6, JobStep

\* The parent of a snapshot stays when a file is copied.
LEMMA CopyParent ==
    ASSUME TypeOK, NEW w \in Workers, Copy(w)
    PROVE  /\ job'[w].snap.parent = job[w].snap.parent /\ job'[w].snap.src = job[w].snap.src
           /\ job'[w].snap.strategy = job[w].snap.strategy
  <1> DEFINE e == [mtime |-> job[w].stat.mtime, size |-> job[w].stat.size,
                   checksum |-> job[w].checksum]
  <1>1. job[w].snap \in Snapshot
    BY CopyEffect
  <1>2. job'[w].snap = [job[w].snap EXCEPT !.entries[job[w].file] = e]
    BY CopyEffect, Zenon
  <1>. HIDE DEF e
  <1>. QED  BY <1>1, <1>2 DEF Snapshot

\* A backup compares with the whole chain of its parent, as long as it is there.
LEMMA CompareChain ==
    ASSUME VaultInv, VaultInv', Kept, LinkInv, LinkInv', ChainInv, [Next]_vars,
           NEW v \in Workers, Comparing(job'[v]), NEW p, p = job'[v].snap.parent,
           ChainIntact(p)'
    PROVE  job'[v].chain = {meta'[y] : y \in Lineage(p)'}
  <1>. TypeOK /\ TypeOK'
    BY DEF VaultInv
  <1>1. ASSUME Comparing(job[v]), job'[v].chain = job[v].chain, p = job[v].snap.parent
        PROVE  job'[v].chain = {meta'[y] : y \in Lineage(p)'}
    <2>1. job[v].snap # None
      BY <1>1, JobFields, SentinelAssumption DEF Comparing
    <2>2. p \in Ids \cup {None} /\ (p # None => Done(p))
      BY <1>1, <2>1, JobParent
    <2>3. /\ ChainIntact(p) /\ Lineage(p)' = Lineage(p)
          /\ \A y \in Lineage(p) : meta'[y] = meta[y]
      BY <2>2, ChainStays DEF Same
    <2>4. job[v].chain = {meta[y] : y \in Lineage(p)}
      BY <1>1, <2>3 DEF ChainInv
    <2>. QED  BY <1>1, <2>3, <2>4
  <1>2. CASE Carried(v)
    BY <1>1, <1>2 DEF Carried
  <1>3. CASE Copy(v)
    <2>1. job'[v].chain = job[v].chain /\ job[v].pc = "copy"
      BY <1>3, CopyEffect
    <2>. QED  BY <1>1, <1>3, <2>1, CopyParent DEF Comparing
  <1>4. ASSUME NEW f \in Files, Examine(v, f)
        PROVE  job'[v].chain = {meta'[y] : y \in Lineage(p)'}
    <2>1. job'[v].chain = job[v].chain /\ job[v].pc = "scan" /\ job'[v].snap = job[v].snap
      BY <1>4, ExamineEffect
    <2>. QED  BY <1>1, <2>1 DEF Comparing
  <1>5. CASE Prepare(v)
    <2>1. job'[v].snap = job[v].snap /\ meta' = meta
      BY <1>5, PrepareEffect
    <2>2. Lineage(p)' = Lineage(p) /\ ChainIntact(p)
      BY <2>1, LineageNow, LineageNext DEF ChainIntact
    <2>. QED  BY <1>5, <2>1, <2>2, PrepareChain
  <1>6. ~Start(v)
    BY StartEffect DEF Comparing
  <1>7. \A s \in Sources, k \in Kinds : ~Choose(v, s, k)
    BY ChooseEffect DEF Comparing
  <1>. QED  BY <1>2, <1>3, <1>4, <1>5, <1>6, <1>7, JobStep DEF Comparing

\* ChainInv is inductive.
LEMMA ChainStep ==
    ASSUME VaultInv, VaultInv', Kept, LinkInv, LinkInv', ChainInv, [Next]_vars
    PROVE  ChainInv'
  <1>. TypeOK
    BY DEF VaultInv
  <1>. SUFFICES ASSUME NEW v \in Workers
                PROVE  /\ job'[v].pc = "new" => FirstOf(job[v].plan.parent, job[v].chain)'
                       /\ job'[v].pc = "prepare" => FirstOf(job[v].snap.parent, job[v].chain)'
                       /\ Comparing(job[v])' /\ ChainIntact(job[v].snap.parent)' =>
                              job'[v].chain = {meta[y] : y \in Lineage(job[v].snap.parent)}'
                       /\ job'[v].pc = "publish" => job'[v].todo = {}
    BY DEF ChainInv
  <1>1. ASSUME job'[v].pc = "new" PROVE FirstOf(job[v].plan.parent, job[v].chain)'
    <2>1. PICK p, chain : p = job'[v].plan.parent /\ chain = job'[v].chain
      OBVIOUS
    <2>2. FirstOf(p, chain)'
      BY <1>1, <2>1, PlanFirst
    <2>. QED  BY <2>1, <2>2 DEF FirstOf, Listed
  <1>2. ASSUME job'[v].pc = "prepare" PROVE FirstOf(job[v].snap.parent, job[v].chain)'
    <2>1. PICK p, chain : p = job'[v].snap.parent /\ chain = job'[v].chain
      OBVIOUS
    <2>2. FirstOf(p, chain)'
      BY <1>2, <2>1, PrepareFirst
    <2>. QED  BY <2>1, <2>2 DEF FirstOf, Listed
  <1>3. ASSUME Comparing(job[v])', ChainIntact(job[v].snap.parent)'
        PROVE  job'[v].chain = {meta[y] : y \in Lineage(job[v].snap.parent)}'
    <2>1. PICK p : p = job'[v].snap.parent
      OBVIOUS
    <2>2. Lineage(job[v].snap.parent)' = LineageIn(meta', p) /\ Lineage(p)' = LineageIn(meta', p)
      BY <2>1, LineageNext
    <2>3. ChainIntact(p)'
      BY <1>3, <2>1, <2>2 DEF ChainIntact
    <2>4. Comparing(job'[v])
      BY <1>3 DEF Comparing
    <2>5. job'[v].chain = {meta'[y] : y \in Lineage(p)'}
      BY <2>1, <2>3, <2>4, CompareChain
    <2>. QED  BY <2>2, <2>5
  <1>4. ASSUME job'[v].pc = "publish" PROVE job'[v].todo = {}
    <2>1. CASE Carried(v)
      BY <1>4, <2>1 DEF Carried, ChainInv
    <2>2. ~Start(v)
      BY <1>4, StartEffect
    <2>3. ~Prepare(v)
      BY <1>4, PrepareEffect
    <2>4. ~Copy(v)
      BY <1>4, CopyEffect
    <2>5. \A f \in Files : ~Examine(v, f)
      BY <1>4, ExamineEffect
    <2>6. \A s \in Sources, k \in Kinds : ~Choose(v, s, k)
      BY <1>4, ChooseEffect
    <2>. QED  BY <1>4, <2>1, <2>2, <2>3, <2>4, <2>5, <2>6, JobStep
  <1>. QED  BY <1>1, <1>2, <1>3, <1>4

-----------------------------------------------------------------------------
(* The age of copies.                                                      *)

\* No job changes the source trees.
LEMMA WorldStill ==
    ASSUME NEW w \in Workers, Backup(w) \/ Delete(w) \/ Abort(w)
    PROVE  UNCHANGED <<clock, tree, versions>>
  <1>1. CASE \E s \in Sources, k \in Kinds : Choose(w, s, k)
    BY <1>1 DEF Choose
  <1>2. CASE Start(w)
    BY <1>2 DEF Start
  <1>3. CASE Prepare(w)
    BY <1>3 DEF Prepare
  <1>4. CASE \E f \in Files : Examine(w, f)
    BY <1>4 DEF Examine
  <1>5. CASE Hash(w)
    BY <1>5 DEF Hash
  <1>6. CASE Copy(w)
    BY <1>6 DEF Copy
  <1>7. CASE OpenMeta(w) \/ WriteMeta(w) \/ Abort(w)
    BY <1>7 DEF OpenMeta, WriteMeta, Abort
  <1>8. CASE Delete(w)
    BY <1>8 DEF Delete, DeleteMeta, DeleteData
  <1>. QED  BY <1>1, <1>2, <1>3, <1>4, <1>5, <1>6, <1>7, <1>8 DEF Backup

\* What the users do to the trees: a file gets the version v, which is new now or, with
\* tools that preserve times, was one before.
LEMMA UserEffect ==
    ASSUME TypeOK, NEW s \in Sources, NEW f \in Files, User(s, f)
    PROVE  \E v \in Version \cup {None} :
              /\ tree'[s][f] = v /\ clock' = clock
              /\ \A t \in Sources, g \in Files : t # s \/ g # f => tree'[t][g] = tree[t][g]
              /\ v = None => versions' = versions
              /\ v # None => versions' = versions \cup {<<s, f, v>>}
              /\ v # None /\ ~PreservingTools => v.mtime = clock
              /\ v # None /\ v.mtime # clock => <<s, f, v>> \in versions
  <1>1. PICK v : /\ Touch(s, f, v)
                 /\ \/ v = None
                    \/ \E c \in Contents : v = [mtime |-> clock, content |-> c]
                    \/ PreservingTools /\ v \in Version /\ <<s, f, v>> \in versions
    BY DEF User, Edit, Unlink, PutBack
  <1>2. /\ tree'[s][f] = v
        /\ \A t \in Sources, g \in Files : t # s \/ g # f => tree'[t][g] = tree[t][g]
    BY <1>1, TouchEffect
  <1>3. clock' = clock /\ versions' = versions \cup (IF v = None THEN {} ELSE {<<s, f, v>>})
    BY <1>1 DEF Touch
  <1>4. v = None => versions' = versions
    BY <1>3
  <1>5. v # None => versions' = versions \cup {<<s, f, v>>}
    BY <1>3
  <1>6. ASSUME NEW c \in Contents, v = [mtime |-> clock, content |-> c]
        PROVE  v \in Version /\ v.mtime = clock
    BY <1>6 DEF TypeOK, Version
  <1>7. /\ v \in Version \cup {None}
        /\ v # None /\ ~PreservingTools => v.mtime = clock
        /\ v # None /\ v.mtime # clock => <<s, f, v>> \in versions
    BY <1>1, <1>6
  <1>. QED  BY <1>2, <1>3, <1>4, <1>5, <1>7

\* The trees hold versions that existed, and no version is newer than the clock.
LEMMA WorldStep ==
    ASSUME TypeOK, TypeOK', WorldInv, [Next]_vars
    PROVE  WorldInv'
  <1>1. ASSUME UNCHANGED <<clock, tree, versions>> PROVE WorldInv'
    BY <1>1 DEF WorldInv
  <1>2. ASSUME NEW s \in Sources, NEW f \in Files, User(s, f) PROVE WorldInv'
    <2>1. PICK v \in Version \cup {None} :
              /\ tree'[s][f] = v /\ clock' = clock
              /\ \A t \in Sources, g \in Files : t # s \/ g # f => tree'[t][g] = tree[t][g]
              /\ v = None => versions' = versions
              /\ v # None => versions' = versions \cup {<<s, f, v>>}
              /\ v # None /\ ~PreservingTools => v.mtime = clock
              /\ v # None /\ v.mtime # clock => <<s, f, v>> \in versions
      BY <1>2, UserEffect, Zenon
    <2>2. ASSUME NEW t \in Sources, NEW g \in Files, tree'[t][g] # None
          PROVE  <<t, g, tree'[t][g]>> \in versions'
      BY <2>1, <2>2 DEF WorldInv
    <2>3. ASSUME NEW t \in versions' PROVE t[3].mtime <= clock'
      <3>1. CASE t \in versions
        BY <2>1, <3>1 DEF WorldInv
      <3>2. CASE t = <<s, f, v>> /\ v.mtime = clock
        BY <2>1, <3>2, BoundsAssumption DEF TypeOK, Times
      <3>. QED  BY <2>1, <2>3, <3>1, <3>2
    <2>. QED  BY <2>2, <2>3 DEF WorldInv
  <1>3. CASE Tick
    <2>1. clock' = clock + 1 /\ UNCHANGED <<tree, versions>>
      BY <1>3 DEF Tick
    <2>2. ASSUME NEW t \in versions PROVE t[3].mtime <= clock + 1
      <3>1. t[3].mtime \in Int /\ t[3].mtime <= clock /\ clock \in Int
        BY BoundsAssumption DEF TypeOK, Version, WorldInv, Times
      <3>. QED  BY <3>1
    <2>. QED  BY <2>1, <2>2 DEF WorldInv
  <1>4. CASE UNCHANGED vars
    BY <1>1, <1>4 DEF vars
  <1>. QED  BY <1>1, <1>2, <1>3, <1>4, WorldStill DEF Next

\* A moment of the past stays one when nobody puts old versions back.
LEMMA PastStays ==
    ASSUME ~PreservingTools, TypeOK, TypeOK', [Next]_vars, NEW s \in Sources, NEW f \in Files,
           NEW m \in Int, Past(s, f, m)
    PROVE  Past(s, f, m)'
  <1>0. clock \in Int /\ m <= clock
    BY BoundsAssumption DEF TypeOK, Times, Past
  <1>1. ASSUME UNCHANGED <<clock, tree, versions>> PROVE Past(s, f, m)'
    BY <1>1 DEF Past
  <1>2. ASSUME NEW t \in Sources, NEW g \in Files, User(t, g) PROVE Past(s, f, m)'
    <2>1. PICK v \in Version \cup {None} :
              /\ tree'[t][g] = v /\ clock' = clock
              /\ \A u \in Sources, h \in Files : u # t \/ h # g => tree'[u][h] = tree[u][h]
              /\ v = None \/ v.mtime = clock
      BY <1>2, UserEffect
    <2>. QED  BY <1>0, <2>1 DEF Past
  <1>3. CASE Tick
    <2>1. clock' = clock + 1 /\ tree' = tree
      BY <1>3 DEF Tick
    <2>2. m <= clock + 1
      BY <1>0
    <2>. QED  BY <2>1, <2>2 DEF Past
  <1>4. CASE UNCHANGED vars
    BY <1>1, <1>4 DEF vars
  <1>. QED  BY <1>1, <1>2, <1>3, <1>4, WorldStill DEF Next

\* So does the age of a copy.
LEMMA CopiedStays ==
    ASSUME ~PreservingTools, TypeOK, TypeOK', [Next]_vars, Kept, NEW s \in Sources,
           NEW f \in Files, NEW m \in Int, NEW content, CopiedAfter(s, f, m, content)
    PROVE  CopiedAfter(s, f, m, content)'
  <1>1. PICK v \in Version : /\ <<s, f, v>> \in versions /\ v.content = content
                             /\ m <= v.mtime /\ Past(s, f, v.mtime)
    BY DEF CopiedAfter
  <1>2. PICK n \in Int : n = v.mtime
    BY BoundsAssumption DEF Version, Times
  <1>3. Past(s, f, n)'
    BY <1>1, <1>2, PastStays
  <1>4. <<s, f, v>> \in versions'
    BY <1>1 DEF Kept, Grown
  <1>. QED  BY <1>1, <1>2, <1>3, <1>4 DEF CopiedAfter

\* The snapshot of a job stays, starts or gets the entry of a file.
LEMMA SnapStep ==
    ASSUME VaultInv, [Next]_vars, NEW v \in Workers, job'[v].snap # None
    PROVE  \/ /\ job[v].snap # None /\ job'[v].snap = job[v].snap /\ job'[v].id = job[v].id
              /\ data'[job[v].id] = data[job[v].id]
           \/ Start(v)
           \/ Copy(v)
  <1>. TypeOK
    BY DEF VaultInv
  <1>1. CASE Carried(v)
    BY <1>1 DEF Carried
  <1>2. CASE Quiet(v)
    BY <1>2, QuietEffect DEF Idle
  <1>. QED  BY <1>1, <1>2, JobStep DEF Quiet

\* A file being read is the one that was, or the next one found changed.
LEMMA HashStep ==
    ASSUME VaultInv, [Next]_vars, NEW v \in Workers, job'[v].pc \in {"hash", "copy"}
    PROVE  \/ /\ job[v].pc \in {"hash", "copy"} /\ job'[v].snap = job[v].snap
              /\ job'[v].file = job[v].file /\ job'[v].stat = job[v].stat
           \/ \E f \in Files :
                 /\ Examine(v, f) /\ job'[v].file = f /\ job'[v].snap = job[v].snap
                 /\ job[v].snap # None
                 /\ tree[job[v].snap.src][f] # None
                 /\ job'[v].stat.mtime = tree[job[v].snap.src][f].mtime
  <1>. TypeOK
    BY DEF VaultInv
  <1>1. CASE Carried(v)
    BY <1>1 DEF Carried
  <1>2. ASSUME NEW f \in Files, Examine(v, f)
        PROVE  /\ job'[v].file = f /\ job'[v].snap = job[v].snap /\ job[v].snap # None
               /\ tree[job[v].snap.src][f] # None
               /\ job'[v].stat.mtime = tree[job[v].snap.src][f].mtime
    <2> DEFINE u == tree[job[v].snap.src][f]
               st == [mtime |-> u.mtime, size |-> SizeOf[u.content]]
    <2>1. job[v].pc = "scan" /\ u # None /\ job'[v].snap = job[v].snap /\ job[v].snap \in Snapshot
      BY <1>2, ExamineEffect
    <2>2. job'[v].file = f /\ job'[v].stat = st
      BY <1>2, ExamineEffect
    <2>3. st.mtime = u.mtime
      OBVIOUS
    <2>. HIDE DEF st, u
    <2>. QED  BY <2>1, <2>2, <2>3, SentinelAssumption DEF u
  <1>3. ~Start(v)
    BY StartEffect
  <1>4. ~Prepare(v)
    BY PrepareEffect
  <1>5. ~Copy(v)
    BY CopyEffect
  <1>6. \A s \in Sources, k \in Kinds : ~Choose(v, s, k)
    BY ChooseEffect
  <1>. QED  BY <1>1, <1>2, <1>3, <1>4, <1>5, <1>6, JobStep

\* A file that is copied is one of its versions, not older than when it was examined.
LEMMA CopyAged ==
    ASSUME VaultInv, WorldInv, AgeInv, NEW w \in Workers, Copy(w), NEW s, s = job[w].snap.src,
           NEW f, f = job[w].file
    PROVE  /\ s \in Sources /\ f \in Files
           /\ CopiedAfter(s, f, job[w].stat.mtime, tree[s][f].content)
  <1>. TypeOK
    BY DEF VaultInv
  <1>1. /\ job[w].snap \in Snapshot /\ f \in Files /\ job[w].pc = "copy"
        /\ tree[s][f] # None /\ tree[s][f] \in Version
    BY CopyEffect
  <1>2. s \in Sources
    BY <1>1 DEF Snapshot
  <1>3. Past(s, f, job[w].stat.mtime)
    BY <1>1 DEF AgeInv
  <1>4. <<s, f, tree[s][f]>> \in versions
    BY <1>1, <1>2 DEF WorldInv
  <1>5. tree[s][f].mtime <= clock
    <2>1. <<s, f, tree[s][f]>>[3] = tree[s][f]
      OBVIOUS
    <2>. QED  BY <1>4, <2>1 DEF WorldInv
  <1>6. job[w].stat.mtime <= tree[s][f].mtime
    BY <1>1, <1>3 DEF Past
  <1>7. tree[s][f].mtime <= tree[s][f].mtime
    BY <1>1, BoundsAssumption DEF Version, Times
  <1>8. Past(s, f, tree[s][f].mtime)
    BY <1>5, <1>7 DEF Past
  <1>. QED  BY <1>1, <1>2, <1>4, <1>6, <1>8 DEF CopiedAfter

\* The times of entries and of examined files are integers.
LEMMA TimeTypes ==
    /\ \A r \in Snapshot : r.src \in Sources
    /\ \A r \in Snapshot : \A f \in Files : r.entries[f] # None => r.entries[f].mtime \in Int
    /\ \A st \in Stat : st.mtime \in Int
    /\ \A u \in Version : u.mtime \in Int
  BY BoundsAssumption DEF Snapshot, Entry, Stat, Version, Times

\* Entries are not newer than their data, and data not newer than the trees.
LEMMA AgeStep ==
    ASSUME ~PreservingTools, VaultInv, VaultInv', Kept, WorldInv, AgeInv, [Next]_vars
    PROVE  AgeInv'
  <1>. TypeOK /\ TypeOK'
    BY DEF VaultInv
  <1>1. ASSUME NEW x \in Ids, NEW f \in Files, Listed(x)', meta'[x].entries[f] # None
        PROVE  CopiedAfter(meta[x].src, f, meta[x].entries[f].mtime, data[x][f])'
    <2>1. PICK s, m, c : s = meta'[x].src /\ m = meta'[x].entries[f].mtime /\ c = data'[x][f]
      OBVIOUS
    <2>2. s \in Sources /\ m \in Int
      BY <1>1, <2>1, TimeTypes DEF Listed
    <2>3. CopiedAfter(s, f, m, c)
      BY <1>1, <2>1, ListedStep DEF AgeInv, Same
    <2>4. CopiedAfter(s, f, m, c)'
      BY <2>2, <2>3, CopiedStays
    <2>. QED  BY <2>1, <2>4 DEF CopiedAfter, Past
  <1>2. ASSUME NEW v \in Workers, NEW f \in Files, job'[v].snap # None,
               job'[v].snap.entries[f] # None
        PROVE  CopiedAfter(job[v].snap.src, f, job[v].snap.entries[f].mtime,
                           data[job[v].id][f])'
    <2>1. PICK s, m, c : /\ s = job'[v].snap.src /\ m = job'[v].snap.entries[f].mtime
                         /\ c = data'[job'[v].id][f]
      OBVIOUS
    <2>2. job'[v].snap \in Snapshot
      BY <1>2 DEF TypeOK, Job
    <2>3. s \in Sources /\ m \in Int
      BY <1>2, <2>1, <2>2, TimeTypes
    <2>4. ASSUME job[v].snap # None, job'[v].snap = job[v].snap, job'[v].id = job[v].id,
                 data'[job[v].id] = data[job[v].id]
          PROVE  CopiedAfter(s, f, m, c)
      BY <1>2, <2>1, <2>4 DEF AgeInv
    <2>5. ASSUME Copy(v) PROVE CopiedAfter(s, f, m, c)
      <3> DEFINE e == [mtime |-> job[v].stat.mtime, size |-> job[v].stat.size,
                       checksum |-> job[v].checksum]
                 g == job[v].file
      <3>1. /\ job'[v].snap.entries[g] = e
            /\ \A h \in Files \ {g} : job'[v].snap.entries[h] = job[v].snap.entries[h]
        BY <2>5, CopyEffect
      <3>2. /\ job[v].snap # None /\ job[v].id \in Ids /\ job'[v].id = job[v].id
            /\ data'[job[v].id][g] = tree[job[v].snap.src][g].content
            /\ \A h \in Files \ {g} : data'[job[v].id][h] = data[job[v].id][h]
        BY <2>5, CopyEffect
      <3>3. s = job[v].snap.src
        BY <2>1, <2>5, CopyParent
      <3>4. e.mtime = job[v].stat.mtime
        OBVIOUS
      <3>. HIDE DEF e, g
      <3>5. CASE f # g
        BY <1>2, <2>1, <3>1, <3>2, <3>3, <3>5 DEF AgeInv
      <3>6. CASE f = g
        <4>1. CopiedAfter(s, f, job[v].stat.mtime, tree[s][f].content)
          BY <2>5, <3>3, <3>6, CopyAged DEF g
        <4>2. m = job[v].stat.mtime /\ c = tree[s][f].content
          BY <2>1, <3>1, <3>2, <3>3, <3>4, <3>6
        <4>. QED  BY <4>1, <4>2
      <3>. QED  BY <3>5, <3>6
    <2>6. ~Start(v)
      <3>. SUFFICES ASSUME Start(v) PROVE FALSE
        OBVIOUS
      <3> DEFINE snap == [born |-> births + 1, src |-> job[v].plan.src,
                          strategy |-> job[v].plan.strategy,
                          parent |-> job[v].plan.parent, entries |-> NoEntries]
      <3>1. job'[v].snap = snap
        BY StartEffect, Zenon
      <3>2. snap.entries[f] = None
        BY DEF NoEntries
      <3>. HIDE DEF snap
      <3>. QED  BY <1>2, <3>1, <3>2
    <2>7. CopiedAfter(s, f, m, c)
      BY <1>2, <2>4, <2>5, <2>6, SnapStep
    <2>8. CopiedAfter(s, f, m, c)'
      BY <2>3, <2>7, CopiedStays
    <2>. QED  BY <2>1, <2>8 DEF CopiedAfter, Past
  <1>3. ASSUME NEW v \in Workers, job'[v].pc \in {"hash", "copy"}
        PROVE  Past(job[v].snap.src, job[v].file, job[v].stat.mtime)'
    <2>1. PICK s, f, m : /\ s = job'[v].snap.src /\ f = job'[v].file
                         /\ m = job'[v].stat.mtime
      OBVIOUS
    <2>2. job'[v].snap \in Snapshot /\ f \in Files /\ job'[v].stat \in Stat
      BY <1>3, <2>1 DEF TypeOK, Job, Shaped
    <2>3. s \in Sources /\ m \in Int
      BY <2>1, <2>2, TimeTypes
    <2>4. ASSUME job[v].pc \in {"hash", "copy"}, job'[v].snap = job[v].snap,
                 job'[v].file = job[v].file, job'[v].stat = job[v].stat
          PROVE  Past(s, f, m)
      BY <2>1, <2>4 DEF AgeInv
    <2>5. ASSUME job'[v].snap = job[v].snap, tree[job[v].snap.src][f] # None,
                 job'[v].stat.mtime = tree[job[v].snap.src][f].mtime
          PROVE  Past(s, f, m)
      <3>1. tree[s][f] # None /\ m = tree[s][f].mtime
        BY <2>1, <2>5
      <3>2. <<s, f, tree[s][f]>> \in versions
        BY <2>2, <2>3, <3>1 DEF WorldInv
      <3>3. <<s, f, tree[s][f]>>[3] = tree[s][f]
        OBVIOUS
      <3>4. m <= clock
        BY <3>1, <3>2, <3>3 DEF WorldInv
      <3>. QED  BY <2>3, <3>1, <3>4 DEF Past
    <2>6. Past(s, f, m)
      BY <1>3, <2>1, <2>4, <2>5, HashStep
    <2>7. Past(s, f, m)'
      BY <2>2, <2>3, <2>6, PastStays
    <2>. QED  BY <2>1, <2>7 DEF Past
  <1>. QED  BY <1>1, <1>2, <1>3 DEF AgeInv, Listed

-----------------------------------------------------------------------------
(* The order of copies along a chain.                                      *)

\* A chain is of one source.
LEMMA ChainSource ==
    ASSUME VaultInv, LinkInv, NEW p, NEW b, NEW s, NEW k, Linked(p, b, s, k), ChainIntact(p)
    PROVE  \A y \in Lineage(p) : meta[y].src = s
  <1> DEFINE T == {y \in Lineage(p) : meta[y].src = s}
  <1>1. DownIn(meta)
    BY BornDown DEF VaultInv
  <1>2. ASSUME p # None PROVE p \in T
    <2>1. p \in Lineage(p)
      BY <1>2, LineageStart, LineageNow
    <2>2. Listed(p)
      BY <2>1 DEF ChainIntact
    <2>. QED  BY <2>1, <2>2 DEF Linked
  <1>3. ASSUME NEW y \in T, ListedIn(meta, y), meta[y].parent # None
        PROVE  meta[y].parent \in T
    <2>1. meta[y].parent \in Lineage(p)
      BY <1>1, <1>3, LineageUp, LineageNow
    <2>2. Listed(meta[y].parent) /\ Listed(y) /\ y \in Ids
      BY <1>3, <2>1, LineageNow DEF ChainIntact, Listed
    <2>3. meta[meta[y].parent].src = meta[y].src
      BY <2>2 DEF LinkInv, LinkedRecord, Linked
    <2>. QED  BY <1>3, <2>1, <2>3
  <1>. HIDE DEF T
  <1>4. LineageIn(meta, p) \subseteq T
    BY <1>2, <1>3, LineageLeast
  <1>. QED  BY <1>4, LineageNow DEF T

\* The times of a chain's entries keep their bound.
LEMMA NoNewerStays ==
    ASSUME VaultInv, VaultInv', Kept, LinkInv, LinkInv', NEW p \in Ids \cup {None},
           p # None => Done(p), NEW f \in Files, NEW m, NoNewerIn(p, f, m)
    PROVE  NoNewerIn(p, f, m)'
  <1>. SUFFICES ASSUME ChainIntact(p)', NEW y \in Lineage(p)', meta'[y].entries[f] # None
                PROVE  meta'[y].entries[f].mtime <= m
    BY DEF NoNewerIn
  <1>1. ChainIntact(p) /\ y \in Lineage(p) /\ meta'[y] = meta[y]
    BY ChainStays DEF Same
  <1>. QED  BY <1>1 DEF NoNewerIn

\* A file examined now is not older than its copies in the chain of the parent.
LEMMA ExamineOrder ==
    ASSUME VaultInv, LinkInv, AgeInv, NEW w \in Workers, job[w].snap # None,
           NEW f \in Files, NEW s, NEW p, s = job[w].snap.src, p = job[w].snap.parent,
           tree[s][f] # None
    PROVE  NoNewerIn(p, f, tree[s][f].mtime)
  <1>. TypeOK
    BY DEF VaultInv
  <1>. SUFFICES ASSUME ChainIntact(p), NEW y \in Lineage(p), meta[y].entries[f] # None
                PROVE  meta[y].entries[f].mtime <= tree[s][f].mtime
    BY DEF NoNewerIn
  <1>1. Listed(y) /\ y \in Ids /\ meta[y] \in Snapshot
    BY DEF ChainIntact, Listed
  <1>2. Linked(p, job[w].snap.born, s, job[w].snap.strategy) /\ job[w].snap \in Snapshot
    BY JobParent DEF LinkInv, LinkedRecord
  <1>3. meta[y].src = s
    BY <1>2, ChainSource
  <1>4. PICK u \in Version : meta[y].entries[f].mtime <= u.mtime /\ Past(s, f, u.mtime)
    <2>1. CopiedAfter(meta[y].src, f, meta[y].entries[f].mtime, data[y][f])
      BY <1>1 DEF AgeInv
    <2>. QED  BY <1>3, <2>1, Zenon DEF CopiedAfter
  <1>5. u.mtime <= tree[s][f].mtime
    BY <1>4 DEF Past
  <1>6. s \in Sources
    BY <1>2, TimeTypes
  <1>7. tree[s][f] \in Version
    BY <1>6 DEF TypeOK
  <1>8. u.mtime \in Int /\ tree[s][f].mtime \in Int
    BY <1>7, TimeTypes
  <1>9. meta[y].entries[f].mtime \in Int
    BY <1>1, TimeTypes
  <1>. QED  BY <1>4, <1>5, <1>8, <1>9

\* The parent of a good record is an id that is done, or None.
LEMMA RecordParent ==
    ASSUME NEW r \in Snapshot, LinkedRecord(r)
    PROVE  r.parent \in Ids \cup {None} /\ (r.parent # None => Done(r.parent))
  BY DEF LinkedRecord, Linked, Snapshot

\* Entries get no older along a chain.
LEMMA OrderStep ==
    ASSUME VaultInv, VaultInv', Kept, LinkInv, LinkInv', AgeInv, OrderInv, [Next]_vars
    PROVE  OrderInv'
  <1>. TypeOK /\ TypeOK'
    BY DEF VaultInv
  <1>1. ASSUME NEW x \in Ids, NEW f \in Files, Listed(x)', meta'[x].entries[f] # None
        PROVE  NoNewerIn(meta[x].parent, f, meta[x].entries[f].mtime)'
    <2>1. PICK r \in Snapshot : r = meta'[x]
      BY <1>1 DEF Listed
    <2>2. LinkedRecord(r)
      BY <1>1, <2>1, ListedStep DEF LinkInv, Same
    <2>3. PICK p, m : p = r.parent /\ m = r.entries[f].mtime
      OBVIOUS
    <2>4. NoNewerIn(p, f, m)
      BY <1>1, <2>1, <2>3, ListedStep DEF OrderInv, Same
    <2>5. p \in Ids \cup {None} /\ (p # None => Done(p))
      BY <2>2, <2>3, RecordParent
    <2>6. NoNewerIn(p, f, m)'
      BY <2>4, <2>5, NoNewerStays
    <2>. QED  BY <2>1, <2>3, <2>6 DEF NoNewerIn, ChainIntact, Listed
  <1>2. ASSUME NEW v \in Workers, NEW f \in Files, job'[v].snap # None,
               job'[v].snap.entries[f] # None
        PROVE  NoNewerIn(job[v].snap.parent, f, job[v].snap.entries[f].mtime)'
    <2>1. PICK p, m : p = job'[v].snap.parent /\ m = job'[v].snap.entries[f].mtime
      OBVIOUS
    <2>2. ASSUME job[v].snap # None, job'[v].snap = job[v].snap
          PROVE  NoNewerIn(p, f, m) /\ p = job[v].snap.parent
      BY <1>2, <2>1, <2>2 DEF OrderInv
    <2>3. ASSUME Copy(v) PROVE NoNewerIn(p, f, m) /\ p = job[v].snap.parent
      <3> DEFINE e == [mtime |-> job[v].stat.mtime, size |-> job[v].stat.size,
                       checksum |-> job[v].checksum]
                 g == job[v].file
      <3>1. /\ job'[v].snap.entries[g] = e
            /\ \A h \in Files \ {g} : job'[v].snap.entries[h] = job[v].snap.entries[h]
        BY <2>3, CopyEffect
      <3>2. job[v].snap # None /\ job[v].pc = "copy"
        BY <2>3, CopyEffect
      <3>3. p = job[v].snap.parent
        BY <2>1, <2>3, CopyParent
      <3>4. e.mtime = job[v].stat.mtime
        OBVIOUS
      <3>. HIDE DEF e
      <3>5. CASE f # g
        BY <1>2, <2>1, <3>1, <3>2, <3>3, <3>5 DEF OrderInv
      <3>6. CASE f = g
        BY <2>1, <3>1, <3>2, <3>3, <3>4, <3>6 DEF OrderInv
      <3>. QED  BY <3>5, <3>6
    <2>4. ~Start(v)
      <3>. SUFFICES ASSUME Start(v) PROVE FALSE
        OBVIOUS
      <3> DEFINE snap == [born |-> births + 1, src |-> job[v].plan.src,
                          strategy |-> job[v].plan.strategy,
                          parent |-> job[v].plan.parent, entries |-> NoEntries]
      <3>1. job'[v].snap = snap
        BY StartEffect, Zenon
      <3>2. snap.entries[f] = None
        BY DEF NoEntries
      <3>. HIDE DEF snap
      <3>. QED  BY <1>2, <3>1, <3>2
    <2>5. NoNewerIn(p, f, m) /\ p = job[v].snap.parent
      BY <1>2, <2>2, <2>3, <2>4, SnapStep
    <2>6. job[v].snap # None
      BY <1>2, <2>4, SnapStep, CopyEffect
    <2>7. NoNewerIn(p, f, m)'
      BY <2>5, <2>6, JobParent, NoNewerStays
    <2>. QED  BY <2>1, <2>7 DEF NoNewerIn, ChainIntact, Listed
  <1>3. ASSUME NEW v \in Workers, job'[v].pc \in {"hash", "copy"}
        PROVE  NoNewerIn(job[v].snap.parent, job[v].file, job[v].stat.mtime)'
    <2>1. PICK p, f, m : /\ p = job'[v].snap.parent /\ f = job'[v].file
                         /\ m = job'[v].stat.mtime
      OBVIOUS
    <2>2. f \in Files
      BY <1>3, <2>1 DEF TypeOK, Job, Shaped
    <2>3. ASSUME job[v].pc \in {"hash", "copy"}, job'[v].snap = job[v].snap,
                 job'[v].file = job[v].file, job'[v].stat = job[v].stat
          PROVE  NoNewerIn(p, f, m) /\ p = job[v].snap.parent /\ job[v].snap # None
      BY <2>1, <2>3, JobFields, SentinelAssumption DEF OrderInv
    <2>4. ASSUME job'[v].snap = job[v].snap, job[v].snap # None,
                 tree[job[v].snap.src][f] # None,
                 job'[v].stat.mtime = tree[job[v].snap.src][f].mtime
          PROVE  NoNewerIn(p, f, m) /\ p = job[v].snap.parent /\ job[v].snap # None
      BY <2>1, <2>2, <2>4, ExamineOrder
    <2>5. NoNewerIn(p, f, m) /\ p = job[v].snap.parent /\ job[v].snap # None
      BY <1>3, <2>1, <2>3, <2>4, HashStep
    <2>6. NoNewerIn(p, f, m)'
      BY <2>2, <2>5, JobParent, NoNewerStays
    <2>. QED  BY <2>1, <2>6 DEF NoNewerIn, ChainIntact, Listed
  <1>. QED  BY <1>1, <1>2, <1>3 DEF OrderInv, Listed

-----------------------------------------------------------------------------
(* Files without an entry.                                                 *)

\* What is said of a file without an entry stays true.
LEMMA AccountedStays ==
    ASSUME VaultInv, VaultInv', Kept, LinkInv, LinkInv', NEW r \in Snapshot, LinkedRecord(r),
           NEW f \in Files, NEW content, Accounted(r, f, content)
    PROVE  Accounted(r, f, content)'
  <1>1. r.parent \in Ids \cup {None} /\ (r.parent # None => Done(r.parent))
    BY RecordParent
  <1>. SUFFICES ASSUME r.entries[f] = None, ChainIntact(r.parent)'
                PROVE  Matched(r, f, content)' /\ Settled(r, f, content)'
    BY DEF Accounted, Matched, Settled
  <1>2. ChainIntact(r.parent) /\ Lineage(r.parent)' = Lineage(r.parent)
    BY <1>1, ChainStays
  <1>3. \A y \in Lineage(r.parent) : meta'[y] = meta[y] /\ data'[y] = data[y]
    BY <1>1, ChainStays DEF Same
  <1>4. versions \subseteq versions'
    BY DEF Kept, Grown
  <1>5. Matched(r, f, content) /\ Settled(r, f, content)
    BY DEF Accounted
  <1>6. Matched(r, f, content)'
    BY <1>2, <1>3, <1>4, <1>5 DEF Matched
  <1>7. Steady(r.src, f)' => Steady(r.src, f)
    BY <1>4 DEF Steady
  <1>8. Settled(r, f, content)'
    BY <1>2, <1>3, <1>5, <1>7 DEF Settled
  <1>. QED  BY <1>6, <1>8

\* The records of the chain of p.
RecordsOf(chain, p) == /\ \A t \in chain : \E y \in Lineage(p) : t = meta[y]
                       /\ \A y \in Lineage(p) : meta[y] \in chain

\* z holds an entry of f with this time, and the chain of p no older entry.
OldestIn(z, p, f, mtime) ==
    /\ meta[z].entries[f] # None /\ meta[z].entries[f].mtime = mtime
    /\ \A y \in Lineage(p) : meta[y].entries[f] # None => meta[z].born <= meta[y].born

\* The oldest holder of a file in a chain remembers it.
LEMMA OldestHolder ==
    ASSUME NEW p, NEW f, NEW chain, RecordsOf(chain, p), NEW st, ~Changed(chain, f, st)
    PROVE  \E z \in Lineage(p) : OldestIn(z, p, f, st.mtime)
  <1>1. PICK e \in Remembered(chain, f) : e.mtime = st.mtime
    BY DEF Changed
  <1>2. PICK t \in Holders(chain, f) :
            e = t.entries[f] /\ \A u \in Holders(chain, f) : t.born <= u.born
    BY DEF Remembered
  <1>3. PICK z \in Lineage(p) : t = meta[z]
    BY <1>2 DEF Holders, RecordsOf
  <1>4. ASSUME NEW y \in Lineage(p), meta[y].entries[f] # None
        PROVE  meta[z].born <= meta[y].born
    <2>1. meta[y] \in Holders(chain, f)
      BY <1>4 DEF Holders, RecordsOf
    <2>. QED  BY <1>2, <1>3, <2>1
  <1>5. meta[z].entries[f] # None
    BY <1>2, <1>3 DEF Holders
  <1>. QED  BY <1>1, <1>2, <1>3, <1>4, <1>5 DEF OldestIn

\* The oldest holder is in the chain of every other one's parent.
LEMMA OldestBelow ==
    ASSUME VaultInv, LinkInv, NEW p, ChainIntact(p), NEW y \in Lineage(p), NEW z \in Lineage(p),
           meta[z].born <= meta[y].born, y # z
    PROVE  z \in Lineage(meta[y].parent) /\ ChainIntact(meta[y].parent)
  <1>1. /\ Listed(y) /\ Listed(z) /\ y \in Ids /\ z \in Ids
        /\ meta[y] \in Snapshot /\ meta[z] \in Snapshot
    BY DEF ChainIntact, Listed
  <1>2. DownIn(meta)
    BY BornDown DEF VaultInv
  <1>3. Lineage(y) \subseteq Lineage(p) /\ Lineage(z) \subseteq Lineage(p)
    BY <1>2, LineageSub, LineageNow
  <1>4. /\ Lineage(y) = {y} \cup Lineage(meta[y].parent)
        /\ Lineage(z) = {z} \cup Lineage(meta[z].parent)
    BY <1>1, ChainUnfold
  <1>5. y \in Lineage(z) \/ z \in Lineage(y)
    BY <1>1, <1>2, LineageLinear, LineageNow
  <1>6. y \notin Lineage(meta[z].parent)
    <2>. SUFFICES ASSUME y \in Lineage(meta[z].parent) PROVE FALSE
      OBVIOUS
    <2>1. PICK b \in Int : b = meta[z].born - 1
      BY <1>1 DEF Snapshot
    <2>2. PICK q : q = meta[z].parent
      OBVIOUS
    <2>3. \A x \in Lineage(q) : Listed(x)
      BY <1>3, <1>4, <2>2 DEF ChainIntact
    <2>4. ASSUME Listed(q) PROVE meta[q].born <= b
      <3>1. meta[q].born < meta[z].born
        BY <1>1, <2>2, <2>4 DEF LinkInv, LinkedRecord, Linked
      <3>2. meta[q].born \in Int /\ meta[z].born \in Int
        BY <1>1, <2>4 DEF Listed, Snapshot
      <3>. QED  BY <2>1, <3>1, <3>2
    <2>5. meta[y].born <= b
      BY <1>2, <2>2, <2>3, <2>4, LineageBorn, LineageNow
    <2>6. meta[y].born \in Int /\ meta[z].born \in Int
      BY <1>1 DEF Snapshot
    <2>. QED  BY <2>1, <2>5, <2>6
  <1>7. z \in Lineage(meta[y].parent)
    BY <1>4, <1>5, <1>6
  <1>8. ChainIntact(meta[y].parent)
    BY <1>3, <1>4 DEF ChainIntact
  <1>. QED  BY <1>7, <1>8

\* A file that is not changed is held by the chain as the backup saw it.
LEMMA UnchangedAccounted ==
    ASSUME VaultInv, FaithfulInv, LinkInv, ChainInv, WorldInv,
           ~PreservingTools => AgeInv /\ OrderInv,
           NEW w \in Workers, NEW f \in Files, Examine(w, f), job[w].seen[f] # None,
           NEW st, st = [mtime |-> tree[job[w].snap.src][f].mtime,
                         size |-> SizeOf[tree[job[w].snap.src][f].content]],
           ~Changed(job[w].chain, f, st), NEW r, r = job[w].snap
    PROVE  Matched(r, f, job[w].seen[f]) /\ Settled(r, f, job[w].seen[f])
  <1>. TypeOK
    BY DEF VaultInv
  <1>1. job[w].pc = "scan" /\ r \in Snapshot /\ r # None
    BY ExamineEffect, SentinelAssumption
  <1>2. PICK s, p, v, c : /\ s = r.src /\ p = r.parent /\ v = tree[s][f]
                          /\ c = job[w].seen[f]
    OBVIOUS
  <1>3. s \in Sources /\ v # None /\ v.content = c
    BY <1>1, <1>2, TimeTypes DEF FaithfulInv, SeenInTree
  <1>4. v \in Version /\ <<s, f, v>> \in versions
    BY <1>2, <1>3 DEF TypeOK, WorldInv
  <1>5. v = [mtime |-> v.mtime, content |-> c]
    BY <1>3, <1>4 DEF Version
  <1>. SUFFICES ASSUME ChainIntact(p)
                PROVE  Matched(r, f, c) /\ Settled(r, f, c)
    BY <1>2 DEF Matched, Settled
  <1>6. job[w].chain = {meta[y] : y \in Lineage(p)}
    BY <1>1, <1>2 DEF ChainInv, Comparing
  <1>7. PICK z \in Lineage(p) : OldestIn(z, p, f, v.mtime)
    <2>1. RecordsOf(job[w].chain, p)
      BY <1>6 DEF RecordsOf
    <2>2. st.mtime = v.mtime
      BY <1>2
    <2>3. \E z \in Lineage(p) : OldestIn(z, p, f, st.mtime)
      BY <2>1, OldestHolder, Zenon
    <2>. QED  BY <2>2, <2>3
  <1>8. Matched(r, f, c)
    BY <1>2, <1>4, <1>5, <1>7 DEF Matched, OldestIn
  <1>9. Settled(r, f, c)
    <2>. SUFFICES ASSUME ~PreservingTools, Steady(s, f),
                         NEW y \in Lineage(p), meta[y].entries[f] # None
                  PROVE  data[y][f] = c
      BY <1>2, <1>7 DEF Settled, OldestIn
    <2>1. Listed(y) /\ y \in Ids /\ meta[y] \in Snapshot /\ meta[z] \in Snapshot
      BY DEF ChainIntact, Listed
    <2>2. meta[y].entries[f].mtime \in Int /\ v.mtime \in Int
      BY <1>4, <2>1, TimeTypes
    <2>3. v.mtime <= meta[y].entries[f].mtime
      <3>1. CASE y = z
        BY <1>7, <2>2, <3>1 DEF OldestIn
      <3>2. CASE y # z
        <4>1. z \in Lineage(meta[y].parent) /\ ChainIntact(meta[y].parent)
          BY <1>7, <3>2, OldestBelow DEF OldestIn
        <4>2. NoNewerIn(meta[y].parent, f, meta[y].entries[f].mtime)
          BY <2>1 DEF OrderInv
        <4>. QED  BY <1>7, <4>1, <4>2 DEF NoNewerIn, OldestIn
      <3>. QED  BY <3>1, <3>2
    <2>4. CopiedAfter(meta[y].src, f, meta[y].entries[f].mtime, data[y][f])
      BY <2>1 DEF AgeInv
    <2>5. meta[y].src = s
      <3>1. Linked(p, r.born, s, r.strategy)
        BY <1>1, <1>2 DEF LinkInv, LinkedRecord
      <3>. QED  BY <3>1, ChainSource
    <2>6. PICK u \in Version : /\ <<s, f, u>> \in versions /\ u.content = data[y][f]
                               /\ meta[y].entries[f].mtime <= u.mtime /\ Past(s, f, u.mtime)
      BY <2>4, <2>5, Zenon DEF CopiedAfter
    <2>7. u.mtime <= v.mtime /\ u.mtime \in Int
      BY <1>2, <1>3, <2>6, TimeTypes DEF Past
    <2>8. u.mtime = v.mtime
      BY <2>2, <2>3, <2>6, <2>7
    <2>9. u = v
      <3> DEFINE V == {t[3] : t \in {q \in versions : q[1] = s /\ q[2] = f}}
      <3>1. u \in V /\ v \in V
        BY <1>4, <2>6
      <3>2. \A a, b \in V : a.mtime = b.mtime => a = b
        BY DEF Steady
      <3>. HIDE DEF V
      <3>. QED  BY <2>8, <3>1, <3>2
    <2>. QED  BY <1>3, <2>6, <2>9
  <1>. QED  BY <1>8, <1>9

\* A copied file leaves the other files without an entry as they were.
LEMMA CopyAccounted ==
    ASSUME VaultInv, LinkInv, AccountInv, NEW v \in Workers, Copy(v), NEW f \in Files,
           job[v].seen[f] # None, f \notin job'[v].todo, NEW r \in Snapshot, r = job'[v].snap
    PROVE  Accounted(r, f, job[v].seen[f]) /\ LinkedRecord(r)
  <1>. TypeOK
    BY DEF VaultInv
  <1> DEFINE e == [mtime |-> job[v].stat.mtime, size |-> job[v].stat.size,
                   checksum |-> job[v].checksum]
             g == job[v].file
  <1>1. /\ job[v].pc = "copy" /\ job[v].snap # None /\ job[v].snap \in Snapshot
        /\ job'[v].todo = job[v].todo \ {g} /\ g \in Files /\ e \in Entry
    BY CopyEffect
  <1>2. /\ job'[v].snap.entries[g] = e
        /\ \A h \in Files \ {g} : job'[v].snap.entries[h] = job[v].snap.entries[h]
    BY CopyEffect
  <1>3. job'[v].snap = [job[v].snap EXCEPT !.entries[job[v].file] = e]
    BY CopyEffect, Zenon
  <1>. HIDE DEF e, g
  <1>4. /\ r.parent = job[v].snap.parent /\ r.src = job[v].snap.src
        /\ r.strategy = job[v].snap.strategy /\ r.born = job[v].snap.born
    BY <1>1, <1>3 DEF Snapshot
  <1>5. LinkedRecord(r)
    BY <1>1, <1>4 DEF LinkInv, LinkedRecord
  <1>6. CASE f = g
    <2>1. r.entries[f] # None
      BY <1>1, <1>2, <1>6, SentinelAssumption
    <2>. QED  BY <1>5, <2>1 DEF Accounted
  <1>7. CASE f # g
    <2>1. Accounted(job[v].snap, f, job[v].seen[f])
      BY <1>1, <1>7 DEF AccountInv, Comparing
    <2>2. r.entries[f] = job[v].snap.entries[f]
      BY <1>2, <1>7
    <2>. QED  BY <1>4, <1>5, <2>1, <2>2 DEF Accounted, Matched, Settled
  <1>. QED  BY <1>6, <1>7

\* A file nobody touched that is dealt with has an entry or is held by the chain.
LEMMA JobAccounted ==
    ASSUME VaultInv, VaultInv', Kept, FaithfulInv, LinkInv, LinkInv', ChainInv, WorldInv,
           ~PreservingTools => AgeInv /\ OrderInv, AccountInv, [Next]_vars,
           NEW v \in Workers, NEW f \in Files, Comparing(job'[v]), job'[v].seen[f] # None,
           f \notin job'[v].todo, NEW r, r = job'[v].snap, NEW c, c = job'[v].seen[f]
    PROVE  Accounted(r, f, c)'
  <1>. TypeOK /\ TypeOK'
    BY DEF VaultInv
  <1>1. r \in Snapshot
    BY SentinelAssumption DEF TypeOK, Job, Shaped, Comparing
  <1>. SUFFICES Accounted(r, f, c) /\ LinkedRecord(r)
    BY <1>1, AccountedStays
  <1>2. CASE Carried(v)
    <2>1. /\ Comparing(job[v]) /\ r = job[v].snap /\ c = job[v].seen[f]
          /\ f \notin job[v].todo /\ c # None /\ r # None
      BY <1>1, <1>2, SentinelAssumption DEF Carried
    <2>. QED  BY <2>1 DEF AccountInv, LinkInv
  <1>3. CASE Copy(v)
    <2>1. job'[v].seen = job[v].seen
      BY <1>3, CopyEffect
    <2>. QED  BY <1>1, <1>3, <2>1, CopyAccounted
  <1>4. ASSUME NEW g \in Files, Examine(v, g) PROVE Accounted(r, f, c) /\ LinkedRecord(r)
    <2>1. PICK st : st = [mtime |-> tree[job[v].snap.src][g].mtime,
                          size |-> SizeOf[tree[job[v].snap.src][g].content]]
      OBVIOUS
    <2>2. /\ job[v].pc = "scan" /\ job'[v].snap = job[v].snap /\ job'[v].seen = job[v].seen
          /\ job'[v].todo = job[v].todo
             \/ (job'[v].todo = job[v].todo \ {g} /\ ~Changed(job[v].chain, g, st))
      BY <1>4, <2>1, ExamineEffect
    <2>3. r = job[v].snap /\ r # None /\ c = job[v].seen[f] /\ c # None /\ LinkedRecord(r)
      BY <1>1, <2>2, SentinelAssumption DEF LinkInv
    <2>4. CASE f \notin job[v].todo
      BY <2>2, <2>3, <2>4 DEF AccountInv, Comparing
    <2>5. CASE f \in job[v].todo
      <3>1. f = g /\ ~Changed(job[v].chain, f, st)
        BY <2>2, <2>5
      <3>2. Matched(r, f, job[v].seen[f]) /\ Settled(r, f, job[v].seen[f])
        BY <1>4, <2>1, <2>3, <3>1, UnchangedAccounted
      <3>. QED  BY <2>3, <3>2 DEF Accounted
    <2>. QED  BY <2>4, <2>5
  <1>5. ~Prepare(v)
    <2>. SUFFICES ASSUME Prepare(v) PROVE FALSE
      OBVIOUS
    <2>1. /\ job[v].snap \in Snapshot /\ job'[v].seen = job[v].seen
          /\ job'[v].todo = {h \in Files : tree[job[v].snap.src][h] # None}
      BY PrepareEffect
    <2>. QED  BY <2>1, SentinelAssumption DEF FaithfulInv, SeenInTree
  <1>6. ~Start(v)
    BY StartEffect DEF Comparing
  <1>7. \A s \in Sources, k \in Kinds : ~Choose(v, s, k)
    BY ChooseEffect DEF Comparing
  <1>. QED  BY <1>2, <1>3, <1>4, <1>5, <1>6, <1>7, JobStep DEF Comparing

\* AccountInv is inductive.
LEMMA AccountStep ==
    ASSUME VaultInv, VaultInv', Kept, FaithfulInv, LinkInv, LinkInv', ChainInv, WorldInv,
           ~PreservingTools => AgeInv /\ OrderInv, AccountInv, [Next]_vars
    PROVE  AccountInv'
  <1>1. ASSUME NEW x \in Ids, NEW f \in Files, Listed(x)', witness'[x][f] # None
        PROVE  Accounted(meta[x], f, witness[x][f])'
    <2>1. PICK r \in Snapshot : r = meta'[x]
      BY <1>1 DEF Listed
    <2>2. PICK c : c = witness'[x][f]
      OBVIOUS
    <2>3. LinkedRecord(r)
      BY <1>1, <2>1, ListedStep DEF LinkInv, Same
    <2>4. ASSUME NEW w \in Workers, job[w].snap # None, job[w].id = x, job[w].pc = "publish",
                 meta'[x] = job[w].snap, witness'[x] = job[w].seen
          PROVE  Accounted(r, f, c)
      BY <1>1, <2>1, <2>2, <2>4 DEF ChainInv, AccountInv, Comparing
    <2>5. ASSUME Listed(x), Same(x) PROVE Accounted(r, f, c)
      BY <1>1, <2>1, <2>2, <2>5 DEF AccountInv, Same
    <2>6. Accounted(r, f, c)
      BY <1>1, <2>4, <2>5, ListedStep
    <2>7. Accounted(r, f, c)'
      BY <2>3, <2>6, AccountedStays
    <2>. QED  BY <2>1, <2>2, <2>7 DEF Accounted, Matched, Settled, ChainIntact, Listed
  <1>2. ASSUME NEW v \in Workers, NEW f \in Files, Comparing(job[v])', job'[v].seen[f] # None,
               f \notin job'[v].todo
        PROVE  Accounted(job[v].snap, f, job[v].seen[f])'
    <2>1. PICK r, c : r = job'[v].snap /\ c = job'[v].seen[f]
      OBVIOUS
    <2>2. Comparing(job'[v])
      BY <1>2 DEF Comparing
    <2>3. Accounted(r, f, c)'
      BY <1>2, <2>1, <2>2, JobAccounted
    <2>. QED  BY <2>1, <2>3 DEF Accounted, Matched, Settled, ChainIntact, Listed
  <1>. QED  BY <1>1, <1>2 DEF AccountInv, Listed

-----------------------------------------------------------------------------
(* What is restored.                                                       *)

\* All of RestoreInv is an invariant.
LEMMA RestoreInvariant ==
    ASSUME FreshIds
    PROVE  Spec => []RestoreInv
  <1>1. Init => RestoreInv
    <2>. SUFFICES ASSUME Init PROVE RestoreInv
      OBVIOUS
    <2>1. /\ \A x \in Ids : ~Listed(x)
          /\ \A w \in Workers : job[w].snap = None /\ job[w].pc = "idle"
      BY SentinelAssumption DEF Init, Listed, Idle
    <2>2. LinkInv /\ ChainInv /\ AgeInv /\ OrderInv /\ AccountInv
      BY <2>1 DEF LinkInv, ChainInv, AgeInv, OrderInv, AccountInv, Comparing
    <2>3. WorldInv
      <3>1. ASSUME NEW s \in Sources, NEW f \in Files, tree[s][f] # None
            PROVE  tree[s][f] \in Version /\ tree[s][f].mtime = 0
        BY <3>1, BoundsAssumption DEF Init, Version, Times
      <3>2. clock = 0 /\ versions = {t \in Sources \X Files \X Version :
                                        tree[t[1]][t[2]] = t[3]}
        BY DEF Init
      <3>3. ASSUME NEW t \in versions PROVE t[3].mtime <= clock
        <4>1. t[1] \in Sources /\ t[2] \in Files /\ t[3] \in Version /\ tree[t[1]][t[2]] = t[3]
          BY <3>2
        <4>2. t[3] # None
          BY <4>1, SentinelAssumption
        <4>. QED  BY <3>1, <3>2, <4>1, <4>2
      <3>. QED  BY <3>1, <3>2, <3>3 DEF WorldInv
    <2>. QED  BY <2>2, <2>3 DEF RestoreInv
  <1>2. /\ VaultInv /\ CounterAhead /\ FaithfulInv /\ RestoreInv
        /\ VaultInv' /\ [Next]_vars
        => RestoreInv'
    <2>. SUFFICES ASSUME VaultInv, CounterAhead, FaithfulInv, RestoreInv, VaultInv',
                         [Next]_vars
                  PROVE  RestoreInv'
      OBVIOUS
    <2>1. Kept /\ TypeOK /\ TypeOK'
      BY KeptStep DEF VaultInv
    <2>2. LinkInv /\ ChainInv /\ WorldInv /\ AccountInv
          /\ (~PreservingTools => AgeInv /\ OrderInv)
      BY DEF RestoreInv
    <2>3. LinkInv'
      BY <2>1, <2>2, LinkStep
    <2>4. ChainInv'
      BY <2>1, <2>2, <2>3, ChainStep
    <2>5. WorldInv'
      BY <2>1, <2>2, WorldStep
    <2>6. ~PreservingTools => AgeInv'
      BY <2>1, <2>2, AgeStep
    <2>7. ~PreservingTools => OrderInv'
      BY <2>1, <2>2, <2>3, OrderStep
    <2>8. AccountInv'
      BY <2>1, <2>2, <2>3, AccountStep
    <2>. QED  BY <2>3, <2>4, <2>5, <2>6, <2>7, <2>8 DEF RestoreInv
  <1>. QED  BY <1>1, <1>2, VaultInvariant, FaithfulInvariant, PTL DEF Spec

\* A snapshot that holds the file itself gives it back.
LEMMA OwnCopy ==
    ASSUME VaultInv, FaithfulInv, LinkInv, NEW x \in Ids, Listed(x), ChainIntact(x),
           NEW f \in Files, witness[x][f] # None, meta[x].entries[f] # None
    PROVE  Recovered(x, f)
  <1>1. DownIn(meta) /\ meta[x] \in Snapshot
    BY BornDown DEF VaultInv, Listed
  <1>2. meta[x].born \in Int
    BY <1>1 DEF Snapshot
  <1>3. \A y \in Lineage(x) : meta[y].born <= meta[x].born
    BY <1>1, <1>2, LineageBorn, LineageNow DEF ChainIntact
  <1>4. x \in Lineage(x)
    BY SentinelAssumption, LineageStart, LineageNow
  <1>5. x \in NewestHolder(x, f)
    BY <1>3, <1>4 DEF NewestHolder, Latest
  <1>6. data[x][f] = witness[x][f]
    BY DEF FaithfulInv, PublishedFaithful
  <1>. QED  BY <1>5, <1>6 DEF Recovered

\* Whatever mixture of strategies, deletes, crashes and concurrent backups made a chain
\* that is still whole, a file nobody touched during the backup is recovered from it,
\* when the file's mtime tells its versions apart and nobody puts old versions back.
THEOREM ChainsRestore ==
    ASSUME FreshIds, ~PreservingTools
    PROVE  Spec => []ChainRestoresSource
  <1>1. VaultInv /\ FaithfulInv /\ RestoreInv => ChainRestoresSource
    <2>. SUFFICES ASSUME VaultInv, FaithfulInv, RestoreInv, NEW x \in Ids, Listed(x),
                         ChainIntact(x), NEW f \in Files, witness[x][f] # None,
                         Steady(meta[x].src, f)
                  PROVE  Recovered(x, f)
      BY DEF ChainRestoresSource
    <2>1. LinkInv /\ AccountInv
      BY DEF RestoreInv
    <2>2. CASE meta[x].entries[f] # None
      BY <2>1, <2>2, OwnCopy
    <2>3. CASE meta[x].entries[f] = None
      <3>1. Lineage(x) = {x} \cup Lineage(meta[x].parent)
        BY <2>1, ChainUnfold
      <3>2. ChainIntact(meta[x].parent)
        BY <3>1 DEF ChainIntact
      <3>3. /\ \E y \in Lineage(meta[x].parent) : meta[y].entries[f] # None
            /\ \A y \in Lineage(meta[x].parent) :
                   meta[y].entries[f] # None => data[y][f] = witness[x][f]
        BY <2>1, <2>3, <3>2 DEF AccountInv, Accounted, Settled
      <3> DEFINE S == {y \in Lineage(x) : meta[y].entries[f] # None}
      <3>4. S # {} /\ \A y \in S : ListedIn(meta, y)
        BY <3>1, <3>3, LineageNow DEF ChainIntact
      <3>5. PICK y \in S : \A z \in S : meta[z].born <= meta[y].born
        BY <3>4, NewestExists
      <3>6. y \in NewestHolder(x, f)
        BY <3>5 DEF NewestHolder, Latest
      <3>7. data[y][f] = witness[x][f]
        BY <2>3, <3>1, <3>3
      <3>. QED  BY <3>6, <3>7 DEF Recovered
    <2>. QED  BY <2>2, <2>3
  <1>. QED  BY <1>1, VaultInvariant, FaithfulInvariant, RestoreInvariant, PTL

\* A full or differential backup whose chain is still whole gives back every file nobody
\* touched while it ran, also when users put old versions back with their mtime, as long
\* as the mtime tells the versions apart and the copy needed is not torn.
THEOREM DifferentialsRestore ==
    ASSUME FreshIds
    PROVE  Spec => []DifferentialRestoresSource
  <1>1. VaultInv /\ FaithfulInv /\ RestoreInv => DifferentialRestoresSource
    <2>. SUFFICES ASSUME VaultInv, FaithfulInv, RestoreInv, NEW x \in Ids, Listed(x),
                         ChainIntact(x), meta[x].strategy # "incremental",
                         NEW f \in Files, witness[x][f] # None, Steady(meta[x].src, f),
                         \A y \in Lineage(x) : Whole(y, f)
                  PROVE  Recovered(x, f)
      BY DEF DifferentialRestoresSource, PutBackRecovered
    <2>1. LinkInv /\ AccountInv
      BY DEF RestoreInv
    <2>2. CASE meta[x].entries[f] # None
      BY <2>1, <2>2, OwnCopy
    <2>3. CASE meta[x].entries[f] = None
      <3>1. /\ Lineage(x) = {x} \cup Lineage(meta[x].parent)
            /\ meta[x].parent \in Ids \cup {None} /\ meta[x] \in Snapshot
        BY <2>1, ChainUnfold DEF Listed
      <3>2. ChainIntact(meta[x].parent)
        BY <3>1 DEF ChainIntact
      <3>3. PICK y \in Lineage(meta[x].parent) :
                /\ meta[y].entries[f] # None
                /\ <<meta[x].src, f, [mtime |-> meta[y].entries[f].mtime,
                                      content |-> witness[x][f]]>> \in versions
        BY <2>1, <2>3, <3>2 DEF AccountInv, Accounted, Matched
      <3>4. Lineage(meta[x].parent) = {meta[x].parent} /\ Listed(meta[x].parent)
        <4> DEFINE p == meta[x].parent
        <4>1. p # None
          BY <3>3, NoChain
        <4>2. p \in Lineage(p)
          BY <4>1, LineageStart, LineageNow
        <4>3. Listed(p)
          BY <3>2, <4>2 DEF ChainIntact
        <4>4. meta[x].strategy = "differential"
          <5>1. meta[x].strategy # "full"
            BY <2>1, <4>1 DEF LinkInv, LinkedRecord, Linked
          <5>. QED  BY <3>1, <5>1 DEF Snapshot, Strategies
        <4>5. meta[p].strategy = "full"
          BY <2>1, <4>3, <4>4 DEF LinkInv, LinkedRecord, Linked
        <4>6. meta[p].parent = None
          BY <2>1, <4>3, <4>5 DEF LinkInv, LinkedRecord, Linked, Listed
        <4>7. Lineage(p) = {p} \cup Lineage(None)
          BY <2>1, <4>3, <4>6, ChainUnfold
        <4>. QED  BY <4>3, <4>7, NoChain
      <3>5. y = meta[x].parent /\ y \in Lineage(x) /\ Lineage(x) = {x, y}
        BY <3>1, <3>4
      <3>6. meta[y].src = meta[x].src
        BY <2>1, <3>4, <3>5 DEF LinkInv, LinkedRecord, Linked
      <3>7. data[y][f] = witness[x][f]
        <4> DEFINE V == {t[3] : t \in {q \in versions : q[1] = meta[x].src /\ q[2] = f}}
                   u == [mtime |-> meta[y].entries[f].mtime, content |-> witness[x][f]]
                   v == [mtime |-> meta[y].entries[f].mtime, content |-> data[y][f]]
        <4>1. <<meta[x].src, f, v>> \in versions
          BY <3>3, <3>5, <3>6 DEF Whole
        <4>2. u \in V /\ v \in V
          BY <3>3, <4>1
        <4>3. \A a, b \in V : a.mtime = b.mtime => a = b
          BY DEF Steady
        <4>4. u.mtime = v.mtime /\ u.content = witness[x][f] /\ v.content = data[y][f]
          OBVIOUS
        <4>. HIDE DEF V, u, v
        <4>5. u = v
          BY <4>2, <4>3, <4>4
        <4>. QED  BY <4>4, <4>5
      <3>8. y \in NewestHolder(x, f)
        <4>1. meta[y].born <= meta[y].born
          BY <3>4, <3>5 DEF Listed, Snapshot
        <4>. QED  BY <2>3, <3>3, <3>5, <4>1 DEF NewestHolder, Latest
      <3>. QED  BY <3>7, <3>8 DEF Recovered
    <2>. QED  BY <2>2, <2>3
  <1>. QED  BY <1>1, VaultInvariant, FaithfulInvariant, RestoreInvariant, PTL

=============================================================================
