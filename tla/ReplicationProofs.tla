------------------------- MODULE ReplicationProofs --------------------------
(***************************************************************************)
(* Theorems about Replication for every choice of its constants.           *)
(***************************************************************************)
EXTENDS Replication, WellFoundedInduction, TLAPS

USE DEF store, env

ShapedJob == {r \in Job : Shaped(r)}

\* A step that gives one job a well-formed record keeps the types.
LEMMA GoesType ==
    ASSUME TypeOK, NEW j \in Jobs, NEW r \in ShapedJob, Goes(j, r)
    PROVE  TypeOK'
  BY DEF Goes, Becomes, TypeOK, ShapedJob

\* A job's record is well formed.
LEMMA JobType ==
    ASSUME TypeOK, NEW j \in Jobs
    PROVE  job[j] \in Job /\ Shaped(job[j])
  BY DEF TypeOK

\* The record of a process that has done nothing is well formed.
LEMMA FreeType == Free \in ShapedJob
  BY ConfigAssumption DEF Free, Job, Shaped, ShapedJob, Cell, Pcs, Ids, Backends

\* A job that is over, or goes on to the mending, has a well-formed record.
LEMMA EndedType ==
    ASSUME NEW r \in ShapedJob
    PROVE  Ended(r) \in ShapedJob /\ Mending(r) \in ShapedJob
  <1>1. r \in Job
    BY DEF ShapedJob
  <1>2. Ended(r) \in Job /\ Ended(r).pc = "idle"
    BY ZenonT(40), <1>1 DEF Ended, Job, Pcs, Cell
  <1>3. Mending(r) \in Job /\ Mending(r).pc = "mend"
    <2>. HIDE DEF Ended
    <2>. QED  BY <1>2 DEF Mending, Job, Pcs, Backends
  <1>. QED
    <2>. HIDE DEF Ended, Mending
    <2>. QED  BY <1>2, <1>3 DEF ShapedJob, Shaped

\* A job that is done with a target has a well-formed record.
LEMMA LeaveType ==
    ASSUME NEW r \in ShapedJob, r.pc \in {"store", "read", "write", "verify"}
    PROVE  /\ Back(r) \in ShapedJob
           /\ Failed(r) \in ShapedJob
           /\ Copied(r) \in ShapedJob
  <1>1. r \in Job /\ r.id \in Ids /\ r.at \in Backends
    BY DEF ShapedJob, Shaped
  <1>2. /\ Back(r) \in Job /\ Back(r).pc \in {"replicate", "remedy"}
        /\ Back(r).id = r.id
    <2> DEFINE p == IF r.command = "replicate" THEN "replicate" ELSE "remedy"
               b == [r EXCEPT !.pc = p, !.at = None, !.file = None, !.buf = "none",
                              !.todo = {}, !.sick = {}]
    <2>1. Back(r) = b
      BY DEF Back
    <2>2. p \in {"replicate", "remedy"} /\ p \in Pcs
      BY DEF Pcs
    <2>3. b.pc = p /\ b.id = r.id
      BY <1>1 DEF Job
    <2>4. b \in Job
      <3>. HIDE DEF p
      <3>. QED  BY <1>1, <2>2 DEF Job, Cell
    <2>. HIDE DEF b, p
    <2>. QED  BY <2>1, <2>2, <2>3, <2>4
  <1>. HIDE DEF Back
  <1>3. ASSUME NEW s \in Job, s.pc \in {"replicate", "remedy"}, s.id \in Ids
        PROVE  s \in ShapedJob
    BY <1>3 DEF ShapedJob, Shaped
  <1>4. Back(r) \in ShapedJob
    BY <1>1, <1>2, <1>3
  <1>5. [Back(r) EXCEPT !.failed = @ \cup {r.at}] \in ShapedJob
    BY <1>1, <1>2, <1>3 DEF Job
  <1>6. Copied(r) \in ShapedJob
    BY <1>1, <1>2, <1>3 DEF Job, Copied
  <1>. QED  BY <1>4, <1>5, <1>6, EndedType DEF Failed

\* The first record of a command is well formed.
LEMMA StartType ==
    ASSUME TypeOK, NEW j \in Jobs, Start(j)
    PROVE  TypeOK'
  <1>0. Calm \in BOOLEAN /\ Free \in Job
    BY FreeType DEF Calm, ShapedJob
  <1>1. CASE StartReplicate(j)
    <2>1. PICK x \in Latest(Primary) :
              Goes(j, [Free EXCEPT !.command = "replicate", !.pc = "replicate",
                                   !.id = x, !.queue = Replicas, !.calm = Calm])
      BY <1>1 DEF StartReplicate
    <2>2. x \in Ids /\ x \in 0..MaxSnaps
      BY ConfigAssumption DEF Latest, Newest, TypeOK, Backends, Ids
    <2> DEFINE n == [Free EXCEPT !.command = "replicate", !.pc = "replicate",
                                 !.id = x, !.queue = Replicas, !.calm = Calm]
    <2>3. "replicate" \in Commands
      BY <1>1 DEF StartReplicate
    <2>4. n \in Job /\ n.pc = "replicate" /\ n.id = x
      BY ZenonT(40), <1>0, <2>2, <2>3 DEF Job, Pcs, Backends
    <2>. HIDE DEF n
    <2>5. n \in ShapedJob
      BY <2>2, <2>4 DEF ShapedJob, Shaped
    <2>. QED  BY <2>1, <2>5, GoesType DEF n
  <1>2. CASE \E c \in Commands : StartMaintain(j, c)
    <2>1. PICK c \in Commands :
              Goes(j, [Free EXCEPT !.command = c, !.pc = "assess", !.queue = Backends,
                                   !.calm = Calm])
      BY <1>2 DEF StartMaintain
    <2> DEFINE n == [Free EXCEPT !.command = c, !.pc = "assess", !.queue = Backends,
                                 !.calm = Calm]
    <2>2. n \in Job /\ n.pc = "assess"
      BY <1>0 DEF Job, Pcs
    <2>. HIDE DEF n
    <2>3. n \in ShapedJob
      BY <2>2 DEF ShapedJob, Shaped
    <2>. QED  BY <2>1, <2>3, GoesType DEF n
  <1>3. ASSUME NEW t \in Backends, NEW S \in SUBSET (Backends \ {t}), StartHeal(j, t, S)
        PROVE  TypeOK'
    <2>1. PICK x \in Ids :
              Goes(j, [Free EXCEPT !.command = "heal", !.pc = "rescan", !.id = x,
                                   !.at = t, !.from = S, !.todo = entries[x],
                                   !.calm = Calm])
      BY <1>3 DEF StartHeal
    <2>2. entries[x] \subseteq Files /\ x \in 0..MaxSnaps /\ "heal" \in Commands
      BY <1>3, ConfigAssumption DEF TypeOK, Ids, StartHeal
    <2> DEFINE todo == entries[x]
               n == [Free EXCEPT !.command = "heal", !.pc = "rescan", !.id = x,
                                 !.at = t, !.from = S, !.todo = todo, !.calm = Calm]
    <2>. HIDE DEF todo
    <2>3. n \in Job /\ n.pc = "rescan" /\ n.id = x /\ n.at = t
      BY <1>0, <2>2 DEF Job, Pcs, todo
    <2>. HIDE DEF n
    <2>4. n \in ShapedJob
      BY <2>3 DEF ShapedJob, Shaped
    <2>. QED  BY <2>1, <2>4, GoesType DEF n, todo
  <1>. QED  BY <1>1, <1>2, <1>3 DEF Start

\* The policy check and the choice of targets keep the types.
LEMMA PolicyType ==
    ASSUME TypeOK, NEW j \in Jobs,
           \/ \E b \in Backends : Assess(j, b) \/ Remedy(j, b)
           \/ Judge(j) \/ Pick(j) \/ RemedyDone(j)
    PROVE  TypeOK'
  <1> DEFINE r == job[j]
  <1>1. r \in ShapedJob /\ r \in Job /\ Shaped(r)
    BY JobType DEF ShapedJob
  <1>2. ASSUME NEW b \in Backends, Assess(j, b)
        PROVE  TypeOK'
    <2>1. PICK seen \in SUBSET Backends :
              Goes(j, [r EXCEPT !.queue = @ \ {b}, !.seen = seen])
      <3>1. r.seen \subseteq Backends
        BY <1>1 DEF Job
      <3>2. (IF Latest(b) # {} THEN r.seen \cup {b} ELSE r.seen) \in SUBSET Backends
        BY <3>1
      <3>. QED  BY <1>2, <3>2 DEF Assess
    <2>2. [r EXCEPT !.queue = @ \ {b}, !.seen = seen] \in ShapedJob
      <3>. HIDE DEF r
      <3>. QED  BY <1>1 DEF ShapedJob, Shaped, Job
    <2>. HIDE DEF r
    <2>. QED  BY <2>1, <2>2, GoesType
  <1>3. ASSUME NEW b \in Backends, Remedy(j, b)
        PROVE  TypeOK'
    <2>1. r.pc = "remedy"
      BY <1>3 DEF Remedy, At
    <2> DEFINE r1 == [r EXCEPT !.queue = @ \ {b}]
               r2 == [r1 EXCEPT !.pc = "store", !.at = b]
    <2>2. Goes(j, r1) \/ Goes(j, r2)
      BY <1>3 DEF Remedy
    <2>3. r1 \in ShapedJob
      <3>. HIDE DEF r
      <3>. QED  BY <1>1, <2>1 DEF ShapedJob, Shaped, Job
    <2>4. r2 \in ShapedJob
      <3>1. r1 \in Job /\ r1.id \in Ids
        <4>. HIDE DEF r
        <4>. QED  BY <1>1, <2>1 DEF Shaped, Job
      <3>. HIDE DEF r, r1
      <3>. QED  BY <3>1 DEF ShapedJob, Shaped, Job, Pcs
    <2>. HIDE DEF r, r1, r2
    <2>. QED  BY <2>2, <2>3, <2>4, GoesType
  <1>4. CASE Judge(j)
    <2> DEFINE ok == Compliant(r.seen)
               reported == [r EXCEPT !.healthy = ok]
               again(q) == [q EXCEPT !.again = TRUE, !.queue = Backends, !.seen = {}]
               pick == [r EXCEPT !.pc = "pick", !.seen = {}]
    <2>1. ok \in BOOLEAN /\ r.pc = "assess"
      BY <1>4 DEF Compliant, Judge, At
    <2>2. reported \in ShapedJob
      <3>. HIDE DEF ok, r
      <3>. QED  BY <1>1, <2>1 DEF ShapedJob, Shaped, Job
    <2>3. pick \in ShapedJob
      <3>. HIDE DEF r
      <3>. QED  BY <1>1, <2>1 DEF ShapedJob, Shaped, Job, Pcs
    <2>4. ASSUME NEW q \in ShapedJob
          PROVE  again(q) \in ShapedJob
      BY <2>4 DEF ShapedJob, Shaped, Job
    <2>5. \/ Goes(j, again(reported)) \/ Goes(j, pick)
          \/ Goes(j, Mending(reported)) \/ Goes(j, Mending(r)) \/ Goes(j, Ended(r))
      <3>. HIDE DEF ok
      <3>1. CASE r.command = "maintain" /\ ~r.again
        BY <1>4, <3>1 DEF Judge, ok
      <3>2. CASE ~(r.command = "maintain" /\ ~r.again)
        BY <1>4, <3>2 DEF Judge, ok
      <3>. QED  BY <3>1, <3>2
    <2>. HIDE DEF r, reported, pick, again
    <2>. QED  BY <1>1, <2>2, <2>3, <2>4, <2>5, EndedType, GoesType
  <1>5. CASE Pick(j)
    <2>1. ASSUME NEW x \in Latest(Primary),
                 Goes(j, [r EXCEPT !.pc = "remedy", !.id = x, !.queue = Replicas])
          PROVE  TypeOK'
      <3>1. x \in Ids /\ x \in 0..MaxSnaps
        BY ConfigAssumption DEF Latest, Newest, TypeOK, Backends, Ids
      <3>2. [r EXCEPT !.pc = "remedy", !.id = x, !.queue = Replicas] \in ShapedJob
        <4> DEFINE q == [r EXCEPT !.pc = "remedy", !.id = x, !.queue = Replicas]
        <4>. HIDE DEF r
        <4>1. Replicas \in SUBSET Backends
          BY DEF Backends
        <4>2. q \in Job
          BY <1>1, <3>1, <4>1 DEF Job, Pcs
        <4>3. q.pc = "remedy" /\ q.id = x
          BY <1>1 DEF Job
        <4>. HIDE DEF q
        <4>4. q \in ShapedJob
          BY <3>1, <4>2, <4>3 DEF ShapedJob, Shaped
        <4>. QED  BY <4>4 DEF q
      <3>. QED  BY <2>1, <3>2, GoesType
    <2>. QED  BY <1>1, <1>5, <2>1, EndedType, GoesType DEF Pick
  <1>6. CASE RemedyDone(j)
    BY <1>1, <1>6, EndedType, GoesType DEF RemedyDone
  <1>. QED  BY <1>2, <1>3, <1>4, <1>5, <1>6

\* A step that also changes what the backends hold, and keeps its type.
LEMMA BecomesType ==
    ASSUME TypeOK, NEW j \in Jobs, NEW r \in ShapedJob, Becomes(j, r),
           has' \in [Backends -> SUBSET Ids],
           data' \in [Backends -> [Ids -> [Files -> Cell]]],
           crossed' \subseteq Ids
    PROVE  TypeOK'
  BY DEF Becomes, TypeOK, ShapedJob

\* Copying a snapshot to a target keeps the types.
LEMMA CopyType ==
    ASSUME TypeOK, NEW j \in Jobs,
           \/ \E b \in Backends : Replicate(j, b)
           \/ ReplicateDone(j) \/ StoreMeta(j)
           \/ \E f \in Files : Read(j, f)
           \/ Write(j) \/ CopyDone(j) \/ VerifyDone(j)
    PROVE  TypeOK'
  <1> DEFINE r == job[j]
  <1>1. r \in ShapedJob /\ r \in Job /\ Shaped(r)
    BY JobType DEF ShapedJob
  <1>2. ASSUME NEW b \in Backends, Replicate(j, b)
        PROVE  TypeOK'
    <2> DEFINE q == [r EXCEPT !.queue = @ \ {b}]
               q1 == [q EXCEPT !.existing = @ \cup {b}]
               q2 == [q EXCEPT !.pc = "store", !.at = b]
    <2>1. r.pc = "replicate" /\ (Goes(j, q1) \/ Goes(j, q2))
      BY <1>2 DEF Replicate, At
    <2>2. q \in Job /\ q.pc = "replicate" /\ q.id \in Ids
      <3>. HIDE DEF r
      <3>. QED  BY <1>1, <2>1 DEF Shaped, Job
    <2>3. q1 \in ShapedJob
      <3>. HIDE DEF q
      <3>. QED  BY <2>2 DEF ShapedJob, Shaped, Job, Pcs
    <2>4. q2 \in ShapedJob
      <3>. HIDE DEF q
      <3>. QED  BY <2>2 DEF ShapedJob, Shaped, Job, Pcs
    <2>. HIDE DEF q1, q2
    <2>. QED  BY <2>1, <2>3, <2>4, GoesType
  <1>3. CASE ReplicateDone(j)
    BY <1>1, <1>3, EndedType, GoesType DEF ReplicateDone
  <1>4. CASE StoreMeta(j)
    <2>1. r.pc = "store" /\ r.id \in Ids /\ r.at \in Backends
      BY <1>1, <1>4 DEF StoreMeta, At, Shaped
    <2> DEFINE q == [r EXCEPT !.pc = "read", !.todo = entries[r.id]]
    <2>2. q \in ShapedJob
      <3>1. entries[r.id] \in SUBSET Files
        BY <2>1 DEF TypeOK
      <3> DEFINE todo == entries[r.id]
      <3>. HIDE DEF r, todo
      <3>. QED  BY <1>1, <2>1, <3>1 DEF ShapedJob, Shaped, Job, Pcs, todo
    <2>3. CASE r.at \in up
      <3>1. Becomes(j, q) /\ data' = data /\ has' = [has EXCEPT ![r.at] = @ \cup {r.id}]
            /\ crossed' = crossed
        BY <1>4, <2>3 DEF StoreMeta
      <3>2. has' \in [Backends -> SUBSET Ids]
        BY <2>1, <3>1 DEF TypeOK
      <3>. HIDE DEF q
      <3>. QED  BY <2>2, <3>1, <3>2, BecomesType DEF TypeOK
    <2>4. CASE r.at \notin up
      BY <1>1, <1>4, <2>1, <2>4, LeaveType, GoesType DEF StoreMeta
    <2>. QED  BY <2>3, <2>4
  <1>5. ASSUME NEW f \in Files, Read(j, f)
        PROVE  TypeOK'
    <2>1. r.pc = "read" /\ r.id \in Ids /\ r.at \in Backends
      BY <1>1, <1>5 DEF Read, At, Shaped
    <2> DEFINE cell == data[Primary][r.id][f]
               q == [r EXCEPT !.todo = @ \ {f}]
               q1 == [q EXCEPT !.pc = "write", !.file = f, !.buf = cell]
    <2>2. cell \in Cell
      BY <2>1 DEF TypeOK, Backends
    <2>3. q \in ShapedJob /\ q \in Job /\ q.pc = "read" /\ q.id \in Ids /\ q.at \in Backends
      <3>. HIDE DEF r
      <3>. QED  BY <1>1, <2>1 DEF ShapedJob, Shaped, Job
    <2>4. q1 \in ShapedJob
      <3>. HIDE DEF q, cell
      <3>. QED  BY <2>2, <2>3 DEF ShapedJob, Shaped, Job, Pcs
    <2>5. Goes(j, q1) \/ Goes(j, q) \/ Goes(j, Failed(r))
      BY <1>5 DEF Read
    <2>. HIDE DEF r, q, q1, cell
    <2>. QED  BY <1>1, <2>1, <2>3, <2>4, <2>5, LeaveType, GoesType
  <1>6. CASE Write(j)
    <2>1. r.pc = "write" /\ r.id \in Ids /\ r.at \in Backends /\ r.file \in Files
      BY <1>1, <1>6 DEF Write, At, Shaped
    <2> DEFINE q == [r EXCEPT !.pc = "read", !.file = None, !.buf = "none"]
    <2>2. q \in ShapedJob
      <3>. HIDE DEF r
      <3>. QED  BY <1>1, <2>1 DEF ShapedJob, Shaped, Job, Pcs, Cell
    <2>3. CASE r.at \in up
      <3>1. Becomes(j, q) /\ has' = has /\ crossed' = crossed
            /\ data' = [data EXCEPT ![r.at][r.id][r.file] = r.buf]
        BY <1>6, <2>3 DEF Write
      <3>2. r.buf \in Cell
        BY <1>1 DEF Job
      <3>3. data' \in [Backends -> [Ids -> [Files -> Cell]]]
        BY <2>1, <3>1, <3>2 DEF TypeOK
      <3>. HIDE DEF q
      <3>. QED  BY <2>2, <3>1, <3>3, BecomesType DEF TypeOK
    <2>4. CASE r.at \notin up
      BY <1>1, <1>6, <2>1, <2>4, LeaveType, GoesType DEF Write
    <2>. QED  BY <2>3, <2>4
  <1>7. CASE CopyDone(j)
    <2>1. r.pc = "read" /\ r.id \in Ids /\ r.at \in Backends
      BY <1>1, <1>7 DEF CopyDone, At, Shaped
    <2> DEFINE todo == entries[r.id]
               q == [r EXCEPT !.pc = "verify", !.todo = todo]
    <2>2. todo \in SUBSET Files
      BY <2>1 DEF TypeOK
    <2>3. q \in ShapedJob
      <3>. HIDE DEF r, todo
      <3>. QED  BY <1>1, <2>1, <2>2 DEF ShapedJob, Shaped, Job, Pcs
    <2>4. Goes(j, q) \/ Goes(j, Copied(r))
      BY <1>7 DEF CopyDone
    <2>. HIDE DEF r, q
    <2>. QED  BY <1>1, <2>1, <2>3, <2>4, LeaveType, GoesType
  <1>8. CASE VerifyDone(j)
    <2>1. r.pc = "verify" /\ (Goes(j, Copied(r)) \/ Goes(j, Failed(r)))
      BY <1>8 DEF VerifyDone, At
    <2>. HIDE DEF r
    <2>. QED  BY <1>1, <2>1, LeaveType, GoesType
  <1>. QED  BY <1>2, <1>3, <1>4, <1>5, <1>6, <1>7, <1>8

\* The steps of a heal find a snapshot, a target and, where they need it, a file.
LEMMA HealShape ==
    ASSUME NEW r \in ShapedJob
    PROVE  /\ r.pc \in {"verify", "scan", "rescan", "heal", "fetch", "patch", "check"}
                => r.id \in Ids /\ r.at \in Backends
           /\ r.pc \in {"fetch", "patch", "check"} => r.file \in Files
  BY DEF ShapedJob, Shaped

\* The end of a heal keeps the record well formed.
LEMMA HealEndedType ==
    ASSUME NEW r \in ShapedJob, r.pc \in {"scan", "rescan", "heal"}
    PROVE  HealEnded(r) \in ShapedJob
  <1> DEFINE q == [r EXCEPT !.mended = @ \cup {r.at}]
             q1 == [q EXCEPT !.pc = "mend", !.at = None, !.todo = {}, !.sick = {},
                             !.file = None, !.sources = {}]
  <1>1. r \in Job /\ r.at \in Backends /\ r.id \in Ids
    BY HealShape DEF ShapedJob
  <1>2. q \in Job /\ q.pc = r.pc /\ q.id = r.id /\ q.at = r.at
    BY <1>1 DEF Job
  <1>3. q \in ShapedJob
    <2>. HIDE DEF q
    <2>. QED  BY <1>1, <1>2 DEF ShapedJob, Shaped
  <1>4. q1 \in ShapedJob
    <2>1. q1 \in Job /\ q1.pc = "mend"
      <3>. HIDE DEF q
      <3>. QED  BY <1>2 DEF Job, Pcs
    <2>. HIDE DEF q1
    <2>. QED  BY <2>1 DEF ShapedJob, Shaped
  <1>5. HealEnded(r) = q1 \/ HealEnded(r) = Ended(q)
    BY DEF HealEnded
  <1>. HIDE DEF q, q1
  <1>. QED  BY <1>3, <1>4, <1>5, EndedType

\* Scanning and healing a target keep the types.
LEMMA HealType ==
    ASSUME TypeOK, NEW j \in Jobs,
           \/ \E f \in Files : Scan(j, f) \/ Heal(j, f)
           \/ \E b \in Backends : Mend(j, b) \/ Fetch(j, b)
           \/ MendDone(j) \/ ScanDone(j) \/ HealDone(j)
           \/ GiveUp(j) \/ Patch(j) \/ Check(j)
    PROVE  TypeOK'
  <1> DEFINE r == job[j]
  <1>1. r \in ShapedJob /\ r \in Job /\ Shaped(r)
    BY JobType DEF ShapedJob
  <1>2. ASSUME NEW f \in Files, Scan(j, f)
        PROVE  TypeOK'
    <2>1. PICK sick \in SUBSET Files :
              Goes(j, [r EXCEPT !.todo = @ \ {f}, !.sick = sick])
      <3>1. (IF Healthy(r.at, r.id, f) THEN r.sick ELSE r.sick \cup {f}) \in SUBSET Files
        BY <1>1 DEF Job
      <3>. QED  BY <1>2, <3>1 DEF Scan
    <2>2. [r EXCEPT !.todo = @ \ {f}, !.sick = sick] \in ShapedJob
      <3>. HIDE DEF r
      <3>. QED  BY <1>1 DEF ShapedJob, Shaped, Job
    <2>. HIDE DEF r
    <2>. QED  BY <2>1, <2>2, GoesType
  <1>3. ASSUME NEW f \in Files, Heal(j, f)
        PROVE  TypeOK'
    <2>1. r.pc = "heal" /\ r.id \in Ids /\ r.at \in Backends
      BY <1>1, <1>3, HealShape DEF Heal, At
    <2> DEFINE q == [r EXCEPT !.pc = "fetch", !.sick = @ \ {f}, !.file = f,
                              !.sources = r.from]
    <2>2. q \in ShapedJob
      <3>. HIDE DEF r
      <3>. QED  BY <1>1, <2>1 DEF ShapedJob, Shaped, Job, Pcs
    <2>3. Goes(j, q)
      BY <1>3 DEF Heal
    <2>. HIDE DEF q
    <2>. QED  BY <2>2, <2>3, GoesType
  <1>4. ASSUME NEW b \in Backends, Mend(j, b)
        PROVE  TypeOK'
    <2> DEFINE q == [r EXCEPT !.queue = @ \ {b}]
               q1(x) == [q EXCEPT !.pc = "scan", !.id = x, !.at = b, !.from = {Primary},
                                  !.todo = entries[x], !.sick = {}]
    <2>1. r.pc = "mend" /\ ((\E x \in Latest(b) : Goes(j, q1(x))) \/ Goes(j, q))
      BY <1>4 DEF Mend, At
    <2>2. q \in Job /\ q.pc = "mend" /\ q \in ShapedJob
      <3>. HIDE DEF r
      <3>. QED  BY <1>1, <2>1 DEF ShapedJob, Shaped, Job
    <2>3. ASSUME NEW x \in Latest(b)
          PROVE  q1(x) \in ShapedJob
      <3>1. x \in Ids /\ x \in 0..MaxSnaps /\ entries[x] \in SUBSET Files
        BY ConfigAssumption DEF Latest, Newest, TypeOK, Ids
      <3> DEFINE todo == entries[x]
      <3>. HIDE DEF q, todo
      <3>. QED  BY ZenonT(40), <2>2, <3>1 DEF ShapedJob, Shaped, Job, Pcs, Backends, todo
    <2>. HIDE DEF q, q1
    <2>. QED  BY <2>1, <2>2, <2>3, GoesType
  <1>5. ASSUME NEW b \in Backends, Fetch(j, b)
        PROVE  TypeOK'
    <2>1. r.pc = "fetch" /\ r.id \in Ids /\ r.at \in Backends /\ r.file \in Files
      BY <1>1, <1>5, HealShape DEF Fetch, At
    <2> DEFINE q == [r EXCEPT !.sources = @ \ {b}]
               cell == data[b][q.id][q.file]
               q1 == [q EXCEPT !.pc = "patch", !.buf = cell]
    <2>3. /\ q \in Job /\ q.pc = "fetch" /\ q.id \in Ids /\ q.at \in Backends
          /\ q.file \in Files /\ q \in ShapedJob
      <3>. HIDE DEF r
      <3>. QED  BY <1>1, <2>1 DEF ShapedJob, Shaped, Job
    <2>2. cell \in Cell
      <3>. HIDE DEF q
      <3>. QED  BY <2>3 DEF TypeOK
    <2>4. q1 \in ShapedJob
      <3>. HIDE DEF q, cell
      <3>1. q1 \in Job
        BY <2>2, <2>3 DEF Job, Pcs
      <3>2. q1.pc = "patch" /\ q1.id = q.id /\ q1.at = q.at /\ q1.file = q.file
        BY <2>3 DEF Job
      <3>. HIDE DEF q1
      <3>. QED  BY <2>3, <3>1, <3>2 DEF ShapedJob, Shaped
    <2>5. Goes(j, q1) \/ Goes(j, q)
      BY <1>5 DEF Fetch
    <2>. HIDE DEF q, q1
    <2>. QED  BY <2>3, <2>4, <2>5, GoesType
  <1>6. CASE MendDone(j)
    BY <1>1, <1>6, EndedType, GoesType DEF MendDone
  <1>7. CASE ScanDone(j)
    <2>1. r.pc \in {"scan", "rescan"} /\ r.id \in Ids /\ r.at \in Backends
      BY <1>1, <1>7, HealShape DEF ScanDone
    <2> DEFINE todo == entries[r.id]
               q1 == [r EXCEPT !.pc = "rescan", !.todo = todo, !.sick = {},
                               !.healed = 0, !.missed = 0]
               q2 == [r EXCEPT !.pc = "heal"]
    <2>2. Goes(j, HealEnded(r)) \/ Goes(j, q1) \/ Goes(j, q2)
      BY <1>7 DEF ScanDone
    <2>3. todo \in SUBSET Files
      BY <2>1 DEF TypeOK
    <2>4. q1 \in ShapedJob
      <3>. HIDE DEF r, todo
      <3>1. q1 \in Job /\ q1.pc = "rescan" /\ q1.id = r.id /\ q1.at = r.at
        BY <1>1, <2>3 DEF Job, Pcs
      <3>. HIDE DEF q1
      <3>. QED  BY <2>1, <3>1 DEF ShapedJob, Shaped
    <2>5. q2 \in ShapedJob
      <3>. HIDE DEF r
      <3>1. q2 \in Job /\ q2.pc = "heal" /\ q2.id = r.id /\ q2.at = r.at
        BY <1>1 DEF Job, Pcs
      <3>. HIDE DEF q2
      <3>. QED  BY <2>1, <3>1 DEF ShapedJob, Shaped
    <2>. HIDE DEF r, q1, q2
    <2>. QED  BY <1>1, <2>1, <2>2, <2>4, <2>5, HealEndedType, GoesType
  <1>8. CASE HealDone(j)
    <2>1. r.pc = "heal" /\ Goes(j, HealEnded(r))
      BY <1>8 DEF HealDone, At
    <2>. HIDE DEF r
    <2>. QED  BY <1>1, <2>1, HealEndedType, GoesType
  <1>9. CASE GiveUp(j)
    <2> DEFINE q == [r EXCEPT !.pc = "heal", !.file = None, !.missed = @ + 1]
    <2>1. r.pc = "fetch" /\ r.id \in Ids /\ r.at \in Backends /\ Goes(j, q)
      BY <1>1, <1>9, HealShape DEF GiveUp, At
    <2>2. q \in ShapedJob
      <3>. HIDE DEF r
      <3>1. r.missed + 1 \in Nat
        BY <1>1 DEF Job
      <3>2. q \in Job
        BY <1>1, <3>1 DEF Job, Pcs
      <3>3. q.pc = "heal" /\ q.id = r.id /\ q.at = r.at
        BY <1>1 DEF Job
      <3>. HIDE DEF q
      <3>. QED  BY <2>1, <3>2, <3>3 DEF ShapedJob, Shaped
    <2>. HIDE DEF q
    <2>. QED  BY <2>1, <2>2, GoesType
  <1>10. CASE Patch(j)
    <2>1. r.pc = "patch" /\ r.id \in Ids /\ r.at \in Backends /\ r.file \in Files
      BY <1>1, <1>10, HealShape DEF Patch, At
    <2> DEFINE q1 == [r EXCEPT !.pc = "check", !.buf = "none"]
               q2 == [r EXCEPT !.pc = "fetch", !.buf = "none"]
    <2>2. q1 \in ShapedJob /\ q2 \in ShapedJob
      <3>. HIDE DEF r
      <3>. QED  BY <1>1, <2>1 DEF ShapedJob, Shaped, Job, Pcs, Cell
    <2>3. CASE r.at \in up
      <3>1. Becomes(j, q1) /\ has' = has
            /\ data' = [data EXCEPT ![r.at][r.id][r.file] = r.buf]
        BY <1>10, <2>3 DEF Patch
      <3>2. r.buf \in Cell
        BY <1>1 DEF Job
      <3>3. data' \in [Backends -> [Ids -> [Files -> Cell]]]
        BY <2>1, <3>1, <3>2 DEF TypeOK
      <3>4. crossed' \subseteq Ids
        BY <1>10, <2>1, <2>3, <3>1 DEF Patch, TypeOK
      <3>. HIDE DEF q1
      <3>. QED  BY <2>2, <3>1, <3>3, <3>4, BecomesType DEF TypeOK
    <2>4. CASE r.at \notin up
      <3>1. Goes(j, q2)
        BY <1>10, <2>4 DEF Patch
      <3>. HIDE DEF q1, q2
      <3>. QED  BY <2>2, <3>1, GoesType
    <2>. QED  BY <2>3, <2>4
  <1>11. CASE Check(j)
    <2>1. r.pc = "check" /\ r.id \in Ids /\ r.at \in Backends /\ r.file \in Files
      BY <1>1, <1>11, HealShape DEF Check, At
    <2> DEFINE q1 == [r EXCEPT !.pc = "heal", !.file = None, !.sources = {},
                               !.healed = @ + 1]
               q2 == [r EXCEPT !.pc = "fetch"]
    <2>2. Goes(j, q1) \/ Goes(j, q2)
      BY <1>11 DEF Check
    <2>3. q1 \in ShapedJob /\ q2 \in ShapedJob
      <3>. HIDE DEF r
      <3>1. r.healed + 1 \in Nat
        BY <1>1 DEF Job
      <3>2. q1 \in Job /\ q2 \in Job
        BY <1>1, <3>1 DEF Job, Pcs
      <3>3. /\ q1.pc = "heal" /\ q1.id = r.id /\ q1.at = r.at
            /\ q2.pc = "fetch" /\ q2.id = r.id /\ q2.at = r.at /\ q2.file = r.file
        BY <1>1 DEF Job
      <3>. HIDE DEF q1, q2
      <3>. QED  BY <2>1, <3>2, <3>3 DEF ShapedJob, Shaped
    <2>. HIDE DEF q1, q2
    <2>. QED  BY <2>2, <2>3, GoesType
  <1>. QED  BY <1>2, <1>3, <1>4, <1>5, <1>6, <1>7, <1>8, <1>9, <1>10, <1>11

\* New snapshots and faults keep the types.
LEMMA WorldType ==
    ASSUME TypeOK, World
    PROVE  TypeOK'
  <1>1. ASSUME Disturb
        PROVE  job' \in [Jobs -> ShapedJob]
    <2>1. \A j \in Jobs : [job[j] EXCEPT !.calm = FALSE] \in ShapedJob
      <3>. SUFFICES ASSUME NEW r \in Job, Shaped(r)
                    PROVE  [r EXCEPT !.calm = FALSE] \in ShapedJob
        BY JobType
      <3>. QED  BY DEF ShapedJob, Shaped, Job
    <2>. QED  BY <1>1, <2>1 DEF Disturb
  <1>2. ASSUME NEW k, Fault(k)
        PROVE  faults' \in 0..MaxFaults /\ UNCHANGED <<entries, taken, crossed>>
    BY <1>2, ConfigAssumption DEF Fault, TypeOK
  <1>3. ASSUME NEW S \in SUBSET Files, Snap(S)
        PROVE  TypeOK'
    <2>1. taken' \in 0..MaxSnaps /\ taken + 1 \in Ids
      BY <1>3, ConfigAssumption DEF Snap, TypeOK, Ids
    <2>2. entries' \in [Ids -> SUBSET Files]
      BY <1>3, <2>1 DEF Snap, TypeOK
    <2>3. has' \in [Backends -> SUBSET Ids]
      BY <1>3, <2>1 DEF Snap, TypeOK
    <2>4. data' \in [Backends -> [Ids -> [Files -> Cell]]]
      BY <1>3, <2>1 DEF Snap, TypeOK, Cell
    <2>. QED  BY <1>3, <2>1, <2>2, <2>3, <2>4 DEF Snap, TypeOK
  <1>4. ASSUME NEW b \in Backends, Outage(b) \/ Return(b)
        PROVE  TypeOK'
    <2>1. CASE Outage(b)
      BY <1>1, <1>2, <2>1 DEF Outage, TypeOK, ShapedJob
    <2>2. CASE Return(b)
      BY <2>2 DEF Return, TypeOK
    <2>. QED  BY <1>4, <2>1, <2>2
  <1>5. ASSUME NEW b \in Backends, NEW x \in Ids, Remove(b, x)
        PROVE  TypeOK'
    <2>1. has' \in [Backends -> SUBSET Ids]
      BY <1>5 DEF Remove, TypeOK
    <2>2. data' \in [Backends -> [Ids -> [Files -> Cell]]]
      BY <1>5 DEF Remove, TypeOK, Cell
    <2>. QED  BY <1>1, <1>2, <1>5, <2>1, <2>2 DEF Remove, TypeOK, ShapedJob
  <1>6. ASSUME NEW b \in Backends, NEW x \in Ids, NEW f \in Files,
               Rot(b, x, f) \/ Lose(b, x, f)
        PROVE  TypeOK'
    <2>1. data' \in [Backends -> [Ids -> [Files -> Cell]]]
      <3>1. PICK c \in Cell : data' = [data EXCEPT ![b][x][f] = c]
        BY <1>6 DEF Rot, Lose, Cell
      <3>. QED  BY <3>1 DEF TypeOK
    <2>2. Disturb /\ UNCHANGED <<has, up>>
      BY <1>6 DEF Rot, Lose
    <2>3. Fault("rot") \/ Fault("lose")
      BY <1>6 DEF Rot, Lose
    <2>. QED  BY <1>1, <1>2, <2>1, <2>2, <2>3 DEF TypeOK, ShapedJob
  <1>7. ASSUME NEW j \in Jobs, Crash(j)
        PROVE  TypeOK'
    BY <1>2, <1>7, FreeType DEF Crash, TypeOK, ShapedJob
  <1>. QED  BY <1>3, <1>4, <1>5, <1>6, <1>7 DEF World

\* Backends, jobs and reports only ever hold values of their declared kinds.
THEOREM TypeCorrect == Spec => []TypeOK
  <1>1. Init => TypeOK
    BY FreeType, ConfigAssumption DEF Init, TypeOK, ShapedJob, Cell
  <1>2. TypeOK /\ [Next]_vars => TypeOK'
    <2>. SUFFICES ASSUME TypeOK, [Next]_vars PROVE TypeOK'
      OBVIOUS
    <2>1. CASE World
      BY <2>1, WorldType
    <2>2. ASSUME NEW j \in Jobs, Start(j) \/ Step(j)
          PROVE  TypeOK'
      BY <2>2, StartType, PolicyType, CopyType, HealType DEF Step
    <2>3. CASE UNCHANGED vars
      BY <2>3 DEF vars, TypeOK
    <2>. QED  BY <2>1, <2>2, <2>3 DEF Next
  <1>. QED  BY <1>1, <1>2, PTL DEF Spec

-----------------------------------------------------------------------------
(* Healing writes good data only, and no more files than allowed.          *)

\* A job about to patch a file holds data that matched the checksum, and a heal
\* that works on a file has not reached its limit.
PatchHoldsGood(r) == r.pc = "patch" => r.buf = "good"
WithinLimit(r) ==
    r.command = "heal" /\ MaxHeals > 0 =>
        /\ r.healed <= MaxHeals
        /\ r.pc \in {"fetch", "patch", "check"} => r.healed < MaxHeals
Fit(r) == PatchHoldsGood(r) /\ WithinLimit(r)

HealInv == \A j \in Jobs : Fit(job[j])

\* A step that gives one job a record that fits keeps the invariant.
LEMMA BecomesFit ==
    ASSUME TypeOK, HealInv, NEW j \in Jobs, NEW r, Fit(r), Becomes(j, r)
    PROVE  HealInv'
  BY DEF Becomes, HealInv, TypeOK

\* Outside the healing of a file, a record that keeps its command and its count fits.
LEMMA QuietFit ==
    ASSUME NEW r \in Job, Fit(r), NEW q, q.command = r.command, q.healed = r.healed,
           q.pc \notin {"fetch", "patch", "check"}
    PROVE  Fit(q)
  BY DEF Fit, PatchHoldsGood, WithinLimit

\* The ways a job leaves a target or ends keep a record fit.
LEMMA LeaveFit ==
    ASSUME NEW r \in Job, Fit(r)
    PROVE  /\ Fit(Ended(r)) /\ Fit(Mending(r)) /\ Fit(Failed(r)) /\ Fit(Copied(r))
           /\ Fit(HealEnded(r))
  <1>1. /\ Ended(r).command = r.command /\ Ended(r).healed = r.healed
        /\ Ended(r).pc = "idle"
    BY DEF Ended, Job
  <1>2. /\ Mending(r).command = r.command /\ Mending(r).healed = r.healed
        /\ Mending(r).pc = "mend"
    BY DEF Mending, Ended, Job
  <1>3. /\ Copied(r).command = r.command /\ Copied(r).healed = r.healed
        /\ Copied(r).pc \in {"replicate", "remedy"}
    BY DEF Copied, Back, Job
  <1>4. /\ Failed(r).command = r.command /\ Failed(r).healed = r.healed
        /\ Failed(r).pc \in {"idle", "replicate", "remedy"}
    BY <1>1 DEF Failed, Back, Job
  <1>5. /\ HealEnded(r).command = r.command /\ HealEnded(r).healed = r.healed
        /\ HealEnded(r).pc \in {"idle", "mend"}
    BY DEF HealEnded, Ended, Job
  <1>. QED  BY <1>1, <1>2, <1>3, <1>4, <1>5, QuietFit

\* Steps outside the healing of a file keep the invariant.
LEMMA QuietInv ==
    ASSUME TypeOK, HealInv, NEW j \in Jobs,
           \/ \E b \in Backends : Assess(j, b) \/ Remedy(j, b) \/ Replicate(j, b)
                                  \/ Mend(j, b)
           \/ \E f \in Files : Read(j, f) \/ Scan(j, f)
           \/ Judge(j) \/ Pick(j) \/ RemedyDone(j) \/ ReplicateDone(j)
           \/ StoreMeta(j) \/ Write(j) \/ CopyDone(j) \/ VerifyDone(j)
           \/ MendDone(j) \/ HealDone(j)
    PROVE  HealInv'
  <1> DEFINE r == job[j]
  <1>1. r \in Job /\ Fit(r)
    BY JobType DEF HealInv
  <1> DEFINE Stays(q) == /\ q.command = r.command /\ q.healed = r.healed
                         /\ q.pc \notin {"fetch", "patch", "check"}
  <1>2. ASSUME NEW q, Becomes(j, q), Stays(q)
        PROVE  HealInv'
    BY <1>1, <1>2, QuietFit, BecomesFit
  <1>3. ASSUME NEW q \in {Ended(r), Mending(r), Failed(r), Copied(r), HealEnded(r)},
               Becomes(j, q)
        PROVE  HealInv'
    BY <1>1, <1>3, LeaveFit, BecomesFit
  <1>4. ASSUME NEW b \in Backends, Assess(j, b)
        PROVE  HealInv'
    <2>1. PICK seen : Becomes(j, [r EXCEPT !.queue = @ \ {b}, !.seen = seen])
      BY <1>4 DEF Assess, Goes
    <2>2. r.pc = "assess"
      BY <1>4 DEF Assess, At
    <2>3. Stays([r EXCEPT !.queue = @ \ {b}, !.seen = seen])
      <3>. HIDE DEF r
      <3>. QED  BY <1>1, <2>2 DEF Job
    <2>. HIDE DEF r
    <2>. QED  BY <1>2, <2>1, <2>3
  <1>5. ASSUME NEW b \in Backends, Remedy(j, b) \/ Replicate(j, b)
        PROVE  HealInv'
    <2> DEFINE q == [r EXCEPT !.queue = @ \ {b}]
               q1 == [q EXCEPT !.existing = @ \cup {b}]
               q2 == [q EXCEPT !.pc = "store", !.at = b]
    <2>1. r.pc \in {"remedy", "replicate"}
      BY <1>5 DEF Remedy, Replicate, At
    <2>2. Stays(q) /\ Stays(q1) /\ Stays(q2)
      <3>. HIDE DEF r
      <3>. QED  BY <1>1, <2>1 DEF Job
    <2>3. Becomes(j, q) \/ Becomes(j, q1) \/ Becomes(j, q2)
      BY <1>5 DEF Remedy, Replicate, Goes
    <2>. HIDE DEF q, q1, q2, r
    <2>. QED  BY <1>2, <2>2, <2>3
  <1>6. ASSUME NEW b \in Backends, Mend(j, b)
        PROVE  HealInv'
    <2> DEFINE q == [r EXCEPT !.queue = @ \ {b}]
               q1(x) == [q EXCEPT !.pc = "scan", !.id = x, !.at = b, !.from = {Primary},
                                  !.todo = entries[x], !.sick = {}]
    <2>1. r.pc = "mend" /\ ((\E x \in Latest(b) : Becomes(j, q1(x))) \/ Becomes(j, q))
      BY <1>6 DEF Mend, At, Goes
    <2>2. Stays(q) /\ \A x : Stays(q1(x))
      <3>. HIDE DEF r
      <3>. QED  BY <1>1, <2>1 DEF Job
    <2>. HIDE DEF q, q1, r
    <2>. QED  BY <1>2, <2>1, <2>2
  <1>7. ASSUME NEW f \in Files, Read(j, f)
        PROVE  HealInv'
    <2> DEFINE q == [r EXCEPT !.todo = @ \ {f}]
               q1 == [q EXCEPT !.pc = "write", !.file = f, !.buf = data[Primary][r.id][f]]
    <2>1. r.pc = "read" /\ (Becomes(j, q1) \/ Becomes(j, q) \/ Becomes(j, Failed(r)))
      BY <1>7 DEF Read, At, Goes
    <2>2. Stays(q) /\ Stays(q1)
      <3>. HIDE DEF r
      <3>. QED  BY <1>1, <2>1 DEF Job
    <2>. HIDE DEF q, q1, r
    <2>. QED  BY <1>2, <1>3, <2>1, <2>2
  <1>8. ASSUME NEW f \in Files, Scan(j, f)
        PROVE  HealInv'
    <2>1. PICK sick : Becomes(j, [r EXCEPT !.todo = @ \ {f}, !.sick = sick])
      BY <1>8 DEF Scan, Goes
    <2>2. r.pc \in {"verify", "scan", "rescan"}
      BY <1>8 DEF Scan
    <2>3. Stays([r EXCEPT !.todo = @ \ {f}, !.sick = sick])
      <3>. HIDE DEF r
      <3>. QED  BY <1>1, <2>2 DEF Job
    <2>. HIDE DEF r
    <2>. QED  BY <1>2, <2>1, <2>3
  <1>9. CASE Judge(j)
    <2> DEFINE ok == Compliant(r.seen)
               reported == [r EXCEPT !.healthy = ok]
               again(q) == [q EXCEPT !.again = TRUE, !.queue = Backends, !.seen = {}]
               pick == [r EXCEPT !.pc = "pick", !.seen = {}]
    <2>1. r.pc = "assess"
      BY <1>9 DEF Judge, At
    <2>2. \/ Becomes(j, again(reported)) \/ Becomes(j, pick)
          \/ Becomes(j, Mending(reported)) \/ Becomes(j, Mending(r)) \/ Becomes(j, Ended(r))
      <3>. HIDE DEF ok
      <3>1. CASE r.command = "maintain" /\ ~r.again
        BY <1>9, <3>1 DEF Judge, Goes, ok
      <3>2. CASE ~(r.command = "maintain" /\ ~r.again)
        BY <1>9, <3>2 DEF Judge, Goes, ok
      <3>. QED  BY <3>1, <3>2
    <2>3. Stays(again(reported)) /\ Stays(pick)
      <3>. HIDE DEF ok, r
      <3>. QED  BY <1>1, <2>1 DEF Job
    <2>4. Stays(Mending(reported))
      <3>1. reported \in Job
        <4>1. ok \in BOOLEAN
          BY DEF Compliant
        <4>. HIDE DEF ok, r
        <4>. QED  BY <1>1, <4>1 DEF Job
      <3>2. reported.command = r.command /\ reported.healed = r.healed
        <4>. HIDE DEF ok, r
        <4>. QED  BY <1>1 DEF Job
      <3>. HIDE DEF reported, r
      <3>. QED  BY <3>1, <3>2 DEF Mending, Ended, Job
    <2>. HIDE DEF r, reported, pick, again
    <2>. QED  BY <1>2, <1>3, <2>2, <2>3, <2>4
  <1>10. CASE Pick(j)
    <2>1. ASSUME NEW x, Becomes(j, [r EXCEPT !.pc = "remedy", !.id = x, !.queue = Replicas])
          PROVE  HealInv'
      <3>1. Stays([r EXCEPT !.pc = "remedy", !.id = x, !.queue = Replicas])
        <4>. HIDE DEF r
        <4>. QED  BY <1>1 DEF Job
      <3>. HIDE DEF r
      <3>. QED  BY <1>2, <2>1, <3>1
    <2>. QED  BY <1>3, <1>10, <2>1 DEF Pick, Goes
  <1>11. CASE RemedyDone(j) \/ ReplicateDone(j) \/ MendDone(j) \/ HealDone(j) \/ VerifyDone(j)
    BY <1>3, <1>11 DEF RemedyDone, ReplicateDone, MendDone, HealDone, VerifyDone, Goes
  <1>12. CASE StoreMeta(j) \/ Write(j) \/ CopyDone(j)
    <2> DEFINE todo == entries[r.id]
               q1 == [r EXCEPT !.pc = "read", !.todo = todo]
               q2 == [r EXCEPT !.pc = "read", !.file = None, !.buf = "none"]
               q3 == [r EXCEPT !.pc = "verify", !.todo = todo]
    <2>1. \/ Becomes(j, q1) \/ Becomes(j, q2) \/ Becomes(j, q3)
          \/ Becomes(j, Failed(r)) \/ Becomes(j, Copied(r))
      BY <1>12 DEF StoreMeta, Write, CopyDone, Goes
    <2>2. Stays(q1) /\ Stays(q2) /\ Stays(q3)
      <3>. HIDE DEF r, todo
      <3>. QED  BY <1>1 DEF Job
    <2>. HIDE DEF q1, q2, q3, r
    <2>. QED  BY <1>2, <1>3, <2>1, <2>2
  <1>. QED  BY <1>4, <1>5, <1>6, <1>7, <1>8, <1>9, <1>10, <1>11, <1>12

\* The steps that heal a file keep the invariant.
LEMMA HealingInv ==
    ASSUME TypeOK, HealInv, NEW j \in Jobs,
           \/ \E f \in Files : Heal(j, f)
           \/ \E b \in Backends : Fetch(j, b)
           \/ ScanDone(j) \/ GiveUp(j) \/ Patch(j) \/ Check(j)
    PROVE  HealInv'
  <1> DEFINE r == job[j]
  <1>1. r \in Job /\ Fit(r)
    BY JobType DEF HealInv
  <1>2. /\ r.healed \in Nat /\ MaxHeals \in Nat
        /\ r.command = "heal" /\ MaxHeals > 0 => r.healed <= MaxHeals
        /\ r.command = "heal" /\ MaxHeals > 0 /\ r.pc \in {"fetch", "patch", "check"}
               => r.healed < MaxHeals
    BY <1>1, ConfigAssumption DEF Job, Fit, WithinLimit
  <1>3. ASSUME NEW f \in Files, Heal(j, f)
        PROVE  HealInv'
    <2> DEFINE q == [r EXCEPT !.pc = "fetch", !.sick = @ \ {f}, !.file = f,
                              !.sources = r.from]
    <2>1. Becomes(j, q)
      BY <1>3 DEF Heal, Goes
    <2>2. r.command = "heal" /\ MaxHeals > 0 => r.healed < MaxHeals
      <3>1. ~Limited(r)
        BY <1>3 DEF Heal
      <3>. QED  BY <1>2, <3>1 DEF Limited
    <2>3. Fit(q)
      <3>. HIDE DEF r
      <3>. QED  BY <1>1, <1>2, <2>2 DEF Job, Fit, PatchHoldsGood, WithinLimit
    <2>. HIDE DEF q
    <2>. QED  BY <2>1, <2>3, BecomesFit
  <1>4. ASSUME NEW b \in Backends, Fetch(j, b)
        PROVE  HealInv'
    <2> DEFINE q == [r EXCEPT !.sources = @ \ {b}]
               cell == data[b][q.id][q.file]
               q1 == [q EXCEPT !.pc = "patch", !.buf = cell]
    <2>1. r.pc = "fetch"
      BY <1>4 DEF Fetch, At
    <2>2. (Becomes(j, q1) /\ cell = "good") \/ Becomes(j, q)
      BY <1>4 DEF Fetch, Goes, Healthy
    <2>3. q \in Job /\ q.pc = "fetch" /\ q.command = r.command /\ q.healed = r.healed
      <3>. HIDE DEF r
      <3>. QED  BY <1>1, <2>1 DEF Job
    <2>4. Fit(q) /\ (cell = "good" => Fit(q1))
      <3>. HIDE DEF q, cell, r
      <3>. QED  BY <1>2, <2>1, <2>3 DEF Job, Fit, PatchHoldsGood, WithinLimit
    <2>. HIDE DEF q, q1, cell
    <2>. QED  BY <2>2, <2>4, BecomesFit
  <1>5. CASE ScanDone(j)
    <2> DEFINE todo == entries[r.id]
               q1 == [r EXCEPT !.pc = "rescan", !.todo = todo, !.sick = {},
                               !.healed = 0, !.missed = 0]
               q2 == [r EXCEPT !.pc = "heal"]
    <2>1. Becomes(j, HealEnded(r)) \/ Becomes(j, q1) \/ Becomes(j, q2)
      BY <1>5 DEF ScanDone, Goes
    <2>2. Fit(q1) /\ Fit(q2)
      <3>. HIDE DEF r, todo
      <3>. QED  BY <1>1, <1>2 DEF Job, Fit, PatchHoldsGood, WithinLimit
    <2>. HIDE DEF q1, q2, r
    <2>. QED  BY <1>1, <2>1, <2>2, LeaveFit, BecomesFit
  <1>6. CASE GiveUp(j)
    <2> DEFINE q == [r EXCEPT !.pc = "heal", !.file = None, !.missed = @ + 1]
    <2>1. Becomes(j, q)
      BY <1>6 DEF GiveUp, Goes
    <2>2. Fit(q)
      <3>. HIDE DEF r
      <3>. QED  BY <1>1, <1>2 DEF Job, Fit, PatchHoldsGood, WithinLimit
    <2>. HIDE DEF q
    <2>. QED  BY <2>1, <2>2, BecomesFit
  <1>7. CASE Patch(j)
    <2> DEFINE q1 == [r EXCEPT !.pc = "check", !.buf = "none"]
               q2 == [r EXCEPT !.pc = "fetch", !.buf = "none"]
    <2>1. r.pc = "patch" /\ (Becomes(j, q1) \/ Becomes(j, q2))
      BY <1>7 DEF Patch, At, Goes
    <2>2. Fit(q1) /\ Fit(q2)
      <3>. HIDE DEF r
      <3>. QED  BY <1>1, <1>2, <2>1 DEF Job, Fit, PatchHoldsGood, WithinLimit
    <2>. HIDE DEF q1, q2
    <2>. QED  BY <2>1, <2>2, BecomesFit
  <1>8. CASE Check(j)
    <2> DEFINE q1 == [r EXCEPT !.pc = "heal", !.file = None, !.sources = {},
                               !.healed = @ + 1]
               q2 == [r EXCEPT !.pc = "fetch"]
    <2>1. r.pc = "check" /\ (Becomes(j, q1) \/ Becomes(j, q2))
      BY <1>8 DEF Check, At, Goes
    <2>2. Fit(q1) /\ Fit(q2)
      <3>. HIDE DEF r
      <3>. QED  BY <1>1, <1>2, <2>1 DEF Job, Fit, PatchHoldsGood, WithinLimit
    <2>. HIDE DEF q1, q2
    <2>. QED  BY <2>1, <2>2, BecomesFit
  <1>. QED  BY <1>3, <1>4, <1>5, <1>6, <1>7, <1>8

\* The start of a command, and the world's steps, keep the invariant.
LEMMA FreshInv ==
    ASSUME TypeOK, HealInv, World \/ \E j \in Jobs : Start(j)
    PROVE  HealInv'
  <1>1. ASSUME NEW q, q.pc \in {"idle", "assess", "replicate", "rescan"}, q.healed = 0
        PROVE  Fit(q)
    BY <1>1, ConfigAssumption DEF Fit, PatchHoldsGood, WithinLimit
  <1>2. ASSUME NEW j \in Jobs, Start(j)
        PROVE  HealInv'
    <2> DEFINE replicate(x) == [Free EXCEPT !.command = "replicate", !.pc = "replicate",
                                            !.id = x, !.queue = Replicas,
                                            !.calm = Calm]
               maintain(c) == [Free EXCEPT !.command = c, !.pc = "assess",
                                           !.queue = Backends, !.calm = Calm]
               heal(x, t, S, D) == [Free EXCEPT !.command = "heal", !.pc = "rescan",
                                                !.id = x, !.at = t, !.from = S, !.todo = D,
                                                !.calm = Calm]
    <2>0. /\ \A x : replicate(x).pc = "replicate" /\ replicate(x).healed = 0
          /\ \A c : maintain(c).pc = "assess" /\ maintain(c).healed = 0
          /\ \A x, t, S, D : heal(x, t, S, D).pc = "rescan" /\ heal(x, t, S, D).healed = 0
      BY DEF Free
    <2>1. \/ \E x : Becomes(j, replicate(x))
          \/ \E c : Becomes(j, maintain(c))
          \/ \E x, t, S, D : Becomes(j, heal(x, t, S, D))
      <3>1. StartReplicate(j) => \E x : Becomes(j, replicate(x))
        BY DEF StartReplicate, Goes
      <3>2. \A c : StartMaintain(j, c) => Becomes(j, maintain(c))
        BY DEF StartMaintain, Goes
      <3>3. ASSUME NEW t, NEW S, StartHeal(j, t, S)
            PROVE  \E x : Becomes(j, heal(x, t, S, entries[x]))
        BY <3>3 DEF StartHeal, Goes
      <3>. HIDE DEF replicate, maintain, heal
      <3>. QED  BY <1>2, <3>1, <3>2, <3>3 DEF Start
    <2>. HIDE DEF replicate, maintain, heal
    <2>. QED  BY <1>1, <2>0, <2>1, BecomesFit
  <1>3. ASSUME Disturb
        PROVE  HealInv'
    <2>1. ASSUME NEW r \in Job, Fit(r)
          PROVE  Fit([r EXCEPT !.calm = FALSE])
      BY <2>1 DEF Job, Fit, PatchHoldsGood, WithinLimit
    <2>2. \A j \in Jobs : job'[j] = [job[j] EXCEPT !.calm = FALSE]
      BY <1>3 DEF Disturb
    <2>. QED  BY <2>1, <2>2, JobType DEF HealInv
  <1>4. ASSUME NEW j \in Jobs, Crash(j)
        PROVE  HealInv'
    <2>1. Fit(Free)
      BY <1>1 DEF Free
    <2>. QED  BY <1>4, <2>1 DEF Crash, HealInv, TypeOK
  <1>5. ASSUME UNCHANGED job
        PROVE  HealInv'
    BY <1>5 DEF HealInv
  <1>6. World => Disturb \/ UNCHANGED job \/ \E j \in Jobs : Crash(j)
    BY DEF World, Snap, Outage, Return, Remove, Rot, Lose
  <1>. QED  BY <1>2, <1>3, <1>4, <1>5, <1>6

\* The invariant holds in every reachable state.
LEMMA HealInvariant == Spec => [](TypeOK /\ HealInv)
  <1>1. Init => HealInv
    BY ConfigAssumption DEF Init, HealInv, Fit, PatchHoldsGood, WithinLimit, Free
  <1>2. TypeOK /\ HealInv /\ [Next]_vars => HealInv'
    <2>. SUFFICES ASSUME TypeOK, HealInv, [Next]_vars PROVE HealInv'
      OBVIOUS
    <2>1. CASE World \/ \E j \in Jobs : Start(j)
      BY <2>1, FreshInv
    <2>2. ASSUME NEW j \in Jobs, Step(j)
          PROVE  HealInv'
      BY <2>2, QuietInv, HealingInv DEF Step
    <2>3. CASE UNCHANGED vars
      BY <2>3 DEF vars, HealInv
    <2>. QED  BY <2>1, <2>2, <2>3 DEF Next
  <1>. QED  BY <1>1, <1>2, TypeCorrect, PTL DEF Spec

\* No heal repairs more files in one run than max_heals_per_run allows, whatever
\* the interleaving of jobs and faults (healing.rs, heal).
THEOREM HealsLimited == Spec => []HealLimit
  <1>1. HealInv => HealLimit
    BY DEF HealInv, Fit, WithinLimit, HealLimit
  <1>. QED  BY <1>1, HealInvariant, PTL

\* What healing writes to a backend matched the checksum, although the source may
\* rot or go away between its scan and the write (healing.rs, heal).
THEOREM HealsWriteGood == Spec => HealsWithGoodData
  <1> DEFINE Writes == \A j \in Jobs : At(j, "patch") /\ job'[j].pc = "check" =>
                           data'[job[j].at][job[j].id][job[j].file] = "good"
  <1>1. TypeOK /\ HealInv /\ [Next]_vars => [Writes]_vars
    <2>. SUFFICES ASSUME TypeOK, HealInv, Next, NEW j \in Jobs,
                         At(j, "patch"), job'[j].pc = "check"
                  PROVE  data'[job[j].at][job[j].id][job[j].file] = "good"
      OBVIOUS
    <2>1. PICK i \in Jobs : Start(i) \/ Step(i)
      <3>1. ~Disturb
        BY JobType DEF Disturb, Job, At
      <3>2. \A i \in Jobs : ~Crash(i)
        BY DEF Crash, TypeOK, At, Free
      <3>. QED  BY <3>1, <3>2 DEF Next, World, Snap, Outage, Return, Remove, Rot, Lose, At
    <2>2. i = j
      <3>1. \E q : Becomes(i, q)
        BY <2>1 DEF Start, StartReplicate, StartMaintain, StartHeal, Step, Assess, Remedy,
                    Replicate, Mend, Fetch, Read, Scan, Heal, Judge, Pick, RemedyDone,
                    ReplicateDone, StoreMeta, Write, CopyDone, VerifyDone, MendDone,
                    ScanDone, HealDone, GiveUp, Patch, Check, Goes
      <3>. QED  BY <3>1 DEF Becomes, TypeOK, At
    <2>3. Patch(j)
      BY <2>1, <2>2 DEF Start, StartReplicate, StartMaintain, StartHeal, Step, Assess,
                    Remedy, Replicate, Mend, Fetch, Read, Scan, Heal, Judge, Pick,
                    RemedyDone, ReplicateDone, StoreMeta, Write, CopyDone, VerifyDone,
                    MendDone, ScanDone, HealDone, GiveUp, Check, At
    <2>4. job[j].id \in Ids /\ job[j].at \in Backends /\ job[j].file \in Files
      BY JobType DEF Shaped, At
    <2>5. job[j].buf = "good"
      BY DEF HealInv, Fit, PatchHoldsGood, At
    <2>6. job'[j] # [job[j] EXCEPT !.pc = "fetch", !.buf = "none"]
      BY JobType DEF Job
    <2>7. data' = [data EXCEPT ![job[j].at][job[j].id][job[j].file] = job[j].buf]
      BY <2>3, <2>6 DEF Patch, Goes, Becomes, TypeOK
    <2>. QED  BY <2>4, <2>5, <2>7 DEF TypeOK
  <1>. QED  BY <1>1, HealInvariant, PTL DEF Spec, HealsWithGoodData


-----------------------------------------------------------------------------
(* What an undisturbed command knows of the backends.                      *)

\* A command whose report nothing has spoiled: no fault has hit since it began.
Undisturbed(r) == r.calm /\ r.command # None

\* Where the undisturbed command is, its process, its kind and its snapshot say so.
Healing == {"scan", "rescan", "heal", "fetch", "patch", "check"}
Choosing == {"assess", "pick", "remedy"}
Copying == {"replicate", "store", "read", "write", "verify"}
Placed(r) ==
    /\ r.pc # "idle" => r.command # None
    /\ r.pc \in {"replicate", "verify"} => r.command = "replicate"
    /\ r.pc \in Choosing \cup Healing \cup {"mend"} => r.command # "replicate"
    /\ r.pc \in Choosing \cup Copying => r.mended = {}
    /\ r.id <= taken /\ (r.command = "replicate" => r.id # 0)

\* Backends hold only snapshots that were taken, and no file of a later one.
KnownInv ==
    \A b \in Backends :
        /\ has[b] \subseteq 1..taken
        /\ \A x \in Ids : x > taken => \A f \in Files : data[b][x][f] = "none"

PlacedInv == \A j \in Jobs : Placed(job[j])

\* While one command is undisturbed, so is every other that runs, and no backend is out.
CalmInv ==
    \A j \in Jobs : Undisturbed(job[j]) =>
        up = Backends /\ \A k \in Jobs : At(k, "idle") \/ job[k].calm

BaseInv == KnownInv /\ PlacedInv /\ CalmInv

\* The target has of a file what the primary has of it.
Mirrors(r, f) == data[r.at][r.id][f] = data[Primary][r.id][f]

\* What a command that copies or heals from the primary alone has of it.
FromPrimary(r) ==
    /\ r.pc = "write" => r.buf = data[Primary][r.id][r.file]
    /\ r.pc = "patch" => data[Primary][r.id][r.file] = "good"
    /\ r.pc \in Healing => r.from = {Primary}
    /\ r.pc \in {"fetch", "patch", "check"} => r.sources \subseteq {Primary}

\* What a replication has copied, verified, and reported as fresh.
CopyFit(r) ==
    r.command = "replicate" =>
        /\ r.pc = "read" => \A f \in entries[r.id] \ r.todo : Mirrors(r, f)
        /\ r.pc = "write" => \A f \in entries[r.id] \ (r.todo \cup {r.file}) : Mirrors(r, f)
        /\ r.pc = "verify" =>
               /\ \A f \in entries[r.id] : Mirrors(r, f)
               /\ \A f \in entries[r.id] \ (r.todo \cup r.sick) :
                      data[Primary][r.id][f] = "good"
        /\ VerifyAfter => \A t \in r.fresh : \A f \in entries[r.id] :
               data[t][r.id][f] = "good" /\ data[Primary][r.id][f] = "good"

CopyInv == \A j \in Jobs : Undisturbed(job[j]) => FromPrimary(job[j]) /\ CopyFit(job[j])

\* Nothing on the target is better than what the primary has of it.
Backed(r) ==
    r.pc \in {"store", "read", "write"} =>
        \A f \in Files : data[r.at][r.id][f] = "good" => data[Primary][r.id][f] = "good"

\* A backend has no file of a snapshot that it does not hold.
HeldInv ==
    /\ \A b \in Backends, x \in Ids : x \notin has[b] => \A f \in Files : data[b][x][f] = "none"
    /\ \A j \in Jobs : job[j].pc \in {"read", "write", "verify"} \cup Healing =>
           job[j].id \in has[job[j].at]
BackedInv == \A j \in Jobs : Undisturbed(job[j]) => Backed(job[j])

\* The target has a file if the primary has it.
Mended(t, x, f) == data[Primary][x][f] = "good" => data[t][x][f] = "good"
Sound(t) == \A x \in Newest(has[t]) : \A f \in entries[x] : Mended(t, x, f)

MendFit(r) ==
    /\ r.pc \in Healing =>
           /\ r.from = {Primary}
           /\ r.at # Primary => \A x \in Newest(has[r.at]) : x = r.id
    /\ r.pc \in {"scan", "rescan"} =>
           \A f \in entries[r.id] \ (r.todo \cup r.sick) : Mended(r.at, r.id, f)
    /\ r.pc = "heal" => \A f \in entries[r.id] \ r.sick : Mended(r.at, r.id, f)
    /\ r.pc \in {"fetch", "patch", "check"} =>
           \A f \in entries[r.id] \ (r.sick \cup {r.file}) : Mended(r.at, r.id, f)
    /\ r.pc \in {"fetch", "patch", "check"} => r.sources \subseteq {Primary}
    /\ r.pc = "fetch" => Primary \in r.sources \/ data[Primary][r.id][r.file] # "good"
    /\ r.pc = "patch" => data[Primary][r.id][r.file] = "good"
    /\ r.pc = "check" => data[r.at][r.id][r.file] = "good"
    /\ \A t \in r.mended : Sound(t)

MendInv == \A j \in Jobs :
    Undisturbed(job[j]) /\ job[j].command = "maintain" => MendFit(job[j])

\* A step of one process leaves the other processes and the world alone.
LEMMA OneSteps ==
    ASSUME TypeOK, NEW j \in Jobs, Start(j) \/ Step(j)
    PROVE  UNCHANGED env /\ \A k \in Jobs \ {j} : job'[k] = job[k]
  <1>1. \E q : Becomes(j, q)
    BY DEF Start, StartReplicate, StartMaintain, StartHeal, Step, Assess, Remedy,
           Replicate, Mend, Fetch, Read, Scan, Heal, Judge, Pick, RemedyDone,
           ReplicateDone, StoreMeta, Write, CopyDone, VerifyDone, MendDone,
           ScanDone, HealDone, GiveUp, Patch, Check, Goes
  <1>. QED  BY <1>1 DEF Becomes, TypeOK

\* Where the ways to leave a target lead, and what they keep of the report.
Keeps(r, q) == q.command = r.command /\ q.calm = r.calm /\ q.id = r.id

LEMMA LeaveKeeps ==
    ASSUME NEW r \in Job
    PROVE  /\ Keeps(r, Ended(r)) /\ Ended(r).pc = "idle"
           /\ Ended(r).fresh = r.fresh /\ Ended(r).mended = r.mended
           /\ Keeps(r, Mending(r)) /\ Mending(r).pc = "mend"
           /\ Mending(r).fresh = r.fresh /\ Mending(r).mended = r.mended
           /\ Keeps(r, Copied(r))
           /\ Copied(r).pc = IF r.command = "replicate" THEN "replicate" ELSE "remedy"
           /\ Copied(r).fresh = r.fresh \cup {r.at} /\ Copied(r).mended = r.mended
           /\ Keeps(r, Failed(r))
           /\ Failed(r).pc = "idle" \/ Failed(r).pc = Copied(r).pc
           /\ Failed(r).fresh = r.fresh /\ Failed(r).mended = r.mended
           /\ Keeps(r, HealEnded(r))
           /\ HealEnded(r).pc = IF r.command = "heal" THEN "idle" ELSE "mend"
           /\ HealEnded(r).fresh = r.fresh /\ HealEnded(r).mended = r.mended \cup {r.at}
  <1>1. /\ Keeps(r, Ended(r)) /\ Ended(r).pc = "idle"
        /\ Ended(r).fresh = r.fresh /\ Ended(r).mended = r.mended
    BY DEF Ended, Job, Keeps
  <1>2. /\ Keeps(r, Mending(r)) /\ Mending(r).pc = "mend"
        /\ Mending(r).fresh = r.fresh /\ Mending(r).mended = r.mended
    BY DEF Mending, Ended, Job, Keeps
  <1>3. /\ Keeps(r, Copied(r))
        /\ Copied(r).pc = IF r.command = "replicate" THEN "replicate" ELSE "remedy"
        /\ Copied(r).fresh = r.fresh \cup {r.at} /\ Copied(r).mended = r.mended
    BY DEF Copied, Back, Job, Keeps
  <1>4. /\ Keeps(r, Failed(r))
        /\ Failed(r).pc = "idle" \/ Failed(r).pc = Copied(r).pc
        /\ Failed(r).fresh = r.fresh /\ Failed(r).mended = r.mended
    BY <1>1, <1>3 DEF Failed, Back, Job, Keeps
  <1>5. /\ Keeps(r, HealEnded(r))
        /\ HealEnded(r).pc = IF r.command = "heal" THEN "idle" ELSE "mend"
        /\ HealEnded(r).fresh = r.fresh /\ HealEnded(r).mended = r.mended \cup {r.at}
    BY DEF HealEnded, Ended, Job, Keeps
  <1>. QED  BY <1>1, <1>2, <1>3, <1>4, <1>5

\* Between two targets, and when it is over, a command has only its report to keep.
Rests == {"idle", "assess", "pick", "remedy", "replicate", "mend"}

LEMMA RestFits ==
    ASSUME NEW r \in Job, NEW n, n.command = r.command, n.pc \in Rests,
           n.id = r.id \/ r.command # "replicate"
    PROVE  /\ FromPrimary(n) /\ Backed(n)
           /\ CopyFit(r) /\ n.fresh = r.fresh => CopyFit(n)
           /\ MendFit(r) /\ n.mended = r.mended => MendFit(n)
  <1>1. FromPrimary(n) /\ Backed(n)
    BY DEF FromPrimary, Backed, Rests, Healing
  <1>2. CopyFit(r) /\ n.fresh = r.fresh => CopyFit(n)
    BY DEF CopyFit, Rests
  <1>3. MendFit(r) /\ n.mended = r.mended => MendFit(n)
    BY DEF MendFit, Rests, Healing
  <1>. QED  BY <1>1, <1>2, <1>3

\* A snapshot that a backend answers with is one it holds.
LEMMA LatestHeld ==
    ASSUME NEW b \in Backends
    PROVE  Latest(b) \subseteq has[b]
  BY DEF Latest, Newest

\* What the steps that change no backend make of a job.
Onward(r, n) ==
    /\ n.command = r.command /\ n.calm = r.calm
    /\ Placed(r) => Placed(n)
    /\ Placed(r) /\ FromPrimary(r) /\ CopyFit(r) => FromPrimary(n) /\ CopyFit(n)
    /\ up = Backends /\ r.command = "maintain" /\ Placed(r) /\ MendFit(r) => MendFit(n)

\* The policy's steps, whose jobs rest before and after them.
LEMMA PolicySteps ==
    ASSUME TypeOK, KnownInv, NEW j \in Jobs,
           \/ \E b \in Backends : Assess(j, b)
           \/ Judge(j) \/ Pick(j) \/ RemedyDone(j) \/ ReplicateDone(j) \/ MendDone(j),
           NEW n, n = job'[j]
    PROVE  UNCHANGED store /\ Onward(job[j], n) /\ Backed(n) /\ n.pc \in Rests
  <1> DEFINE r == job[j]
  <1>1. r \in ShapedJob /\ r \in Job
    BY JobType DEF ShapedJob
  <1> DEFINE Stays(q) == /\ q.command = r.command /\ q.calm = r.calm /\ q.id = r.id
                         /\ q.fresh = r.fresh /\ q.mended = r.mended
  <1>2. ASSUME NEW q, Goes(j, q), Stays(q), q.pc \in Rests, Placed(r) => Placed(q)
        PROVE  UNCHANGED store /\ Onward(job[j], n) /\ Backed(n) /\ n.pc \in Rests
    <2>1. n = q /\ UNCHANGED store
      BY <1>2 DEF Goes, Becomes, TypeOK
    <2>. HIDE DEF r
    <2>2. /\ FromPrimary(q) /\ Backed(q)
          /\ CopyFit(r) => CopyFit(q)
          /\ MendFit(r) => MendFit(q)
      BY <1>1, <1>2, RestFits
    <2>. QED  BY <1>2, <2>1, <2>2 DEF Onward, r
  <1>3. ASSUME Placed(r), r.pc # "idle"
        PROVE  Placed(Ended(r))
    <2>. HIDE DEF r
    <2>. QED  BY <1>1, <1>3, LeaveKeeps DEF Placed, Keeps, Healing, Choosing, Copying
  <1>4. ASSUME Placed(r), r.pc \in Choosing
        PROVE  Placed(Mending(r))
    <2>. HIDE DEF r
    <2>. QED  BY <1>1, <1>4, LeaveKeeps DEF Placed, Keeps, Healing, Choosing, Copying
  <1>5. Stays(Ended(r)) /\ Stays(Mending(r)) /\ Ended(r).pc \in Rests /\ Mending(r).pc \in Rests
    <2>. HIDE DEF r
    <2>. QED  BY <1>1, LeaveKeeps DEF Keeps, Rests
  <1>6. ASSUME NEW b \in Backends, Assess(j, b)
        PROVE  UNCHANGED store /\ Onward(job[j], n) /\ Backed(n) /\ n.pc \in Rests
    <2>1. PICK seen : Goes(j, [r EXCEPT !.queue = @ \ {b}, !.seen = seen])
      BY <1>6 DEF Assess
    <2> DEFINE q == [r EXCEPT !.queue = @ \ {b}, !.seen = seen]
    <2>2. r.pc = "assess"
      BY <1>6 DEF Assess, At
    <2>3. Stays(q) /\ q.pc = "assess"
      <3>. HIDE DEF r
      <3>. QED  BY <1>1, <2>2 DEF Job
    <2>4. q.pc \in Rests /\ (Placed(r) => Placed(q))
      <3>. HIDE DEF q, r
      <3>. QED  BY <2>2, <2>3 DEF Placed, Rests, Choosing, Copying, Healing
    <2>. HIDE DEF q, r, Stays
    <2>. QED  BY <1>2, <2>1, <2>3, <2>4 DEF q
  <1>7. CASE Judge(j)
    <2> DEFINE ok == Compliant(r.seen)
               reported == [r EXCEPT !.healthy = ok]
               again(p) == [p EXCEPT !.again = TRUE, !.queue = Backends, !.seen = {}]
               pick == [r EXCEPT !.pc = "pick", !.seen = {}]
    <2>1. r.pc = "assess"
      BY <1>7 DEF Judge, At
    <2>2. \/ Goes(j, again(reported)) \/ Goes(j, pick)
          \/ Goes(j, Mending(reported)) \/ Goes(j, Mending(r)) \/ Goes(j, Ended(r))
      <3>. HIDE DEF ok
      <3>1. CASE r.command = "maintain" /\ ~r.again
        BY <1>7, <3>1 DEF Judge, ok
      <3>2. CASE ~(r.command = "maintain" /\ ~r.again)
        BY <1>7, <3>2 DEF Judge, ok
      <3>. QED  BY <3>1, <3>2
    <2>3. reported \in Job /\ Stays(reported) /\ reported.pc = "assess"
      <3>1. ok \in BOOLEAN
        BY DEF Compliant
      <3>. HIDE DEF ok, r
      <3>. QED  BY <1>1, <2>1, <3>1 DEF Job
    <2>4. /\ Stays(again(reported)) /\ again(reported).pc = "assess"
          /\ Stays(pick) /\ pick.pc = "pick"
      <3>1. Stays(pick) /\ pick.pc = "pick"
        <4>. HIDE DEF r
        <4>. QED  BY <1>1, <2>1 DEF Job
      <3>2. Stays(again(reported)) /\ again(reported).pc = "assess"
        <4>. HIDE DEF r, reported
        <4>. QED  BY <2>3 DEF Job
      <3>. QED  BY <3>1, <3>2
    <2>5. Stays(Mending(reported)) /\ Mending(reported).pc = "mend"
      <3>. HIDE DEF r, reported
      <3>. QED  BY <2>3, LeaveKeeps DEF Keeps
    <2>. HIDE DEF reported, again, pick
    <2>6. ASSUME Placed(r)
          PROVE  /\ Placed(again(reported)) /\ Placed(pick)
                 /\ Placed(Mending(reported)) /\ Placed(Mending(r)) /\ Placed(Ended(r))
      <3>1. Placed(Mending(r)) /\ Placed(Ended(r))
        BY <1>3, <1>4, <2>1, <2>6 DEF Choosing
      <3>. HIDE DEF r
      <3>2. Placed(again(reported)) /\ Placed(pick) /\ Placed(Mending(reported))
        BY <2>1, <2>4, <2>5, <2>6 DEF Placed, Choosing, Copying, Healing
      <3>. QED  BY <3>1, <3>2
    <2>. HIDE DEF r, Stays
    <2>7. /\ again(reported).pc \in Rests /\ pick.pc \in Rests
          /\ Mending(reported).pc \in Rests
      BY <2>4, <2>5 DEF Rests
    <2>. QED  BY <1>2, <1>5, <2>2, <2>4, <2>5, <2>6, <2>7
  <1>8. CASE Pick(j)
    <2>1. r.pc = "pick"
      BY <1>8 DEF Pick, At
    <2>2. CASE Goes(j, Ended(r))
      <3>. HIDE DEF r, Stays
      <3>. QED  BY <1>2, <1>3, <1>5, <2>1, <2>2
    <2>3. ASSUME NEW x \in Latest(Primary),
                 Goes(j, [r EXCEPT !.pc = "remedy", !.id = x, !.queue = Replicas])
          PROVE  UNCHANGED store /\ Onward(job[j], n) /\ Backed(n) /\ n.pc \in Rests
      <3> DEFINE q == [r EXCEPT !.pc = "remedy", !.id = x, !.queue = Replicas]
      <3>1. n = q /\ UNCHANGED store
        BY <2>3 DEF Goes, Becomes, TypeOK
      <3>2. x \in has[Primary] /\ x \in 1..taken
        BY LatestHeld DEF KnownInv, Backends
      <3>. HIDE DEF r
      <3>3. /\ q.command = r.command /\ q.calm = r.calm /\ q.fresh = r.fresh
            /\ q.mended = r.mended /\ q.pc = "remedy" /\ q.id = x
        BY <1>1 DEF Job
      <3>. HIDE DEF q
      <3>4. Placed(r) => Placed(q) /\ r.command # "replicate"
        BY <2>1, <3>2, <3>3 DEF Placed, Choosing, Copying, Healing, TypeOK
      <3>5. Placed(r) /\ CopyFit(r) => CopyFit(q)
        BY <3>3, <3>4 DEF CopyFit
      <3>6. FromPrimary(q) /\ Backed(q)
        BY <3>3 DEF FromPrimary, Backed, Healing
      <3>7. MendFit(r) => MendFit(q)
        BY <3>3 DEF MendFit, Healing
      <3>. QED  BY <3>1, <3>3, <3>4, <3>5, <3>6, <3>7 DEF Onward, Rests, r
    <2>. QED  BY <1>8, <2>2, <2>3 DEF Pick
  <1>9. CASE RemedyDone(j)
    <2>1. r.pc = "remedy" /\ (Goes(j, Mending(r)) \/ Goes(j, Ended(r)))
      BY <1>9 DEF RemedyDone, At
    <2>. HIDE DEF r, Stays
    <2>. QED  BY <1>2, <1>3, <1>4, <1>5, <2>1 DEF Choosing
  <1>10. CASE ReplicateDone(j) \/ MendDone(j)
    <2>1. r.pc # "idle" /\ Goes(j, Ended(r))
      BY <1>10 DEF ReplicateDone, MendDone, At
    <2>. HIDE DEF r, Stays
    <2>. QED  BY <1>2, <1>3, <1>5, <2>1
  <1>. QED  BY <1>6, <1>7, <1>8, <1>9, <1>10

\* Copying a snapshot, up to the steps that change a backend.
LEMMA CopySteps ==
    ASSUME TypeOK, NEW j \in Jobs,
           \/ \E b \in Backends : Remedy(j, b) \/ Replicate(j, b)
           \/ \E f \in Files : Read(j, f)
           \/ CopyDone(j) \/ VerifyDone(j),
           NEW n, n = job'[j]
    PROVE  /\ UNCHANGED store /\ Onward(job[j], n) /\ n.id = job[j].id
           /\ n.pc # "store" => (Backed(job[j]) => Backed(n))
           /\ n.pc = "store" => /\ n.at \in Backends /\ n.id \in Ids
                                /\ Latest(n.at) = {} \/ ~(n.at \in up /\ n.id \in has[n.at])
           /\ n.pc \in {"read", "write", "verify"} =>
                  job[j].pc \in {"read", "write", "verify"} /\ n.at = job[j].at
           /\ n.pc \notin Healing
  <1> DEFINE r == job[j]
             Goal == /\ UNCHANGED store /\ Onward(job[j], n) /\ n.id = job[j].id
                     /\ n.pc # "store" => (Backed(job[j]) => Backed(n))
                     /\ n.pc = "store" =>
                            /\ n.at \in Backends /\ n.id \in Ids
                            /\ Latest(n.at) = {} \/ ~(n.at \in up /\ n.id \in has[n.at])
                     /\ n.pc \in {"read", "write", "verify"} =>
                            job[j].pc \in {"read", "write", "verify"} /\ n.at = job[j].at
                     /\ n.pc \notin Healing
  <1>1. r \in ShapedJob /\ r \in Job /\ Shaped(r)
    BY JobType DEF ShapedJob
  <1>2. ASSUME NEW q, Goes(j, q)
        PROVE  n = q /\ UNCHANGED store
    BY <1>2 DEF Goes, Becomes, TypeOK
  <1>3. ASSUME NEW q, Goes(j, q), Keeps(r, q), q.pc \in Rests, q.mended = r.mended,
               Placed(r) => Placed(q),
               Placed(r) /\ FromPrimary(r) /\ CopyFit(r) => CopyFit(q)
        PROVE  Goal
    <2>1. n = q /\ UNCHANGED store
      BY <1>2, <1>3
    <2>. HIDE DEF r
    <2>2. FromPrimary(q) /\ Backed(q) /\ (MendFit(r) => MendFit(q))
      BY <1>1, <1>3, RestFits DEF Keeps
    <2>3. q.pc \notin {"store", "read", "write", "verify"} /\ q.pc \notin Healing
      BY <1>3 DEF Rests, Healing
    <2>. QED  BY <1>3, <2>1, <2>2, <2>3 DEF Onward, Keeps, r
  <1>4. ASSUME NEW b \in Backends, Remedy(j, b) \/ Replicate(j, b)
        PROVE  Goal
    <2> DEFINE p == [r EXCEPT !.queue = @ \ {b}]
               q1 == [p EXCEPT !.existing = @ \cup {b}]
               q2 == [p EXCEPT !.pc = "store", !.at = b]
    <2>1. /\ r.pc \in {"remedy", "replicate"}
          /\ Goes(j, p) \/ Goes(j, q1) \/ Goes(j, q2)
          /\ Goes(j, q2) => Latest(b) = {} \/ ~(b \in up /\ r.id \in has[b])
      <3>1. r.pc \in {"remedy", "replicate"}
        BY <1>4 DEF Remedy, Replicate, At
      <3>2. p.id = r.id /\ p.pc = r.pc
        <4>. HIDE DEF r
        <4>. QED  BY <1>1 DEF Job
      <3>3. q2.pc = "store" /\ q1.pc = p.pc
        <4>1. p \in Job
          <5>. HIDE DEF r
          <5>. QED  BY <1>1 DEF Job
        <4>. HIDE DEF p
        <4>. QED  BY <4>1 DEF Job
      <3>4. CASE Remedy(j, b)
        <4>1. IF Latest(b) # {} THEN Goes(j, p) ELSE Goes(j, q2)
          BY <3>4 DEF Remedy
        <4>. HIDE DEF p, q1, q2
        <4>2. Goes(j, p) /\ Goes(j, q2) => p = q2
          BY <1>2
        <4>. QED  BY <3>1, <3>2, <3>3, <4>1, <4>2
      <3>5. CASE Replicate(j, b)
        <4>1. IF b \in up /\ p.id \in has[b] THEN Goes(j, q1) ELSE Goes(j, q2)
          BY <3>5 DEF Replicate
        <4>. HIDE DEF p, q1, q2
        <4>2. Goes(j, q1) /\ Goes(j, q2) => q1 = q2
          BY <1>2
        <4>. QED  BY <3>1, <3>2, <3>3, <4>1, <4>2
      <3>. QED  BY <1>4, <3>4, <3>5
    <2>2. /\ p \in Job /\ Keeps(r, p) /\ p.pc = r.pc /\ p.mended = r.mended
          /\ p.fresh = r.fresh
      <3>. HIDE DEF r
      <3>. QED  BY <1>1 DEF Job, Keeps
    <2>3. /\ Keeps(r, q1) /\ q1.pc = r.pc /\ q1.mended = r.mended /\ q1.fresh = r.fresh
          /\ Keeps(r, q2) /\ q2.pc = "store" /\ q2.at = b
          /\ q2.mended = r.mended /\ q2.fresh = r.fresh
      <3>. HIDE DEF p, r
      <3>. QED  BY <2>2 DEF Job, Keeps
    <2>4. r.id \in Ids
      BY <1>1, <2>1 DEF Shaped
    <2>. HIDE DEF p, q1, q2
    <2>5. ASSUME NEW q \in {p, q1}, Goes(j, q)
          PROVE  Goal
      <3>1. /\ Keeps(r, q) /\ q.pc = r.pc /\ q.mended = r.mended /\ q.fresh = r.fresh
            /\ q.pc \in Rests
        BY <2>1, <2>2, <2>3, <2>5 DEF Rests
      <3>. HIDE DEF r, Goal
      <3>2. Placed(r) => Placed(q)
        BY <3>1 DEF Placed, Keeps, Choosing, Copying, Healing
      <3>3. CopyFit(r) => CopyFit(q)
        BY <1>1, <3>1, RestFits DEF Keeps
      <3>. QED  BY <1>3, <2>5, <3>1, <3>2, <3>3
    <2>6. ASSUME Goes(j, q2)
          PROVE  Goal
      <3>1. n = q2 /\ UNCHANGED store
        BY <1>2, <2>6
      <3>. HIDE DEF r
      <3>2. Placed(r) => Placed(q2)
        BY <2>1, <2>3 DEF Placed, Keeps, Choosing, Copying, Healing
      <3>3. FromPrimary(q2)
        BY <2>3 DEF FromPrimary, Healing
      <3>4. CopyFit(r) => CopyFit(q2)
        BY <2>3 DEF CopyFit, Keeps
      <3>5. MendFit(r) => MendFit(q2)
        BY <2>3 DEF MendFit, Healing
      <3>6. q2.pc \notin Healing
        BY <2>3 DEF Healing
      <3>. QED  BY <2>1, <2>3, <2>4, <2>6, <3>1, <3>2, <3>3, <3>4, <3>5, <3>6
                DEF Onward, Keeps, r
    <2>. QED  BY <2>1, <2>5, <2>6
  <1>. HIDE DEF Goal
  <1>5. ASSUME r.pc \in {"read", "verify"}
        PROVE  /\ Placed(r) => Placed(Failed(r)) /\ Placed(Copied(r))
               /\ Keeps(r, Failed(r)) /\ Keeps(r, Copied(r))
               /\ Failed(r).pc \in Rests /\ Copied(r).pc \in Rests
               /\ Failed(r).mended = r.mended /\ Copied(r).mended = r.mended
               /\ CopyFit(r) => CopyFit(Failed(r))
               /\ CopyFit(r) /\ r.command # "replicate" => CopyFit(Copied(r))
    <2>. HIDE DEF r
    <2>1. Placed(r) /\ r.pc # "idle" => r.command # None
      BY DEF Placed
    <2>2. /\ Keeps(r, Failed(r)) /\ Keeps(r, Copied(r))
          /\ Failed(r).mended = r.mended /\ Copied(r).mended = r.mended
          /\ Failed(r).fresh = r.fresh
          /\ Copied(r).pc = IF r.command = "replicate" THEN "replicate" ELSE "remedy"
          /\ Failed(r).pc = "idle" \/ Failed(r).pc = Copied(r).pc
      BY <1>1, LeaveKeeps
    <2>3. Failed(r).pc \in Rests /\ Copied(r).pc \in Rests
      BY <2>2 DEF Rests
    <2>4. Placed(r) => Placed(Failed(r)) /\ Placed(Copied(r))
      <3>. SUFFICES ASSUME Placed(r)
                    PROVE  Placed(Failed(r)) /\ Placed(Copied(r))
        OBVIOUS
      <3>1. r.pc = "verify" => r.command = "replicate"
        BY DEF Placed
      <3>2. r.mended = {}
        BY <1>5 DEF Placed, Copying
      <3>. QED  BY <1>5, <2>1, <2>2, <3>1, <3>2 DEF Placed, Keeps, Choosing, Copying, Healing
    <2>5. CopyFit(r) => CopyFit(Failed(r))
      BY <1>1, <2>2, <2>3, RestFits DEF Keeps
    <2>6. CopyFit(r) /\ r.command # "replicate" => CopyFit(Copied(r))
      BY <2>2 DEF CopyFit, Keeps
    <2>. QED  BY <2>2, <2>3, <2>4, <2>5, <2>6
  <1>6. ASSUME NEW f \in Files, Read(j, f)
        PROVE  Goal
    <2> DEFINE q == [r EXCEPT !.todo = @ \ {f}]
               q1 == [q EXCEPT !.pc = "write", !.file = f, !.buf = data[Primary][r.id][f]]
    <2>1. /\ r.pc = "read" /\ f \in r.todo
          /\ \/ Goes(j, q1) \/ Goes(j, Failed(r))
             \/ Goes(j, q) /\ r.command = "maintain"
      BY <1>6 DEF Read, At
    <2>2. /\ q \in Job /\ Keeps(r, q) /\ q.pc = "read" /\ q.mended = r.mended
          /\ q.fresh = r.fresh /\ q.at = r.at /\ q.todo = r.todo \ {f}
      <3>. HIDE DEF r
      <3>. QED  BY <1>1, <2>1 DEF Job, Keeps
    <2>3. /\ Keeps(r, q1) /\ q1.pc = "write" /\ q1.mended = r.mended
          /\ q1.fresh = r.fresh /\ q1.at = r.at /\ q1.todo = r.todo \ {f}
          /\ q1.file = f /\ q1.buf = data[Primary][r.id][f]
      <3>. HIDE DEF q, r
      <3>. QED  BY <2>2 DEF Job, Keeps
    <2>. HIDE DEF q, q1
    <2>4. CASE Goes(j, Failed(r))
      <3>. HIDE DEF r
      <3>. QED  BY <1>3, <1>5, <2>1, <2>4
    <2>5. ASSUME NEW p, Goes(j, p), Keeps(r, p), p.pc \in {"read", "write"},
                 p.mended = r.mended, p.at = r.at, FromPrimary(p),
                 CopyFit(r) => CopyFit(p)
          PROVE  Goal
      <3>1. n = p /\ UNCHANGED store
        BY <1>2, <2>5
      <3>. HIDE DEF r
      <3>2. Placed(r) => Placed(p)
        BY <2>1, <2>5 DEF Placed, Keeps, Choosing, Copying, Healing
      <3>3. MendFit(r) => MendFit(p)
        BY <2>5 DEF MendFit, Healing
      <3>4. Backed(r) => Backed(p)
        BY <2>1, <2>5 DEF Backed, Keeps
      <3>5. p.pc \notin Healing
        BY <2>5 DEF Healing
      <3>. QED  BY <2>1, <2>5, <3>1, <3>2, <3>3, <3>4, <3>5 DEF Onward, Keeps, Goal, r
    <2>6. CASE Goes(j, q) /\ r.command = "maintain"
      <3>1. FromPrimary(q)
        BY <2>2 DEF FromPrimary, Healing
      <3>2. CopyFit(q)
        BY <2>2, <2>6 DEF CopyFit, Keeps
      <3>. HIDE DEF r
      <3>. QED  BY <2>2, <2>5, <2>6, <3>1, <3>2
    <2>7. CASE Goes(j, q1)
      <3>. HIDE DEF r
      <3>1. FromPrimary(q1)
        BY <2>3 DEF FromPrimary, Healing, Keeps
      <3>2. CopyFit(r) => CopyFit(q1)
        <4>. SUFFICES ASSUME CopyFit(r), r.command = "replicate"
                      PROVE  CopyFit(q1)
          BY <2>3 DEF CopyFit, Keeps
        <4>1. \A g \in entries[r.id] \ r.todo : Mirrors(r, g)
          BY <2>1 DEF CopyFit
        <4>2. \A g \in entries[r.id] \ (q1.todo \cup {f}) : Mirrors(q1, g)
          BY <2>3, <4>1 DEF Mirrors, Keeps
        <4>. QED  BY <2>3, <4>2 DEF CopyFit, Keeps
      <3>. QED  BY <2>3, <2>5, <2>7, <3>1, <3>2
    <2>. QED  BY <2>1, <2>4, <2>6, <2>7
  <1>7. ASSUME CopyDone(j)
        PROVE  Goal
    <2> DEFINE todo == entries[r.id]
               q == [r EXCEPT !.pc = "verify", !.todo = todo]
    <2>1. /\ r.pc = "read" /\ r.todo = {}
          /\ \/ Goes(j, q) /\ r.command = "replicate"
             \/ Goes(j, Copied(r)) /\ ~(r.command = "replicate" /\ VerifyAfter)
      BY <1>7 DEF CopyDone, At
    <2>2. CASE Goes(j, q) /\ r.command = "replicate"
      <3>1. n = q /\ UNCHANGED store
        BY <1>2, <2>2
      <3>2. /\ Keeps(r, q) /\ q.pc = "verify" /\ q.mended = r.mended /\ q.at = r.at
            /\ q.fresh = r.fresh /\ q.todo = entries[r.id] /\ q.sick = r.sick
        <4>1. todo = entries[r.id]
          OBVIOUS
        <4>. HIDE DEF r, todo
        <4>. QED  BY <1>1, <4>1 DEF Job, Keeps
      <3>. HIDE DEF r, q
      <3>3. Placed(r) => Placed(q)
        BY <2>1, <2>2, <3>2 DEF Placed, Keeps, Choosing, Copying, Healing
      <3>4. FromPrimary(q)
        BY <3>2 DEF FromPrimary, Healing
      <3>5. CopyFit(r) => CopyFit(q)
        <4>. SUFFICES ASSUME CopyFit(r)
                      PROVE  CopyFit(q)
          OBVIOUS
        <4>1. \A g \in entries[q.id] : Mirrors(q, g)
          BY <2>1, <2>2, <3>2 DEF CopyFit, Mirrors, Keeps
        <4>2. \A g \in entries[q.id] \ (q.todo \cup q.sick) : data[Primary][q.id][g] = "good"
          BY <3>2 DEF Keeps
        <4>3. q.pc = "verify" /\ q.fresh = r.fresh /\ q.id = r.id /\ r.command = "replicate"
          BY <2>2, <3>2 DEF Keeps
        <4>. QED  BY <4>1, <4>2, <4>3 DEF CopyFit
      <3>6. MendFit(r) => MendFit(q)
        BY <3>2 DEF MendFit, Healing
      <3>7. Backed(q) /\ q.pc \notin Healing
        BY <3>2 DEF Backed, Healing
      <3>. QED  BY <2>1, <3>1, <3>2, <3>3, <3>4, <3>5, <3>6, <3>7
                DEF Onward, Keeps, Goal, r
    <2>3. CASE Goes(j, Copied(r)) /\ ~(r.command = "replicate" /\ VerifyAfter)
      <3>. HIDE DEF r
      <3>1. CopyFit(r) => CopyFit(Copied(r))
        <4>1. CASE r.command # "replicate"
          BY <1>5, <2>1, <4>1
        <4>2. CASE ~VerifyAfter /\ r.command = "replicate"
          <5>1. Copied(r).pc = "replicate"
            BY <1>1, <4>2, LeaveKeeps
          <5>. QED  BY <4>2, <5>1 DEF CopyFit
        <4>. QED  BY <2>3, <4>1, <4>2
      <3>. QED  BY <1>3, <1>5, <2>1, <2>3, <3>1
    <2>. QED  BY <2>1, <2>2, <2>3
  <1>8. ASSUME VerifyDone(j)
        PROVE  Goal
    <2>1. /\ r.pc = "verify" /\ r.todo = {}
          /\ (r.sick = {} /\ Goes(j, Copied(r))) \/ Goes(j, Failed(r))
      BY <1>8 DEF VerifyDone, At
    <2>. HIDE DEF r
    <2>2. ASSUME r.sick = {}, CopyFit(r)
          PROVE  CopyFit(Copied(r))
      <3>1. CASE r.command # "replicate"
        BY <1>5, <2>1, <2>2, <3>1
      <3>2. CASE r.command = "replicate"
        <4>1. \A f \in entries[r.id] : Mirrors(r, f) /\ data[Primary][r.id][f] = "good"
          BY <2>1, <2>2, <3>2 DEF CopyFit
        <4>2. /\ Copied(r).pc = "replicate" /\ Copied(r).id = r.id
              /\ Copied(r).fresh = r.fresh \cup {r.at}
          BY <1>1, <3>2, LeaveKeeps DEF Keeps
        <4>3. VerifyAfter => \A t \in r.fresh : \A f \in entries[r.id] :
                  data[t][r.id][f] = "good" /\ data[Primary][r.id][f] = "good"
          BY <2>2, <3>2 DEF CopyFit
        <4>. HIDE DEF Copied
        <4>. QED  BY <3>2, <4>1, <4>2, <4>3 DEF CopyFit, Mirrors
      <3>. QED  BY <3>1, <3>2
    <2>. QED  BY <1>3, <1>5, <2>1, <2>2
  <1>. QED
    <2>1. Goal
      BY <1>4, <1>6, <1>7, <1>8
    <2>. QED  BY <2>1 DEF Goal

\* Scanning and healing, up to the step that writes a file.
LEMMA HealSteps ==
    ASSUME TypeOK, KnownInv, NEW j \in Jobs,
           \/ \E f \in Files : Scan(j, f) \/ Heal(j, f)
           \/ \E b \in Backends : Mend(j, b) \/ Fetch(j, b)
           \/ ScanDone(j) \/ HealDone(j) \/ GiveUp(j) \/ Check(j),
           NEW n, n = job'[j]
    PROVE  /\ UNCHANGED store /\ Onward(job[j], n) /\ Backed(n)
           /\ n.pc \in Healing \cup {"verify"} =>
                  \/ /\ job[j].pc \in Healing \cup {"verify"}
                     /\ n.at = job[j].at /\ n.id = job[j].id
                  \/ n.id \in has[n.at]
           /\ n.pc \notin {"read", "write"}
  <1> DEFINE r == job[j]
             Goal == /\ UNCHANGED store /\ Onward(job[j], n) /\ Backed(n)
                     /\ n.pc \in Healing \cup {"verify"} =>
                            \/ /\ job[j].pc \in Healing \cup {"verify"}
                               /\ n.at = job[j].at /\ n.id = job[j].id
                            \/ n.id \in has[n.at]
                     /\ n.pc \notin {"read", "write"}
  <1>1. r \in ShapedJob /\ r \in Job /\ Shaped(r)
    BY JobType DEF ShapedJob
  <1>2. ASSUME NEW q, Goes(j, q)
        PROVE  n = q /\ UNCHANGED store
    BY <1>2 DEF Goes, Becomes, TypeOK
  \* A step within the healing of a target.
  <1>3. ASSUME NEW q, Goes(j, q), Keeps(r, q), q.at = r.at, q.from = r.from,
               r.pc \in Healing, q.pc \in Healing, q.mended = r.mended,
               FromPrimary(r) => FromPrimary(q),
               up = Backends /\ r.command = "maintain" /\ MendFit(r) => MendFit(q)
        PROVE  Goal
    <2>1. n = q /\ UNCHANGED store
      BY <1>2, <1>3
    <2>. HIDE DEF r
    <2>2. r.pc # "idle" /\ q.pc \notin Choosing \cup Copying /\ q.pc # "idle"
      BY <1>3 DEF Healing, Choosing, Copying
    <2>3. Placed(r) => Placed(q) /\ r.command # "replicate"
      <3>1. Placed(r) => r.command # "replicate" /\ r.command # None
        BY <1>3, <2>2 DEF Placed
      <3>2. q.pc \notin {"replicate", "verify"}
        BY <2>2 DEF Copying
      <3>. QED  BY <1>3, <2>2, <3>1, <3>2 DEF Placed, Keeps
    <2>4. Placed(r) => CopyFit(q)
      BY <1>3, <2>3 DEF CopyFit, Keeps
    <2>5. q.pc \notin {"store", "read", "write"}
      BY <2>2 DEF Copying
    <2>6. Backed(q)
      BY <2>5 DEF Backed
    <2>7. Onward(r, q)
      BY <1>3, <2>3, <2>4, Zenon DEF Onward, Keeps
    <2>. QED  BY <1>3, <2>1, <2>5, <2>6, <2>7 DEF Keeps, r
  \* A step that leaves the target.
  <1>4. ASSUME Goes(j, HealEnded(r)), r.pc \in Healing,
               r.command = "maintain" /\ MendFit(r) => Sound(r.at)
        PROVE  Goal
    <2>1. n = HealEnded(r) /\ UNCHANGED store
      BY <1>2, <1>4
    <2>. HIDE DEF r
    <2>2. /\ Keeps(r, n)
          /\ n.pc = IF r.command = "heal" THEN "idle" ELSE "mend"
          /\ n.fresh = r.fresh /\ n.mended = r.mended \cup {r.at}
      BY <1>1, <2>1, LeaveKeeps
    <2>3. r.pc # "idle"
      BY <1>4 DEF Healing
    <2>4. Placed(r) => r.command # "replicate" /\ r.command # None
      BY <1>4, <2>3 DEF Placed
    <2>5. Placed(r) => Placed(n)
      <3>1. n.pc \notin Choosing \cup Copying \cup Healing /\ n.pc \notin {"replicate", "verify"}
        BY <2>2 DEF Choosing, Copying, Healing
      <3>. QED  BY <2>2, <2>4, <3>1 DEF Placed, Keeps
    <2>6. FromPrimary(n) /\ Backed(n)
      BY <2>2 DEF FromPrimary, Backed, Healing
    <2>7. Placed(r) => CopyFit(n)
      BY <2>2, <2>4 DEF CopyFit, Keeps
    <2>8. r.command = "maintain" /\ MendFit(r) => MendFit(n)
      <3>. SUFFICES ASSUME r.command = "maintain", MendFit(r)
                    PROVE  MendFit(n)
        OBVIOUS
      <3>1. \A t \in n.mended : Sound(t)
        BY <1>4, <2>2 DEF MendFit
      <3>. QED  BY <2>2, <3>1 DEF MendFit, Healing
    <2>9. n.pc \notin Healing \cup {"verify", "read", "write"}
      BY <2>2 DEF Healing
    <2>10. Onward(r, n)
      BY <2>2, <2>5, <2>6, <2>7, <2>8, Zenon DEF Onward, Keeps
    <2>. QED  BY <2>1, <2>6, <2>9, <2>10 DEF r
  <1>5. ASSUME NEW f \in Files, Scan(j, f)
        PROVE  Goal
    <2> DEFINE sick == IF Healthy(r.at, r.id, f) THEN r.sick ELSE r.sick \cup {f}
               q == [r EXCEPT !.todo = @ \ {f}, !.sick = sick]
    <2>1. r.pc \in {"verify", "scan", "rescan"} /\ f \in r.todo /\ Goes(j, q)
      BY <1>5 DEF Scan
    <2>2. \A g \in (r.todo \cup r.sick) \ (q.todo \cup q.sick) :
              data[r.at][r.id][g] = "good"
      <3>1. q.todo = r.todo \ {f} /\ q.sick = sick
        <4>. HIDE DEF r, sick
        <4>. QED  BY <1>1 DEF Job
      <3>2. Healthy(r.at, r.id, f) => data[r.at][r.id][f] = "good"
        BY DEF Healthy
      <3>. HIDE DEF q, r
      <3>. QED  BY <3>1, <3>2
    <2>3. /\ Keeps(r, q) /\ q.at = r.at /\ q.from = r.from /\ q.pc = r.pc
          /\ q.mended = r.mended /\ q.fresh = r.fresh /\ q.sources = r.sources
          /\ q.buf = r.buf /\ q.file = r.file
      <3>. HIDE DEF r, sick
      <3>. QED  BY <1>1 DEF Job, Keeps
    <2>. HIDE DEF sick, q
    <2>4. CASE r.pc \in {"scan", "rescan"}
      <3>. HIDE DEF r
      <3>1. FromPrimary(r) => FromPrimary(q)
        BY <2>3 DEF FromPrimary, Keeps
      <3>2. MendFit(r) => MendFit(q)
        <4>. SUFFICES ASSUME MendFit(r)
                      PROVE  MendFit(q)
          OBVIOUS
        <4>1. \A g \in entries[r.id] \ (r.todo \cup r.sick) : Mended(r.at, r.id, g)
          BY <2>4 DEF MendFit
        <4>2. \A g \in entries[q.id] \ (q.todo \cup q.sick) : Mended(q.at, q.id, g)
          BY <2>2, <2>3, <4>1 DEF Mended, Keeps
        <4>3. /\ r.from = {Primary}
              /\ r.at # Primary => \A x \in Newest(has[r.at]) : x = r.id
              /\ \A t \in r.mended : Sound(t)
          BY <2>4 DEF MendFit, Healing
        <4>. QED  BY <2>3, <2>4, <4>2, <4>3 DEF MendFit, Keeps
      <3>3. r.pc \in Healing /\ q.pc \in Healing
        BY <2>3, <2>4 DEF Healing
      <3>. QED  BY <1>3, <2>1, <2>3, <3>1, <3>2, <3>3
    <2>5. CASE r.pc = "verify"
      <3>1. n = q /\ UNCHANGED store
        BY <1>2, <2>1
      <3>. HIDE DEF r
      <3>2. FromPrimary(q) /\ Backed(q)
        BY <2>3, <2>5 DEF FromPrimary, Backed, Healing
      <3>3. Placed(r) => Placed(q)
        BY <2>3, <2>5 DEF Placed, Keeps, Choosing, Copying, Healing
      <3>4. CopyFit(r) => CopyFit(q)
        <4>. SUFFICES ASSUME CopyFit(r), r.command = "replicate"
                      PROVE  CopyFit(q)
          BY <2>3 DEF CopyFit, Keeps
        <4>1. /\ \A g \in entries[r.id] : Mirrors(r, g)
              /\ \A g \in entries[r.id] \ (r.todo \cup r.sick) :
                     data[Primary][r.id][g] = "good"
          BY <2>5 DEF CopyFit
        <4>2. /\ \A g \in entries[q.id] : Mirrors(q, g)
              /\ \A g \in entries[q.id] \ (q.todo \cup q.sick) :
                     data[Primary][q.id][g] = "good"
          BY <2>2, <2>3, <4>1 DEF Mirrors, Keeps
        <4>3. VerifyAfter => \A t \in q.fresh : \A g \in entries[q.id] :
                  data[t][q.id][g] = "good" /\ data[Primary][q.id][g] = "good"
          BY <2>3 DEF CopyFit, Keeps
        <4>. QED  BY <2>3, <2>5, <4>2, <4>3 DEF CopyFit
      <3>5. MendFit(r) => MendFit(q)
        BY <2>3, <2>5 DEF MendFit, Healing
      <3>6. Onward(r, q)
        BY <2>3, <3>2, <3>3, <3>4, <3>5, Zenon DEF Onward, Keeps
      <3>. QED  BY <2>3, <2>5, <3>1, <3>2, <3>6 DEF Keeps, r
    <2>. QED  BY <2>1, <2>4, <2>5
  <1>6. ASSUME NEW b \in Backends, Mend(j, b)
        PROVE  Goal
    <2> DEFINE p == [r EXCEPT !.queue = @ \ {b}]
               q(x) == [p EXCEPT !.pc = "scan", !.id = x, !.at = b, !.from = {Primary},
                                 !.todo = entries[x], !.sick = {}]
    <2>1. r.pc = "mend" /\ ((\E x \in Latest(b) : Goes(j, q(x))) \/ Goes(j, p))
      BY <1>6 DEF Mend, At
    <2>2. /\ p \in Job /\ Keeps(r, p) /\ p.pc = "mend" /\ p.mended = r.mended
          /\ p.fresh = r.fresh /\ p.sources = r.sources
      <3>. HIDE DEF r
      <3>. QED  BY <1>1, <2>1 DEF Job, Keeps
    <2>. HIDE DEF p
    <2>3. Placed(r) => r.command # "replicate" /\ r.command # None
      <3>. HIDE DEF r
      <3>. QED  BY <2>1 DEF Placed
    <2>4. CASE Goes(j, p)
      <3>1. n = p /\ UNCHANGED store
        BY <1>2, <2>4
      <3>. HIDE DEF r
      <3>2. FromPrimary(p) /\ Backed(p) /\ (MendFit(r) => MendFit(p)) /\ (CopyFit(r) => CopyFit(p))
        BY <1>1, <2>2, RestFits DEF Keeps, Rests
      <3>3. Placed(r) => Placed(p)
        BY <2>2, <2>3 DEF Placed, Keeps, Choosing, Copying, Healing
      <3>4. Onward(r, p)
        BY <2>2, <3>2, <3>3, Zenon DEF Onward, Keeps
      <3>. QED  BY <2>2, <3>1, <3>2, <3>4 DEF Healing, r
    <2>5. ASSUME NEW x \in Latest(b), Goes(j, q(x))
          PROVE  Goal
      <3>1. n = q(x) /\ UNCHANGED store
        BY <1>2, <2>5
      <3>2. /\ n.pc = "scan" /\ n.id = x /\ n.at = b /\ n.from = {Primary}
            /\ n.todo = entries[x] /\ n.sick = {}
            /\ n.command = r.command /\ n.calm = r.calm
            /\ n.mended = r.mended /\ n.fresh = r.fresh
        <4>. HIDE DEF r
        <4>. QED  BY <2>2, <2>5, <3>1 DEF Job, Keeps
      <3>3. x \in has[b] /\ x \in 1..taken
        BY LatestHeld DEF KnownInv
      <3>. HIDE DEF r, q
      <3>4. FromPrimary(n) /\ Backed(n)
        BY <3>2 DEF FromPrimary, Backed, Healing
      <3>5. Placed(r) => Placed(n) /\ CopyFit(n)
        <4>1. Placed(r) => CopyFit(n)
          BY <2>3, <3>2 DEF CopyFit
        <4>2. Placed(r) => Placed(n)
          BY <2>3, <3>2, <3>3 DEF Placed, Choosing, Copying, Healing, TypeOK
        <4>. QED  BY <4>1, <4>2
      <3>6. MendFit(r) => MendFit(n)
        <4>. SUFFICES ASSUME MendFit(r)
                      PROVE  MendFit(n)
          OBVIOUS
        <4>1. \A y \in Newest(has[n.at]) : y = n.id
          <5>1. x \in Newest(has[b])
            BY <2>5 DEF Latest
          <5>2. has[b] \subseteq Int
            BY DEF TypeOK, Ids
          <5>. QED  BY <3>2, <5>1, <5>2 DEF Newest
        <4>2. \A t \in n.mended : Sound(t)
          BY <3>2 DEF MendFit
        <4>. QED  BY <3>2, <4>1, <4>2 DEF MendFit, Healing
      <3>7. Onward(r, n)
        BY <3>2, <3>4, <3>5, <3>6, Zenon DEF Onward
      <3>. QED  BY <3>1, <3>2, <3>3, <3>4, <3>7 DEF r
    <2>. QED  BY <2>1, <2>4, <2>5
  <1>7. ASSUME ScanDone(j)
        PROVE  Goal
    <2> DEFINE todo == entries[r.id]
               q1 == [r EXCEPT !.pc = "rescan", !.todo = todo, !.sick = {},
                               !.healed = 0, !.missed = 0]
               q2 == [r EXCEPT !.pc = "heal"]
    <2>1. /\ r.pc \in {"scan", "rescan"} /\ r.todo = {}
          /\ \/ r.sick = {} /\ Goes(j, HealEnded(r))
             \/ Goes(j, q1) \/ Goes(j, q2)
      BY <1>7 DEF ScanDone
    <2>2. r.pc \in Healing
      BY <2>1 DEF Healing
    <2>3. todo = entries[r.id]
      OBVIOUS
    <2>. HIDE DEF todo
    <2>4. /\ Keeps(r, q1) /\ q1.at = r.at /\ q1.from = r.from /\ q1.pc = "rescan"
          /\ q1.mended = r.mended /\ q1.sources = r.sources
          /\ q1.todo = todo /\ q1.sick = {}
      <3>. HIDE DEF r
      <3>. QED  BY <1>1 DEF Job, Keeps
    <2>5. /\ Keeps(r, q2) /\ q2.at = r.at /\ q2.from = r.from /\ q2.pc = "heal"
          /\ q2.mended = r.mended /\ q2.sources = r.sources /\ q2.sick = r.sick
      <3>. HIDE DEF r
      <3>. QED  BY <1>1 DEF Job, Keeps
    <2>. HIDE DEF q1, q2, r
    <2>6. CASE r.sick = {} /\ Goes(j, HealEnded(r))
      <3>1. ASSUME r.command = "maintain", MendFit(r)
            PROVE  Sound(r.at)
        <4>1. CASE r.at = Primary
          BY <4>1 DEF Sound, Mended
        <4>2. CASE r.at # Primary
          <5>1. \A x \in Newest(has[r.at]) : x = r.id
            BY <2>2, <3>1, <4>2 DEF MendFit
          <5>2. \A f \in entries[r.id] : Mended(r.at, r.id, f)
            BY <2>1, <2>6, <3>1 DEF MendFit
          <5>. QED  BY <5>1, <5>2 DEF Sound
        <4>. QED  BY <4>1, <4>2
      <3>. QED  BY <1>4, <2>2, <2>6, <3>1
    <2>7. CASE Goes(j, q1)
      <3>1. FromPrimary(r) => FromPrimary(q1)
        BY <2>2, <2>4 DEF FromPrimary
      <3>2. MendFit(r) => MendFit(q1)
        BY <2>2, <2>3, <2>4 DEF MendFit, Keeps
      <3>3. q1.pc \in Healing
        BY <2>4 DEF Healing
      <3>. QED  BY <1>3, <2>2, <2>4, <2>7, <3>1, <3>2, <3>3
    <2>8. CASE Goes(j, q2)
      <3>1. FromPrimary(r) => FromPrimary(q2)
        BY <2>2, <2>5 DEF FromPrimary
      <3>2. MendFit(r) => MendFit(q2)
        BY <2>1, <2>2, <2>5 DEF MendFit, Keeps
      <3>3. q2.pc \in Healing
        BY <2>5 DEF Healing
      <3>. QED  BY <1>3, <2>2, <2>5, <2>8, <3>1, <3>2, <3>3
    <2>. QED  BY <2>1, <2>6, <2>7, <2>8
  <1>8. ASSUME HealDone(j)
        PROVE  Goal
    <2>1. r.pc = "heal" /\ Goes(j, HealEnded(r)) /\ (r.sick = {} \/ Limited(r))
      BY <1>8 DEF HealDone, At
    <2>. HIDE DEF r
    <2>2. r.pc \in Healing
      BY <2>1 DEF Healing
    <2>3. ASSUME r.command = "maintain", MendFit(r)
          PROVE  Sound(r.at)
      <3>1. CASE r.at = Primary
        BY <3>1 DEF Sound, Mended
      <3>2. CASE r.at # Primary
        <4>1. \A x \in Newest(has[r.at]) : x = r.id
          BY <2>2, <2>3, <3>2 DEF MendFit
        <4>2. \A f \in entries[r.id] : Mended(r.at, r.id, f)
          BY <2>1, <2>3 DEF MendFit, Limited
        <4>. QED  BY <4>1, <4>2 DEF Sound
      <3>. QED  BY <3>1, <3>2
    <2>. QED  BY <1>4, <2>1, <2>2, <2>3
  <1>9. ASSUME NEW f \in Files, Heal(j, f)
        PROVE  Goal
    <2> DEFINE q == [r EXCEPT !.pc = "fetch", !.sick = @ \ {f}, !.file = f,
                              !.sources = r.from]
    <2>1. r.pc = "heal" /\ f \in r.sick /\ Goes(j, q)
      BY <1>9 DEF Heal, At
    <2>2. /\ Keeps(r, q) /\ q.at = r.at /\ q.from = r.from /\ q.pc = "fetch"
          /\ q.mended = r.mended /\ q.sources = r.from /\ q.file = f
          /\ q.sick = r.sick \ {f}
      <3>. HIDE DEF r
      <3>. QED  BY <1>1 DEF Job, Keeps
    <2>. HIDE DEF q, r
    <2>3. r.pc \in Healing /\ q.pc \in Healing
      BY <2>1, <2>2 DEF Healing
    <2>4. FromPrimary(r) => FromPrimary(q)
      BY <2>2, <2>3 DEF FromPrimary
    <2>5. MendFit(r) => MendFit(q)
      <3>. SUFFICES ASSUME MendFit(r)
                    PROVE  MendFit(q)
        OBVIOUS
      <3>1. /\ r.from = {Primary}
            /\ r.at # Primary => \A x \in Newest(has[r.at]) : x = r.id
            /\ \A g \in entries[r.id] \ r.sick : Mended(r.at, r.id, g)
            /\ \A t \in r.mended : Sound(t)
        BY <2>1, <2>3 DEF MendFit
      <3>2. \A g \in entries[q.id] \ (q.sick \cup {q.file}) : Mended(q.at, q.id, g)
        BY <2>2, <3>1 DEF Keeps
      <3>. QED  BY <2>2, <3>1, <3>2 DEF MendFit, Keeps
    <2>. QED  BY <1>3, <2>1, <2>2, <2>3, <2>4, <2>5
  <1>10. ASSUME NEW b \in Backends, Fetch(j, b)
         PROVE  Goal
    <2> DEFINE q == [r EXCEPT !.sources = @ \ {b}]
               cell == data[b][q.id][q.file]
               q1 == [q EXCEPT !.pc = "patch", !.buf = cell]
    <2>1. /\ r.pc = "fetch" /\ b \in r.sources
          /\ IF Healthy(b, q.id, q.file) THEN Goes(j, q1) ELSE Goes(j, q)
      BY <1>10 DEF Fetch, At
    <2>2. /\ q \in Job /\ Keeps(r, q) /\ q.at = r.at /\ q.from = r.from /\ q.pc = "fetch"
          /\ q.mended = r.mended /\ q.sources = r.sources \ {b} /\ q.file = r.file
          /\ q.sick = r.sick
      <3>. HIDE DEF r
      <3>. QED  BY <1>1, <2>1 DEF Job, Keeps
    <2>3. /\ Keeps(r, q1) /\ q1.at = r.at /\ q1.from = r.from /\ q1.pc = "patch"
          /\ q1.mended = r.mended /\ q1.sources = r.sources \ {b} /\ q1.file = r.file
          /\ q1.sick = r.sick
      <3>. HIDE DEF q, r, cell
      <3>. QED  BY <2>2 DEF Job, Keeps
    <2>4. /\ Healthy(b, q.id, q.file) => data[b][r.id][r.file] = "good"
          /\ up = Backends /\ ~Healthy(b, q.id, q.file) => data[b][r.id][r.file] # "good"
      <3>. HIDE DEF q, r
      <3>. QED  BY <2>2 DEF Healthy, Keeps
    <2>. HIDE DEF q, q1, r
    <2>5. r.pc \in Healing /\ q.pc \in Healing /\ q1.pc \in Healing
      BY <2>1, <2>2, <2>3 DEF Healing
    <2>6. ASSUME MendFit(r)
          PROVE  /\ r.from = {Primary} /\ r.sources \subseteq {Primary}
                 /\ r.at # Primary => \A x \in Newest(has[r.at]) : x = r.id
                 /\ \A g \in entries[r.id] \ (r.sick \cup {r.file}) : Mended(r.at, r.id, g)
                 /\ Primary \in r.sources \/ data[Primary][r.id][r.file] # "good"
                 /\ \A t \in r.mended : Sound(t)
      BY <2>1, <2>5, <2>6 DEF MendFit
    <2>7. CASE Healthy(b, q.id, q.file)
      <3>1. FromPrimary(r) => FromPrimary(q1)
        BY <2>1, <2>3, <2>4, <2>5, <2>7 DEF FromPrimary, Keeps
      <3>2. MendFit(r) => MendFit(q1)
        <4>. SUFFICES ASSUME MendFit(r)
                      PROVE  MendFit(q1)
          OBVIOUS
        <4>1. b = Primary /\ data[Primary][r.id][r.file] = "good"
          BY <2>1, <2>4, <2>6, <2>7
        <4>. QED  BY <2>3, <2>6, <4>1 DEF MendFit, Keeps
      <3>. QED  BY <1>3, <2>1, <2>3, <2>5, <2>7, <3>1, <3>2
    <2>8. CASE ~Healthy(b, q.id, q.file)
      <3>1. FromPrimary(r) => FromPrimary(q)
        BY <2>1, <2>2, <2>5 DEF FromPrimary
      <3>2. up = Backends /\ MendFit(r) => MendFit(q)
        <4>. SUFFICES ASSUME up = Backends, MendFit(r)
                      PROVE  MendFit(q)
          OBVIOUS
        <4>1. b = Primary /\ data[Primary][r.id][r.file] # "good"
          BY <2>1, <2>4, <2>6, <2>8
        <4>. QED  BY <2>2, <2>6, <4>1 DEF MendFit, Keeps
      <3>. QED  BY <1>3, <2>1, <2>2, <2>5, <2>8, <3>1, <3>2
    <2>. QED  BY <2>7, <2>8
  <1>11. ASSUME GiveUp(j)
         PROVE  Goal
    <2> DEFINE q == [r EXCEPT !.pc = "heal", !.file = None, !.missed = @ + 1]
    <2>1. r.pc = "fetch" /\ r.sources = {} /\ Goes(j, q)
      BY <1>11 DEF GiveUp, At
    <2>2. /\ Keeps(r, q) /\ q.at = r.at /\ q.from = r.from /\ q.pc = "heal"
          /\ q.mended = r.mended /\ q.sources = r.sources /\ q.sick = r.sick
      <3>. HIDE DEF r
      <3>. QED  BY <1>1 DEF Job, Keeps
    <2>. HIDE DEF q, r
    <2>3. r.pc \in Healing /\ q.pc \in Healing
      BY <2>1, <2>2 DEF Healing
    <2>4. FromPrimary(r) => FromPrimary(q)
      BY <2>2, <2>3 DEF FromPrimary
    <2>5. MendFit(r) => MendFit(q)
      <3>. SUFFICES ASSUME MendFit(r)
                    PROVE  MendFit(q)
        OBVIOUS
      <3>1. /\ r.from = {Primary}
            /\ r.at # Primary => \A x \in Newest(has[r.at]) : x = r.id
            /\ \A g \in entries[r.id] \ (r.sick \cup {r.file}) : Mended(r.at, r.id, g)
            /\ data[Primary][r.id][r.file] # "good"
            /\ \A t \in r.mended : Sound(t)
        BY <2>1, <2>3 DEF MendFit
      <3>2. \A g \in entries[q.id] \ q.sick : Mended(q.at, q.id, g)
        BY <2>2, <3>1 DEF Keeps, Mended
      <3>. QED  BY <2>1, <2>2, <3>1, <3>2 DEF MendFit, Keeps
    <2>. QED  BY <1>3, <2>1, <2>2, <2>3, <2>4, <2>5
  <1>12. ASSUME Check(j)
         PROVE  Goal
    <2> DEFINE q1 == [r EXCEPT !.pc = "heal", !.file = None, !.sources = {},
                               !.healed = @ + 1]
               q2 == [r EXCEPT !.pc = "fetch"]
    <2>1. /\ r.pc = "check"
          /\ IF Healthy(r.at, r.id, r.file) THEN Goes(j, q1) ELSE Goes(j, q2)
      BY <1>12 DEF Check, At
    <2>2. /\ Keeps(r, q1) /\ q1.at = r.at /\ q1.from = r.from /\ q1.pc = "heal"
          /\ q1.mended = r.mended /\ q1.sources = {} /\ q1.sick = r.sick
      <3>. HIDE DEF r
      <3>. QED  BY <1>1 DEF Job, Keeps
    <2>3. /\ Keeps(r, q2) /\ q2.at = r.at /\ q2.from = r.from /\ q2.pc = "fetch"
          /\ q2.mended = r.mended /\ q2.sources = r.sources /\ q2.sick = r.sick
      <3>. HIDE DEF r
      <3>. QED  BY <1>1 DEF Job, Keeps
    <2>4. r.at \in Backends
      BY <1>1, <2>1 DEF Shaped
    <2>. HIDE DEF q1, q2, r
    <2>5. r.pc \in Healing /\ q1.pc \in Healing /\ q2.pc \in Healing
      BY <2>1, <2>2, <2>3 DEF Healing
    <2>6. CASE Healthy(r.at, r.id, r.file)
      <3>1. FromPrimary(r) => FromPrimary(q1)
        BY <2>2, <2>5 DEF FromPrimary
      <3>2. MendFit(r) => MendFit(q1)
        <4>. SUFFICES ASSUME MendFit(r)
                      PROVE  MendFit(q1)
          OBVIOUS
        <4>1. /\ r.from = {Primary}
              /\ r.at # Primary => \A x \in Newest(has[r.at]) : x = r.id
              /\ \A g \in entries[r.id] \ (r.sick \cup {r.file}) : Mended(r.at, r.id, g)
              /\ data[r.at][r.id][r.file] = "good"
              /\ \A t \in r.mended : Sound(t)
          BY <2>1, <2>5 DEF MendFit
        <4>2. \A g \in entries[q1.id] \ q1.sick : Mended(q1.at, q1.id, g)
          BY <2>2, <4>1 DEF Keeps, Mended
        <4>. QED  BY <2>2, <4>1, <4>2 DEF MendFit, Keeps
      <3>. QED  BY <1>3, <2>1, <2>2, <2>5, <2>6, <3>1, <3>2
    <2>7. CASE ~Healthy(r.at, r.id, r.file)
      <3>1. FromPrimary(r) => FromPrimary(q2)
        BY <2>1, <2>3, <2>5 DEF FromPrimary
      <3>2. up = Backends /\ MendFit(r) => FALSE
        BY <2>1, <2>4, <2>7 DEF MendFit, Healthy
      <3>. QED  BY <1>3, <2>1, <2>3, <2>5, <2>7, <3>1, <3>2
    <2>. QED  BY <2>6, <2>7
  <1>. QED
    <2>1. Goal
      BY <1>5, <1>6, <1>7, <1>8, <1>9, <1>10, <1>11, <1>12
    <2>. QED  BY <2>1

\* Of the snapshots taken so far, the primary keeps what it has, and no other backend
\* gets anything else.
Mirrored ==
    \A x \in 1..taken :
        /\ entries'[x] = entries[x]
        /\ \A f \in Files :
               /\ data'[Primary][x][f] = data[Primary][x][f]
               /\ \A b \in Backends : data'[b][x][f] \in {data[b][x][f], data[Primary][x][f]}

\* Such a step spoils nothing that a command has copied.
LEMMA MirrorKeeps ==
    ASSUME TypeOK, NEW r \in ShapedJob, Placed(r), Mirrored
    PROVE  /\ FromPrimary(r) => FromPrimary(r)'
           /\ CopyFit(r) => CopyFit(r)'
           /\ Backed(r) => Backed(r)'
           /\ r.pc \in {"read", "write", "verify"} =>
                  \A f \in Files : Mirrors(r, f) => Mirrors(r, f)'
  <1>1. r \in Job /\ Shaped(r)
    BY DEF ShapedJob
  <1>2. r.id \in 0..MaxSnaps /\ r.at \in Backends \cup {None} /\ r.fresh \subseteq Backends
    BY <1>1 DEF Job
  <1>3. /\ r.pc \in {"store", "read", "write", "verify"} => r.id \in 1..taken /\ r.at \in Backends
        /\ r.pc \in {"write", "patch"} => r.file \in Files /\ r.id \in 1..taken
        /\ r.command = "replicate" => r.id \in 1..taken
    BY <1>1, <1>2, ConfigAssumption DEF Placed, Shaped, Ids, TypeOK
  <1>4. \A x \in 1..taken : entries[x] \subseteq Files
    <2>1. 1..taken \subseteq Ids
      BY ConfigAssumption DEF TypeOK, Ids
    <2>. QED  BY <2>1 DEF TypeOK
  <1>5. Primary \in Backends
    BY DEF Backends
  <1>6. FromPrimary(r) => FromPrimary(r)'
    BY <1>3, <1>5 DEF FromPrimary, Mirrored, Healing
  <1>7. Backed(r) => Backed(r)'
    BY <1>3, <1>5 DEF Backed, Mirrored
  <1>8. r.pc \in {"read", "write", "verify"} =>
            \A f \in Files : Mirrors(r, f) => Mirrors(r, f)'
    BY <1>3, <1>5 DEF Mirrors, Mirrored
  <1>9. CopyFit(r) => CopyFit(r)'
    <2>. SUFFICES ASSUME CopyFit(r), r.command = "replicate"
                  PROVE  CopyFit(r)'
      BY DEF CopyFit
    <2>1. entries'[r.id] = entries[r.id] /\ entries[r.id] \subseteq Files
      BY <1>3, <1>4 DEF Mirrored
    <2>2. r.pc = "read" => \A f \in entries'[r.id] \ r.todo : Mirrors(r, f)'
      BY <1>8, <2>1 DEF CopyFit
    <2>3. r.pc = "write" => \A f \in entries'[r.id] \ (r.todo \cup {r.file}) : Mirrors(r, f)'
      BY <1>8, <2>1 DEF CopyFit
    <2>4. r.pc = "verify" => /\ \A f \in entries'[r.id] : Mirrors(r, f)'
                             /\ \A f \in entries'[r.id] \ (r.todo \cup r.sick) :
                                    data'[Primary][r.id][f] = "good"
      BY <1>3, <1>8, <2>1 DEF CopyFit, Mirrored
    <2>5. VerifyAfter => \A t \in r.fresh : \A f \in entries'[r.id] :
              data'[t][r.id][f] = "good" /\ data'[Primary][r.id][f] = "good"
      BY <1>2, <1>3, <2>1 DEF CopyFit, Mirrored
    <2>. QED  BY <2>2, <2>3, <2>4, <2>5 DEF CopyFit
  <1>. QED  BY <1>6, <1>7, <1>8, <1>9

\* What a write leaves, of the job that writes and of the backends.
Written(r, n) ==
    /\ n.command = r.command /\ n.calm = r.calm /\ n.id = r.id /\ n.id \in 1..taken
    /\ Placed(n)
    /\ \A b \in Backends : has[b] \subseteq has'[b] /\ has'[b] \subseteq has[b] \cup {n.id}
    /\ \A b \in Backends, x \in Ids, f \in Files :
           data'[b][x][f] # data[b][x][f] =>
               x = n.id /\ b = r.at /\ r.pc \in {"write", "patch"}

\* A step that does not write leaves the backends as they are.
LEMMA NotWritten ==
    ASSUME NEW r, NEW n, Keeps(r, n), Placed(n), r.id \in 1..taken, UNCHANGED store
    PROVE  Written(r, n)
  BY DEF Written, Keeps

\* The metadata of a copy is written.
LEMMA StoreMetaStep ==
    ASSUME TypeOK, NEW j \in Jobs, StoreMeta(j), Placed(job[j]), NEW n, n = job'[j]
    PROVE  /\ Written(job[j], n) /\ UNCHANGED data /\ job[j].pc = "store"
           /\ n.pc \notin Healing \cup {"store", "verify"}
           /\ n.pc \in {"read", "write"} => n.at = job[j].at /\ n.id \in has'[n.at]
           /\ CopyFit(job[j]) => FromPrimary(n)' /\ CopyFit(n)'
           /\ Backed(job[j]) => Backed(n)'
           /\ job[j].command = "maintain" => MendFit(n)'
  <1> DEFINE r == job[j]
             todo == entries[r.id]
             q == [r EXCEPT !.pc = "read", !.todo = todo]
  <1>1. r \in ShapedJob /\ r \in Job /\ Shaped(r) /\ UNCHANGED env
    BY JobType DEF ShapedJob, StoreMeta, Goes, Becomes
  <1>2. r.pc = "store" /\ r.id \in Ids /\ r.at \in Backends /\ r.id \in 1..taken
    BY <1>1, ConfigAssumption DEF StoreMeta, At, Shaped, Placed, Ids, TypeOK
  <1>3. \/ n = q /\ has' = [has EXCEPT ![r.at] = @ \cup {r.id}] /\ UNCHANGED data
        \/ n = Failed(r) /\ UNCHANGED store
    BY DEF StoreMeta, Goes, Becomes, TypeOK
  <1>4. /\ Keeps(r, q) /\ q.pc = "read" /\ q.at = r.at /\ q.mended = r.mended
        /\ q.fresh = r.fresh /\ q.todo = entries[r.id]
    <2>1. todo = entries[r.id]
      OBVIOUS
    <2>. HIDE DEF r, todo
    <2>. QED  BY <1>1, <2>1 DEF Job, Keeps
  <1>5. r.mended = {} /\ r.command # None
    BY <1>2 DEF Placed, Copying
  <1>. HIDE DEF q, r
  <1>6. CASE n = q /\ has' = [has EXCEPT ![r.at] = @ \cup {r.id}] /\ UNCHANGED data
    <2>1. Placed(n)
      BY <1>2, <1>4, <1>5, <1>6 DEF Placed, Keeps, Choosing, Copying, Healing, r
    <2>2. Written(r, n)
      <3>1. \A b \in Backends : has[b] \subseteq has'[b] /\ has'[b] \subseteq has[b] \cup {r.id}
        BY <1>6 DEF TypeOK
      <3>. QED  BY <1>2, <1>4, <1>6, <2>1, <3>1 DEF Written, Keeps
    <2>3. r.id \in has'[r.at]
      BY <1>2, <1>6 DEF TypeOK
    <2>4. FromPrimary(n)'
      BY <1>4, <1>6 DEF FromPrimary, Healing
    <2>5. CopyFit(r) => CopyFit(n)'
      BY <1>1, <1>4, <1>6 DEF CopyFit, Keeps
    <2>6. Backed(r) => Backed(n)'
      BY <1>2, <1>4, <1>6 DEF Backed, Keeps
    <2>7. MendFit(n)'
      BY <1>4, <1>5, <1>6 DEF MendFit, Healing
    <2>8. n.pc = "read" /\ n.pc \notin Healing
      BY <1>4, <1>6 DEF Healing
    <2>. QED  BY <1>2, <1>4, <1>6, <2>2, <2>3, <2>4, <2>5, <2>6, <2>7, <2>8 DEF Keeps, r
  <1>7. CASE n = Failed(r) /\ UNCHANGED store
    <2>1. /\ Keeps(r, n) /\ n.fresh = r.fresh /\ n.mended = r.mended
          /\ n.pc \in {"idle", "replicate", "remedy"}
          /\ n.pc # "idle" => n.pc = IF r.command = "replicate" THEN "replicate" ELSE "remedy"
      BY <1>1, <1>7, LeaveKeeps
    <2>2. Placed(n)
      BY <1>2, <1>5, <2>1 DEF Placed, Keeps, Choosing, Copying, Healing, r
    <2>3. n.pc \in Rests /\ n.pc \notin Healing
      BY <2>1 DEF Rests, Healing
    <2>4. /\ FromPrimary(n) /\ Backed(n)
          /\ CopyFit(r) => CopyFit(n)
      BY <1>1, <2>1, <2>3, RestFits DEF Keeps
    <2>5. MendFit(n)
      BY <1>5, <2>1 DEF MendFit, Healing
    <2>6. FromPrimary(n)' /\ Backed(n)' /\ (CopyFit(r) => CopyFit(n)')
      <3>1. FromPrimary(n)' /\ Backed(n)'
        BY <1>7, <2>4 DEF FromPrimary, Backed
      <3>2. CopyFit(r) => CopyFit(n)'
        BY <1>1, <1>7, <2>4 DEF CopyFit, Mirrors
      <3>. QED  BY <3>1, <3>2
    <2>7. MendFit(n)'
      BY <1>5, <2>1 DEF MendFit, Healing
    <2>8. Written(r, n)
      BY <1>2, <1>7, <2>1, <2>2, NotWritten
    <2>. QED  BY <1>2, <1>7, <2>1, <2>3, <2>6, <2>7, <2>8 DEF r
  <1>. QED  BY <1>3, <1>6, <1>7, Zenon

\* One file of a copy is written.
LEMMA WriteStep ==
    ASSUME TypeOK, NEW j \in Jobs, Write(j), Placed(job[j]), NEW n, n = job'[j]
    PROVE  /\ Written(job[j], n) /\ UNCHANGED has /\ job[j].pc = "write"
           /\ n.pc \notin Healing \cup {"store", "write", "verify"}
           /\ n.pc = "read" => n.at = job[j].at
           /\ FromPrimary(job[j]) =>
                  /\ Mirrored
                  /\ CopyFit(job[j]) => FromPrimary(n)' /\ CopyFit(n)'
                  /\ Backed(job[j]) => Backed(n)'
           /\ job[j].command = "maintain" => MendFit(n)'
  <1> DEFINE r == job[j]
             q == [r EXCEPT !.pc = "read", !.file = None, !.buf = "none"]
  <1>1. r \in ShapedJob /\ r \in Job /\ Shaped(r) /\ UNCHANGED env
    BY JobType DEF ShapedJob, Write, Goes, Becomes
  <1>2. /\ r.pc = "write" /\ r.id \in Ids /\ r.at \in Backends /\ r.id \in 1..taken
        /\ r.file \in Files
    BY <1>1, ConfigAssumption DEF Write, At, Shaped, Placed, Ids, TypeOK
  <1>3. \/ /\ n = q /\ UNCHANGED has
           /\ data' = [data EXCEPT ![r.at][r.id][r.file] = r.buf]
        \/ n = Failed(r) /\ UNCHANGED store
    BY DEF Write, Goes, Becomes, TypeOK
  <1>4. /\ Keeps(r, q) /\ q.pc = "read" /\ q.at = r.at /\ q.mended = r.mended
        /\ q.fresh = r.fresh /\ q.todo = r.todo
    <2>. HIDE DEF r
    <2>. QED  BY <1>1 DEF Job, Keeps
  <1>5. r.mended = {} /\ r.command # None
    BY <1>2 DEF Placed, Copying
  <1>. HIDE DEF q, r
  <1>6. ASSUME n = q, UNCHANGED has,
               data' = [data EXCEPT ![r.at][r.id][r.file] = r.buf]
        PROVE  /\ Written(r, n) /\ n.pc = "read" /\ n.at = r.at
               /\ MendFit(n)'
               /\ FromPrimary(r) =>
                      /\ Mirrored
                      /\ CopyFit(r) => FromPrimary(n)' /\ CopyFit(n)'
                      /\ Backed(r) => Backed(n)'
    <2>1. Placed(n)
      BY <1>2, <1>4, <1>5, <1>6 DEF Placed, Keeps, Choosing, Copying, Healing, r
    <2>2. \A b \in Backends, x \in Ids, f \in Files :
              data'[b][x][f] = IF b = r.at /\ x = r.id /\ f = r.file THEN r.buf
                               ELSE data[b][x][f]
      BY <1>2, <1>6 DEF TypeOK
    <2>3. Written(r, n)
      BY <1>2, <1>4, <1>6, <2>1, <2>2 DEF Written, Keeps
    <2>4. MendFit(n)'
      BY <1>4, <1>5, <1>6 DEF MendFit, Healing
    <2>5. ASSUME FromPrimary(r)
          PROVE  /\ Mirrored
                 /\ CopyFit(r) => FromPrimary(n)' /\ CopyFit(n)'
                 /\ Backed(r) => Backed(n)'
      <3>1. r.buf = data[Primary][r.id][r.file]
        BY <1>2, <2>5 DEF FromPrimary
      <3>2. 1..taken \subseteq Ids /\ Primary \in Backends
        BY ConfigAssumption DEF TypeOK, Ids, Backends
      <3>3. Mirrored
        BY <1>1, <2>2, <3>1, <3>2 DEF Mirrored
      <3>. PICK p : p = r
        OBVIOUS
      <3>4. /\ CopyFit(p) => CopyFit(p)'
            /\ Backed(p) => Backed(p)'
            /\ \A f \in Files : Mirrors(p, f) => Mirrors(p, f)'
        <4>1. p \in ShapedJob /\ Placed(p) /\ p.pc = "write"
          BY <1>1, <1>2 DEF r
        <4>. QED  BY <3>3, <4>1, MirrorKeeps
      <3>5. FromPrimary(n)'
        BY <1>4, <1>6 DEF FromPrimary, Healing
      <3>6. Mirrors(p, p.file)'
        BY <1>2, <2>2, <3>1, <3>2 DEF Mirrors
      <3>7. CopyFit(p) => CopyFit(n)'
        <4>. SUFFICES ASSUME CopyFit(p), p.command = "replicate"
                      PROVE  CopyFit(n)'
          BY <1>4, <1>6 DEF CopyFit, Keeps
        <4>1. \A f \in entries'[p.id] \ (p.todo \cup {p.file}) : Mirrors(p, f)'
          BY <1>2, <3>4 DEF CopyFit
        <4>2. \A f \in entries'[n.id] \ n.todo : Mirrors(n, f)'
          BY <1>4, <1>6, <3>6, <4>1 DEF Mirrors, Keeps
        <4>3. VerifyAfter => \A t \in n.fresh : \A f \in entries'[n.id] :
                  data'[t][n.id][f] = "good" /\ data'[Primary][n.id][f] = "good"
          BY <1>4, <1>6, <3>4 DEF CopyFit, Keeps
        <4>. QED  BY <1>4, <1>6, <4>2, <4>3 DEF CopyFit
      <3>8. Backed(p) => Backed(n)'
        BY <1>2, <1>4, <1>6, <3>4 DEF Backed, Keeps
      <3>. QED  BY <3>3, <3>5, <3>7, <3>8
    <2>. QED  BY <1>4, <1>6, <2>3, <2>4, <2>5
  <1>7. ASSUME n = Failed(r), UNCHANGED store
        PROVE  /\ Written(r, n) /\ n.pc \in Rests
               /\ MendFit(n)' /\ Mirrored
               /\ CopyFit(r) => FromPrimary(n)' /\ CopyFit(n)'
               /\ Backed(n)'
    <2>1. /\ Keeps(r, n) /\ n.fresh = r.fresh /\ n.mended = r.mended
          /\ n.pc \in {"idle", "replicate", "remedy"}
          /\ n.pc # "idle" => n.pc = IF r.command = "replicate" THEN "replicate" ELSE "remedy"
      BY <1>1, <1>7, LeaveKeeps
    <2>2. Placed(n)
      BY <1>2, <1>5, <2>1 DEF Placed, Keeps, Choosing, Copying, Healing, r
    <2>3. n.pc \in Rests
      BY <2>1 DEF Rests
    <2>4. /\ FromPrimary(n) /\ Backed(n)
          /\ CopyFit(r) => CopyFit(n)
      BY <1>1, <2>1, <2>3, RestFits DEF Keeps
    <2>5. FromPrimary(n)' /\ Backed(n)' /\ (CopyFit(r) => CopyFit(n)')
      <3>1. FromPrimary(n)' /\ Backed(n)'
        BY <1>7, <2>4 DEF FromPrimary, Backed
      <3>2. CopyFit(r) => CopyFit(n)'
        BY <1>1, <1>7, <2>4 DEF CopyFit, Mirrors
      <3>. QED  BY <3>1, <3>2
    <2>6. MendFit(n)'
      BY <1>5, <2>1 DEF MendFit, Healing
    <2>7. Written(r, n)
      BY <1>2, <1>7, <2>1, <2>2, NotWritten
    <2>8. Mirrored
      BY <1>1, <1>7 DEF Mirrored
    <2>. QED  BY <2>3, <2>5, <2>6, <2>7, <2>8
  <1>8. CASE n = q /\ UNCHANGED has /\ data' = [data EXCEPT ![r.at][r.id][r.file] = r.buf]
    <2>1. "read" \notin Healing
      BY DEF Healing
    <2>. QED  BY <1>2, <1>6, <1>8, <2>1 DEF r
  <1>9. CASE n = Failed(r) /\ UNCHANGED store
    <2>1. n.pc \notin Healing \cup {"store", "read", "write", "verify"}
      BY <1>7, <1>9 DEF Healing, Rests
    <2>. QED  BY <1>2, <1>7, <1>9, <2>1 DEF r
  <1>. QED  BY <1>3, <1>8, <1>9, Zenon

\* One file is healed.
LEMMA PatchStep ==
    ASSUME TypeOK, HealInv, NEW j \in Jobs, Patch(j), Placed(job[j]), NEW n, n = job'[j]
    PROVE  /\ Written(job[j], n) /\ UNCHANGED has
           /\ job[j].pc = "patch" /\ n.pc \in {"fetch", "check"}
           /\ n.at = job[j].at
           /\ \A b \in Backends, x \in Ids, f \in Files :
                  data'[b][x][f] = data[b][x][f] \/ data'[b][x][f] = "good"
           /\ CopyFit(n)' /\ Backed(n)'
           /\ FromPrimary(job[j]) => Mirrored /\ FromPrimary(n)'
           /\ up = Backends /\ MendFit(job[j]) => MendFit(n)'
  <1> DEFINE r == job[j]
             q1 == [r EXCEPT !.pc = "check", !.buf = "none"]
             q2 == [r EXCEPT !.pc = "fetch", !.buf = "none"]
  <1>1. r \in ShapedJob /\ r \in Job /\ Shaped(r) /\ UNCHANGED env
    BY JobType DEF ShapedJob, Patch, Goes, Becomes
  <1>2. /\ r.pc = "patch" /\ r.id \in Ids /\ r.at \in Backends /\ r.id \in 1..taken
        /\ r.file \in Files /\ r.pc \in Healing
    BY <1>1, ConfigAssumption DEF Patch, At, Shaped, Placed, Ids, TypeOK, Healing
  <1>3. r.buf = "good" /\ r.command # "replicate" /\ r.command # None
    BY <1>2 DEF HealInv, Fit, PatchHoldsGood, Placed
  <1>4. \/ /\ n = q1 /\ UNCHANGED has
           /\ data' = [data EXCEPT ![r.at][r.id][r.file] = "good"]
        \/ n = q2 /\ UNCHANGED store /\ r.at \notin up
    BY <1>3 DEF Patch, Goes, Becomes, TypeOK
  <1>5. /\ Keeps(r, q1) /\ q1.pc = "check" /\ q1.at = r.at /\ q1.mended = r.mended
        /\ q1.from = r.from /\ q1.sources = r.sources /\ q1.sick = r.sick
        /\ q1.file = r.file
        /\ Keeps(r, q2) /\ q2.pc = "fetch" /\ q2.at = r.at /\ q2.from = r.from
        /\ q2.sources = r.sources
    <2>. HIDE DEF r
    <2>. QED  BY <1>1 DEF Job, Keeps
  <1>. HIDE DEF q1, q2, r
  <1>6. /\ n.pc \in {"fetch", "check"} /\ Keeps(r, n) /\ n.at = r.at
        /\ n.from = r.from /\ n.sources = r.sources
    BY <1>4, <1>5
  <1>7. Placed(n)
    BY <1>2, <1>3, <1>6 DEF Placed, Keeps, Choosing, Copying, Healing, r
  <1>8. CopyFit(n)' /\ Backed(n)'
    BY <1>3, <1>6 DEF CopyFit, Backed, Keeps
  <1>9. FromPrimary(r) => FromPrimary(n)'
    BY <1>2, <1>6 DEF FromPrimary, Healing
  <1>10. CASE n = q1 /\ UNCHANGED has /\ data' = [data EXCEPT ![r.at][r.id][r.file] = "good"]
    <2>1. \A b \in Backends, x \in Ids, f \in Files :
              data'[b][x][f] = IF b = r.at /\ x = r.id /\ f = r.file THEN "good"
                               ELSE data[b][x][f]
      BY <1>2, <1>10 DEF TypeOK
    <2>2. Written(r, n)
      BY <1>2, <1>6, <1>7, <1>10, <2>1 DEF Written, Keeps
    <2>3. 1..taken \subseteq Ids /\ Primary \in Backends
      BY ConfigAssumption DEF TypeOK, Ids, Backends
    <2>4. FromPrimary(r) => Mirrored
      BY <1>1, <1>2, <2>1, <2>3 DEF Mirrored, FromPrimary
    <2>5. MendFit(r) => MendFit(n)'
      <3>. SUFFICES ASSUME MendFit(r)
                    PROVE  MendFit(n)'
        OBVIOUS
      <3>1. /\ r.from = {Primary} /\ r.sources \subseteq {Primary}
            /\ r.at # Primary => \A x \in Newest(has[r.at]) : x = r.id
            /\ \A g \in entries[r.id] \ (r.sick \cup {r.file}) : Mended(r.at, r.id, g)
            /\ data[Primary][r.id][r.file] = "good"
            /\ \A t \in r.mended : Sound(t)
        BY <1>2 DEF MendFit
      <3>2. \A t \in Backends, x \in Ids, f \in Files : Mended(t, x, f) => Mended(t, x, f)'
        BY <2>1, <2>3, <3>1 DEF Mended
      <3>3. \A x \in Ids : entries'[x] = entries[x] /\ entries[x] \subseteq Files
        BY <1>1 DEF TypeOK
      <3>4. \A t \in Backends : has'[t] = has[t] /\ Newest(has[t]) \subseteq Ids
        BY <1>10 DEF TypeOK, Newest
      <3>5. r.mended \subseteq Backends
        BY <1>1 DEF Job
      <3>6. \A t \in n.mended : Sound(t)'
        <4>1. SUFFICES ASSUME NEW t \in r.mended, NEW x \in Newest(has[t]),
                              NEW f \in entries[x]
                       PROVE  Mended(t, x, f)'
          BY <1>5, <1>10, <3>3, <3>4, <3>5 DEF Sound, Newest
        <4>2. Mended(t, x, f)
          BY <3>1, <4>1 DEF Sound
        <4>. QED  BY <3>2, <3>3, <3>4, <3>5, <4>1, <4>2
      <3>7. \A g \in entries'[n.id] \ (n.sick \cup {n.file}) : Mended(n.at, n.id, g)'
        BY <1>2, <1>5, <1>10, <3>1, <3>2, <3>3 DEF Keeps
      <3>8. data'[n.at][n.id][n.file] = "good"
        BY <1>2, <1>5, <1>10, <2>1 DEF Keeps
      <3>9. n.at # Primary => \A x \in Newest(has'[n.at]) : x = n.id
        BY <1>2, <1>6, <3>1, <3>4 DEF Keeps
      <3>10. n.pc = "check"
        BY <1>5, <1>10
      <3>. QED  BY <1>6, <3>1, <3>6, <3>7, <3>8, <3>9, <3>10 DEF MendFit, Newest, Healing
    <2>6. \A b \in Backends, x \in Ids, f \in Files :
              data'[b][x][f] = data[b][x][f] \/ data'[b][x][f] = "good"
      BY <2>1
    <2>. QED  BY <1>2, <1>6, <1>8, <1>9, <1>10, <2>2, <2>4, <2>5, <2>6, Zenon DEF r
  <1>11. CASE n = q2 /\ UNCHANGED store /\ r.at \notin up
    <2>1. Written(r, n)
      BY <1>2, <1>6, <1>7, <1>11, NotWritten
    <2>2. Mirrored
      BY <1>1, <1>11 DEF Mirrored
    <2>3. up # Backends /\ UNCHANGED has /\ UNCHANGED data
      BY <1>2, <1>11
    <2>. QED  BY <1>2, <1>6, <1>8, <1>9, <2>1, <2>2, <2>3, Zenon DEF r
  <1>. QED  BY <1>4, <1>10, <1>11, Zenon

-----------------------------------------------------------------------------
(* The invariants of the running commands.                                 *)

\* What a process does next keeps its command and its place, and changes what the
\* backends hold only where it writes.
LEMMA StepPlaced ==
    ASSUME TypeOK, HealInv, KnownInv, NEW j \in Jobs, Step(j), Placed(job[j]),
           NEW n, n = job'[j]
    PROVE  /\ n.command = job[j].command /\ n.calm = job[j].calm /\ Placed(n)
           /\ UNCHANGED store \/ Written(job[j], n)
           /\ job[j].pc # "idle"
  <1>1. job[j].pc # "idle"
    BY DEF Step, Assess, Remedy, Replicate, Mend, Fetch, Read, Scan, Heal, Judge, Pick,
           RemedyDone, ReplicateDone, StoreMeta, Write, CopyDone, VerifyDone, MendDone,
           ScanDone, HealDone, GiveUp, Patch, Check, At
  <1>2. CASE \/ \E b \in Backends : Assess(j, b)
             \/ Judge(j) \/ Pick(j) \/ RemedyDone(j) \/ ReplicateDone(j) \/ MendDone(j)
    BY <1>1, <1>2, PolicySteps DEF Onward
  <1>3. CASE \/ \E b \in Backends : Remedy(j, b) \/ Replicate(j, b)
             \/ \E f \in Files : Read(j, f)
             \/ CopyDone(j) \/ VerifyDone(j)
    BY <1>1, <1>3, CopySteps DEF Onward
  <1>4. CASE \/ \E f \in Files : Scan(j, f) \/ Heal(j, f)
             \/ \E b \in Backends : Mend(j, b) \/ Fetch(j, b)
             \/ ScanDone(j) \/ HealDone(j) \/ GiveUp(j) \/ Check(j)
    BY <1>1, <1>4, HealSteps DEF Onward
  <1>5. CASE StoreMeta(j) \/ Write(j) \/ Patch(j)
    <2>1. Written(job[j], n)
      BY <1>5, StoreMetaStep, WriteStep, PatchStep, Zenon
    <2>. QED  BY <1>1, <2>1 DEF Written
  <1>. QED  BY <1>2, <1>3, <1>4, <1>5 DEF Step

\* A new command stands at its beginning.
LEMMA StartStep ==
    ASSUME TypeOK, KnownInv, NEW j \in Jobs, Start(j), NEW n, n = job'[j]
    PROVE  /\ UNCHANGED store /\ job[j].pc = "idle"
           /\ n.command # None /\ Placed(n)
           /\ n.calm = Calm
           /\ \/ n.pc \in Rests /\ n.fresh = {} /\ n.mended = {}
              \/ n.command = "heal" /\ "heal" \in Commands
  <1> DEFINE replicate(x) == [Free EXCEPT !.command = "replicate", !.pc = "replicate",
                                          !.id = x, !.queue = Replicas, !.calm = Calm]
             maintain(c) == [Free EXCEPT !.command = c, !.pc = "assess",
                                         !.queue = Backends, !.calm = Calm]
             heal(x, t, S) == [Free EXCEPT !.command = "heal", !.pc = "rescan",
                                           !.id = x, !.at = t, !.from = S,
                                           !.todo = entries[x], !.calm = Calm]
  <1>1. ASSUME NEW q, Goes(j, q)
        PROVE  n = q /\ UNCHANGED store
    BY <1>1 DEF Goes, Becomes, TypeOK
  <1>2. CASE StartReplicate(j)
    <2>1. PICK x \in Latest(Primary) : Goes(j, replicate(x))
      BY <1>2 DEF StartReplicate
    <2>2. x \in 1..taken
      BY LatestHeld DEF KnownInv, Backends
    <2>3. /\ replicate(x).pc = "replicate" /\ replicate(x).command = "replicate"
          /\ replicate(x).id = x /\ replicate(x).fresh = {} /\ replicate(x).mended = {}
          /\ replicate(x).calm = Calm
      BY DEF Free
    <2>4. n = replicate(x) /\ UNCHANGED store /\ job[j].pc = "idle"
      BY <1>1, <1>2, <2>1 DEF StartReplicate, At
    <2>. HIDE DEF replicate
    <2>5. Placed(n)
      BY <2>2, <2>3, <2>4, CommandsAssumption DEF Placed, Choosing, Copying, Healing, TypeOK
    <2>. QED  BY <2>3, <2>4, <2>5, CommandsAssumption DEF Rests
  <1>3. ASSUME NEW c \in Commands, StartMaintain(j, c)
        PROVE  /\ UNCHANGED store /\ job[j].pc = "idle"
               /\ n.command # None /\ Placed(n)
               /\ n.calm = Calm
               /\ n.pc \in Rests /\ n.fresh = {} /\ n.mended = {}
    <2>1. /\ maintain(c).pc = "assess" /\ maintain(c).command = c
          /\ maintain(c).id = 0 /\ maintain(c).fresh = {} /\ maintain(c).mended = {}
          /\ maintain(c).calm = Calm
      BY DEF Free
    <2>2. /\ n = maintain(c) /\ UNCHANGED store /\ job[j].pc = "idle"
          /\ c \in {"maintain", "remediate"}
      BY <1>1, <1>3 DEF StartMaintain, At
    <2>. HIDE DEF maintain
    <2>3. Placed(n)
      BY <2>1, <2>2, CommandsAssumption DEF Placed, Choosing, Copying, Healing, TypeOK
    <2>. QED  BY <2>1, <2>2, <2>3, CommandsAssumption DEF Rests
  <1>4. ASSUME NEW t \in Backends, NEW S \in SUBSET (Backends \ {t}), StartHeal(j, t, S)
        PROVE  /\ UNCHANGED store /\ job[j].pc = "idle"
               /\ n.command # None /\ Placed(n)
               /\ n.calm = Calm
               /\ n.command = "heal" /\ "heal" \in Commands
    <2>1. PICK x \in Ids : (\E b \in S \cup {t} : x \in has[b]) /\ Goes(j, heal(x, t, S))
      BY <1>4 DEF StartHeal
    <2>2. x \in 1..taken
      BY <2>1 DEF KnownInv
    <2>3. /\ heal(x, t, S).pc = "rescan" /\ heal(x, t, S).command = "heal"
          /\ heal(x, t, S).id = x /\ heal(x, t, S).calm = Calm
      BY DEF Free
    <2>4. n = heal(x, t, S) /\ UNCHANGED store /\ job[j].pc = "idle" /\ "heal" \in Commands
      BY <1>1, <1>4, <2>1 DEF StartHeal, At
    <2>. HIDE DEF heal
    <2>5. Placed(n)
      BY <2>2, <2>3, <2>4, CommandsAssumption DEF Placed, Choosing, Copying, Healing, TypeOK
    <2>. QED  BY <2>3, <2>4, <2>5, CommandsAssumption
  <1>. QED  BY <1>2, <1>3, <1>4 DEF Start

\* The world disturbs every command, ends one, or only adds.
LEMMA WorldStep ==
    ASSUME TypeOK, World
    PROVE  \/ /\ Disturb /\ UNCHANGED <<entries, taken>> /\ faults' = faults + 1
              /\ \A b \in Backends : has'[b] \subseteq has[b]
              /\ "delete" \notin Faults => UNCHANGED has
              /\ \A b \in Backends, x \in Ids, f \in Files :
                     data'[b][x][f] # data[b][x][f] =>
                         data[b][x][f] = "good" \/ data'[b][x][f] = "none"
           \/ /\ \E j \in Jobs : job' = [job EXCEPT ![j] = Free]
              /\ UNCHANGED <<entries, taken, has, data, up>> /\ faults' = faults + 1
           \/ /\ UNCHANGED <<job, faults>> /\ up \subseteq up' /\ up' \subseteq Backends
              /\ \/ UNCHANGED <<entries, taken, has, data>>
                 \/ /\ taken' = taken + 1 /\ taken' \in Ids
                    /\ has'[Primary] = has[Primary] \cup {taken + 1}
                    /\ \A b \in Backends \ {Primary} : has'[b] = has[b]
                    /\ \A x \in Ids \ {taken + 1} :
                           /\ entries'[x] = entries[x]
                           /\ \A b \in Backends : data'[b][x] = data[b][x]
                    /\ \A b \in Backends \ {Primary} : data'[b] = data[b]
  <1>1. ASSUME NEW S \in SUBSET Files, Snap(S)
        PROVE  /\ UNCHANGED <<job, up, faults>>
               /\ taken' = taken + 1 /\ taken' \in Ids
               /\ has'[Primary] = has[Primary] \cup {taken + 1}
               /\ \A b \in Backends \ {Primary} : has'[b] = has[b]
               /\ \A x \in Ids \ {taken + 1} :
                      /\ entries'[x] = entries[x]
                      /\ \A b \in Backends : data'[b][x] = data[b][x]
               /\ \A b \in Backends \ {Primary} : data'[b] = data[b]
    <2>1. taken' = taken + 1 /\ taken' \in Ids /\ UNCHANGED <<job, up, faults>>
      BY <1>1, ConfigAssumption DEF Snap, TypeOK, Ids
    <2>2. /\ has'[Primary] = has[Primary] \cup {taken + 1}
          /\ \A b \in Backends \ {Primary} : has'[b] = has[b]
      BY <1>1 DEF Snap, TypeOK, Backends
    <2>3. \A x \in Ids \ {taken + 1} : entries'[x] = entries[x]
      BY <1>1 DEF Snap, TypeOK
    <2>4. /\ \A x \in Ids \ {taken + 1} : \A b \in Backends : data'[b][x] = data[b][x]
          /\ \A b \in Backends \ {Primary} : data'[b] = data[b]
      BY <1>1 DEF Snap, TypeOK
    <2>. QED  BY <2>1, <2>2, <2>3, <2>4
  <1>2. ASSUME NEW b \in Backends, Outage(b)
        PROVE  Disturb /\ UNCHANGED <<entries, taken, has, data>> /\ faults' = faults + 1
    BY <1>2 DEF Outage, Fault
  <1>3. ASSUME NEW b \in Backends, Return(b)
        PROVE  /\ UNCHANGED <<job, faults, entries, taken, has, data>>
               /\ up \subseteq up' /\ up' \subseteq Backends
    BY <1>3 DEF Return, TypeOK
  <1>4. ASSUME NEW b \in Backends, NEW x \in Ids, Remove(b, x)
        PROVE  /\ Disturb /\ UNCHANGED <<entries, taken>> /\ faults' = faults + 1
               /\ \A c \in Backends : has'[c] \subseteq has[c]
               /\ "delete" \in Faults
               /\ \A c \in Backends, y \in Ids, f \in Files :
                      data'[c][y][f] # data[c][y][f] => data'[c][y][f] = "none"
    <2>1. Disturb /\ UNCHANGED <<entries, taken>> /\ faults' = faults + 1 /\ "delete" \in Faults
      BY <1>4 DEF Remove, Fault
    <2>2. \A c \in Backends : has'[c] \subseteq has[c]
      BY <1>4 DEF Remove, TypeOK
    <2>3. \A c \in Backends, y \in Ids, f \in Files :
              data'[c][y][f] # data[c][y][f] => data'[c][y][f] = "none"
      BY <1>4 DEF Remove, TypeOK
    <2>. QED  BY <2>1, <2>2, <2>3
  <1>5. ASSUME NEW b \in Backends, NEW x \in Ids, NEW f \in Files,
               Rot(b, x, f) \/ Lose(b, x, f)
        PROVE  /\ Disturb /\ UNCHANGED <<entries, taken, has>> /\ faults' = faults + 1
               /\ \A c \in Backends, y \in Ids, g \in Files :
                      data'[c][y][g] # data[c][y][g] =>
                          data[c][y][g] = "good" \/ data'[c][y][g] = "none"
    <2>1. Disturb /\ UNCHANGED <<entries, taken, has>> /\ faults' = faults + 1
      BY <1>5 DEF Rot, Lose, Fault
    <2>2. CASE Rot(b, x, f)
      BY <2>1, <2>2 DEF Rot, TypeOK
    <2>3. CASE Lose(b, x, f)
      BY <2>1, <2>3 DEF Lose, TypeOK
    <2>. QED  BY <1>5, <2>2, <2>3
  <1>6. ASSUME NEW j \in Jobs, Crash(j)
        PROVE  /\ job' = [job EXCEPT ![j] = Free]
               /\ UNCHANGED <<entries, taken, has, data, up>> /\ faults' = faults + 1
    BY <1>6 DEF Crash, Fault
  <1>7. CASE \E S \in SUBSET Files : Snap(S)
    BY <1>1, <1>7 DEF TypeOK
  <1>8. CASE \E b \in Backends : Outage(b)
    BY <1>2, <1>8
  <1>9. CASE \E b \in Backends : Return(b)
    BY <1>3, <1>9
  <1>10. CASE \E b \in Backends, x \in Ids : Remove(b, x)
    BY <1>4, <1>10
  <1>11. CASE \E b \in Backends, x \in Ids, f \in Files : Rot(b, x, f) \/ Lose(b, x, f)
    <2>1. PICK b \in Backends, x \in Ids, f \in Files : Rot(b, x, f) \/ Lose(b, x, f)
      BY <1>11
    <2>. QED  BY <1>5, <2>1
  <1>12. CASE \E j \in Jobs : Crash(j)
    BY <1>6, <1>12
  <1>. QED  BY <1>7, <1>8, <1>9, <1>10, <1>11, <1>12 DEF World

\* What disturbing every command leaves of one.
LEMMA Disturbed ==
    ASSUME TypeOK, Disturb, NEW k \in Jobs
    PROVE  /\ ~job'[k].calm /\ job'[k].pc = job[k].pc /\ job'[k].id = job[k].id
           /\ job'[k].at = job[k].at
           /\ Placed(job[k]) /\ UNCHANGED taken => Placed(job[k])'
  <1>1. PICK r \in Job : r = job[k]
    BY JobType
  <1>2. PICK n : n = job'[k]
    OBVIOUS
  <1>3. n = [r EXCEPT !.calm = FALSE]
    BY <1>1, <1>2 DEF Disturb
  <1>4. /\ ~n.calm /\ n.pc = r.pc /\ n.id = r.id /\ n.at = r.at
        /\ n.command = r.command /\ n.mended = r.mended
    BY <1>3 DEF Job
  <1>5. Placed(r) /\ UNCHANGED taken => Placed(n)'
    BY <1>4 DEF Placed
  <1>. QED  BY <1>1, <1>2, <1>4, <1>5 DEF Placed

\* A process that has done nothing stands nowhere and reports nothing.
LEMMA FreePlaced ==
    ASSUME TypeOK
    PROVE  Placed(Free) /\ ~Undisturbed(Free) /\ Free.pc = "idle" /\ Free.command = None
           /\ Free.id = 0 /\ Free.mended = {}
  <1>1. Free.pc = "idle" /\ Free.command = None /\ Free.id = 0 /\ Free.mended = {}
    BY DEF Free
  <1>2. ~Undisturbed(Free)
    BY <1>1 DEF Undisturbed
  <1>. HIDE DEF Free
  <1>3. Placed(Free)
    BY <1>1, CommandsAssumption DEF Placed, Choosing, Copying, Healing, TypeOK
  <1>. QED  BY <1>1, <1>2, <1>3

\* The base invariant holds at first and is kept.
LEMMA BaseInit == Init => BaseInv
  <1>. SUFFICES ASSUME Init PROVE BaseInv
    OBVIOUS
  <1>1. TypeOK
    BY FreeType, ConfigAssumption DEF Init, TypeOK, ShapedJob, Cell
  <1>2. \A j \in Jobs : job[j] = Free
    BY DEF Init
  <1>3. PlacedInv
    BY <1>1, <1>2, FreePlaced DEF PlacedInv
  <1>4. CalmInv
    BY <1>1, <1>2, FreePlaced DEF CalmInv
  <1>5. KnownInv
    BY DEF Init, KnownInv
  <1>. QED  BY <1>3, <1>4, <1>5 DEF BaseInv

LEMMA KnownNext ==
    ASSUME TypeOK, TypeOK', HealInv, BaseInv, [Next]_vars
    PROVE  KnownInv'
  <1>1. taken \in Nat /\ \A b \in Backends : has[b] \subseteq Ids
    BY ConfigAssumption DEF TypeOK
  <1>2. CASE World
    <2>1. CASE UNCHANGED taken /\ \A b \in Backends : has'[b] \subseteq has[b]
      <3>1. \A b \in Backends, x \in Ids, f \in Files :
                data'[b][x][f] # data[b][x][f] =>
                    data[b][x][f] = "good" \/ data'[b][x][f] = "none"
        BY <1>2, <2>1, WorldStep
      <3>. QED  BY <2>1, <3>1 DEF BaseInv, KnownInv
    <2>2. ASSUME taken' = taken + 1,
                 has'[Primary] = has[Primary] \cup {taken + 1},
                 \A b \in Backends \ {Primary} : has'[b] = has[b],
                 \A x \in Ids \ {taken + 1} : \A b \in Backends : data'[b][x] = data[b][x]
          PROVE  KnownInv'
      <3>1. \A b \in Backends : has'[b] \subseteq 1..taken'
        BY <1>1, <2>2 DEF BaseInv, KnownInv
      <3>2. \A b \in Backends, x \in Ids, f \in Files : x > taken' => data'[b][x][f] = "none"
        <4>. SUFFICES ASSUME NEW b \in Backends, NEW x \in Ids, NEW f \in Files, x > taken'
                      PROVE  data'[b][x][f] = "none"
          OBVIOUS
        <4>1. x # taken + 1 /\ x > taken
          BY <1>1, <2>2 DEF Ids
        <4>. QED  BY <2>2, <4>1 DEF BaseInv, KnownInv
      <3>. QED  BY <3>1, <3>2 DEF KnownInv
    <2>3. CASE UNCHANGED <<taken, has, data>>
      BY <2>3 DEF BaseInv, KnownInv
    <2>. QED  BY <1>2, <2>1, <2>2, <2>3, WorldStep
  <1>3. ASSUME NEW j \in Jobs, Start(j) \/ Step(j)
        PROVE  KnownInv'
    <2>1. UNCHANGED taken
      BY <1>3, OneSteps
    <2>2. PICK n : n = job'[j]
      OBVIOUS
    <2>3. UNCHANGED store \/ Written(job[j], n)
      BY <1>3, <2>2, StartStep, StepPlaced DEF BaseInv, PlacedInv
    <2>4. CASE UNCHANGED store
      BY <2>1, <2>4 DEF BaseInv, KnownInv
    <2>5. CASE Written(job[j], n)
      <3>1. \A b \in Backends : has'[b] \subseteq 1..taken
        BY <2>5 DEF Written, BaseInv, KnownInv
      <3>2. \A b \in Backends, x \in Ids, f \in Files : x > taken => data'[b][x][f] = "none"
        <4>1. n.id \in Int /\ n.id <= taken
          BY <1>1, <2>5 DEF Written
        <4>2. \A x \in Ids : x > taken => x # n.id
          BY <1>1, <4>1 DEF Ids
        <4>. QED  BY <2>5, <4>2 DEF Written, BaseInv, KnownInv
      <3>. QED  BY <2>1, <3>1, <3>2 DEF KnownInv
    <2>. QED  BY <2>3, <2>4, <2>5
  <1>4. CASE UNCHANGED vars
    BY <1>4 DEF vars, BaseInv, KnownInv
  <1>. QED  BY <1>2, <1>3, <1>4 DEF Next

LEMMA PlacedNext ==
    ASSUME TypeOK, TypeOK', HealInv, BaseInv, [Next]_vars
    PROVE  PlacedInv'
  <1>1. \A k \in Jobs : Placed(job[k])
    BY DEF BaseInv, PlacedInv
  <1>2. ASSUME NEW k \in Jobs, job'[k] = job[k], taken' \in {taken, taken + 1}
        PROVE  Placed(job[k])'
    <2>1. job[k].id \in Int /\ taken \in Int
      BY JobType DEF Job, TypeOK
    <2>. QED  BY <1>1, <1>2, <2>1 DEF Placed
  <1>3. CASE World
    <2>1. CASE Disturb /\ UNCHANGED taken
      BY <1>1, <2>1, Disturbed DEF PlacedInv
    <2>2. ASSUME NEW j \in Jobs, job' = [job EXCEPT ![j] = Free], UNCHANGED taken
          PROVE  PlacedInv'
      <3>1. \A k \in Jobs \ {j} : job'[k] = job[k]
        BY <2>2 DEF TypeOK
      <3>2. job'[j] = Free
        BY <2>2 DEF TypeOK
      <3>3. Placed(job[j])'
        BY <3>2, FreePlaced, CommandsAssumption
           DEF Placed, Choosing, Copying, Healing, TypeOK
      <3>. QED  BY <1>2, <2>2, <3>1, <3>3 DEF PlacedInv
    <2>3. CASE UNCHANGED job /\ taken' \in {taken, taken + 1}
      BY <1>2, <2>3 DEF PlacedInv
    <2>. QED  BY <1>3, <2>1, <2>2, <2>3, WorldStep
  <1>4. ASSUME NEW j \in Jobs, Start(j) \/ Step(j)
        PROVE  PlacedInv'
    <2>1. UNCHANGED taken /\ \A k \in Jobs \ {j} : job'[k] = job[k]
      BY <1>4, OneSteps
    <2>2. PICK n : n = job'[j]
      OBVIOUS
    <2>3. Placed(n)
      BY <1>4, <2>2, StartStep, StepPlaced DEF BaseInv, PlacedInv
    <2>4. Placed(job[j])'
      BY <2>1, <2>2, <2>3 DEF Placed
    <2>. QED  BY <1>2, <2>1, <2>4 DEF PlacedInv
  <1>5. CASE UNCHANGED vars
    BY <1>2, <1>5 DEF vars, PlacedInv
  <1>. QED  BY <1>3, <1>4, <1>5 DEF Next

LEMMA CalmNext ==
    ASSUME TypeOK, TypeOK', HealInv, BaseInv, [Next]_vars
    PROVE  CalmInv'
  <1>1. \A k \in Jobs : Undisturbed(job[k]) =>
            up = Backends /\ \A i \in Jobs : job[i].pc = "idle" \/ job[i].calm
    BY DEF BaseInv, CalmInv, At
  <1>2. ASSUME UNCHANGED job, up \subseteq up', up' \subseteq Backends
        PROVE  CalmInv'
    BY <1>1, <1>2 DEF CalmInv, Undisturbed, At
  <1>3. CASE World
    <2>1. CASE Disturb
      BY <2>1, Disturbed DEF CalmInv, Undisturbed
    <2>2. ASSUME NEW j \in Jobs, job' = [job EXCEPT ![j] = Free], UNCHANGED up
          PROVE  CalmInv'
      <3>1. \A k \in Jobs \ {j} : job'[k] = job[k]
        BY <2>2 DEF TypeOK
      <3>2. job'[j].pc = "idle" /\ job'[j].command = None
        BY <2>2 DEF TypeOK, Free
      <3>. QED  BY <1>1, <2>2, <3>1, <3>2 DEF CalmInv, Undisturbed, At
    <2>3. CASE UNCHANGED job /\ up \subseteq up' /\ up' \subseteq Backends
      BY <1>2, <2>3
    <2>. QED  BY <1>3, <2>1, <2>2, <2>3, WorldStep
  <1>4. ASSUME NEW j \in Jobs, Start(j)
        PROVE  CalmInv'
    <2>1. UNCHANGED up /\ \A k \in Jobs \ {j} : job'[k] = job[k]
      BY <1>4, OneSteps
    <2>2. job'[j].calm = Calm
      BY <1>4, StartStep DEF BaseInv
    <2>3. job'[j].calm \in BOOLEAN
      BY JobType DEF TypeOK, Job
    <2>4. Calm <=> up = Backends /\ \A k \in Jobs : job[k].pc = "idle" \/ job[k].calm
      BY DEF Calm, At
    <2>5. ASSUME NEW k \in Jobs, Undisturbed(job[k])'
          PROVE  up = Backends /\ \A i \in Jobs : job[i].pc = "idle" \/ job[i].calm
      <3>1. CASE k = j
        BY <2>2, <2>4, <2>5, <3>1 DEF Undisturbed
      <3>2. CASE k # j
        BY <1>1, <2>1, <2>5, <3>2 DEF Undisturbed
      <3>. QED  BY <3>1, <3>2
    <2>6. ASSUME NEW k \in Jobs, Undisturbed(job[k])'
          PROVE  job'[j].calm
      <3>1. Calm
        BY <2>4, <2>5, <2>6
      <3>. QED  BY <2>2, <3>1
    <2>. QED  BY <2>1, <2>5, <2>6 DEF CalmInv, At
  <1>5. ASSUME NEW j \in Jobs, Step(j)
        PROVE  CalmInv'
    <2>1. UNCHANGED up /\ \A k \in Jobs \ {j} : job'[k] = job[k]
      BY <1>5, OneSteps
    <2>2. /\ job'[j].command = job[j].command /\ job'[j].calm = job[j].calm
          /\ job[j].pc # "idle"
      BY <1>5, StepPlaced DEF BaseInv, PlacedInv
    <2>3. \A k \in Jobs : Undisturbed(job[k])' => Undisturbed(job[k])
      BY <2>1, <2>2 DEF Undisturbed
    <2>4. \A k \in Jobs : job[k].pc = "idle" \/ job[k].calm =>
              job'[k].pc = "idle" \/ job'[k].calm
      BY <2>1, <2>2
    <2>. QED  BY <1>1, <2>1, <2>3, <2>4 DEF CalmInv, At
  <1>6. CASE UNCHANGED vars
    BY <1>2, <1>6 DEF vars, TypeOK
  <1>. QED  BY <1>3, <1>4, <1>5, <1>6 DEF Next

\* What is known of a record stays when backends and snapshots do.
LEMMA StillFits ==
    ASSUME UNCHANGED <<has, data, entries>>, NEW n
    PROVE  /\ FromPrimary(n) => FromPrimary(n)'
           /\ CopyFit(n) => CopyFit(n)'
           /\ Backed(n) => Backed(n)'
           /\ MendFit(n) => MendFit(n)'
  BY DEF FromPrimary, CopyFit, Mirrors, Backed, MendFit, Mended, Sound, Newest

\* Commands that only copy and heal from the primary leave what it has, and mirror it.
LEMMA StepCopies ==
    ASSUME TypeOK, HealInv, KnownInv, NEW j \in Jobs, Step(j), Placed(job[j]),
           FromPrimary(job[j]), CopyFit(job[j]), NEW n, n = job'[j]
    PROVE  Mirrored /\ FromPrimary(n)' /\ CopyFit(n)'
  <1>1. UNCHANGED env
    BY OneSteps
  <1>2. UNCHANGED store => Mirrored
    BY <1>1 DEF Mirrored
  <1>3. ASSUME Onward(job[j], n), UNCHANGED store
        PROVE  Mirrored /\ FromPrimary(n)' /\ CopyFit(n)'
    <2>1. FromPrimary(n) /\ CopyFit(n)
      BY <1>3 DEF Onward
    <2>. QED  BY <1>1, <1>2, <1>3, <2>1, StillFits
  <1>4. CASE \/ \E b \in Backends : Assess(j, b)
             \/ Judge(j) \/ Pick(j) \/ RemedyDone(j) \/ ReplicateDone(j) \/ MendDone(j)
    BY <1>3, <1>4, PolicySteps
  <1>5. CASE \/ \E b \in Backends : Remedy(j, b) \/ Replicate(j, b)
             \/ \E f \in Files : Read(j, f)
             \/ CopyDone(j) \/ VerifyDone(j)
    BY <1>3, <1>5, CopySteps
  <1>6. CASE \/ \E f \in Files : Scan(j, f) \/ Heal(j, f)
             \/ \E b \in Backends : Mend(j, b) \/ Fetch(j, b)
             \/ ScanDone(j) \/ HealDone(j) \/ GiveUp(j) \/ Check(j)
    BY <1>3, <1>6, HealSteps
  <1>7. CASE StoreMeta(j)
    <2>1. UNCHANGED data /\ FromPrimary(n)' /\ CopyFit(n)'
      BY <1>7, StoreMetaStep, Zenon
    <2>2. Mirrored
      BY <1>1, <2>1 DEF Mirrored
    <2>. QED  BY <2>1, <2>2
  <1>8. CASE Write(j)
    BY <1>8, WriteStep, Zenon
  <1>9. CASE Patch(j)
    BY <1>9, PatchStep, Zenon
  <1>. QED  BY <1>4, <1>5, <1>6, <1>7, <1>8, <1>9, Zenon DEF Step

\* A process that runs while another's command is undisturbed is undisturbed too.
LEMMA RunningCalm ==
    ASSUME TypeOK, BaseInv, NEW j \in Jobs, job[j].pc # "idle",
           NEW k \in Jobs, Undisturbed(job[k])
    PROVE  Undisturbed(job[j]) /\ up = Backends
  BY DEF BaseInv, CalmInv, PlacedInv, Placed, Undisturbed, At

\* Without repairs by hand, what undisturbed commands have copied is kept.
LEMMA CopyNext ==
    ASSUME "heal" \notin Commands, TypeOK, TypeOK', HealInv, BaseInv, CopyInv, [Next]_vars
    PROVE  CopyInv'
  <1>1. \A k \in Jobs : job[k] \in ShapedJob /\ Placed(job[k])
    BY JobType DEF ShapedJob, BaseInv, PlacedInv
  <1>2. ASSUME NEW k \in Jobs, job'[k] = job[k], Undisturbed(job[k]), Mirrored
        PROVE  FromPrimary(job[k])' /\ CopyFit(job[k])'
    <2>1. PICK r : r = job[k]
      OBVIOUS
    <2>2. FromPrimary(r) /\ CopyFit(r) /\ r \in ShapedJob /\ Placed(r)
      BY <1>1, <1>2, <2>1 DEF CopyInv
    <2>3. FromPrimary(r)' /\ CopyFit(r)'
      BY <1>2, <2>2, MirrorKeeps
    <2>. QED  BY <1>2, <2>1, <2>3 DEF FromPrimary, CopyFit, Mirrors
  <1>3. ASSUME NEW k \in Jobs, job'[k] = job[k], Undisturbed(job[k]),
               UNCHANGED <<has, data, entries>>
        PROVE  FromPrimary(job[k])' /\ CopyFit(job[k])'
    <2>1. Mirrored
      BY <1>3 DEF Mirrored
    <2>. QED  BY <1>2, <1>3, <2>1
  <1>4. CASE World
    <2>1. CASE Disturb
      BY <2>1, Disturbed DEF CopyInv, Undisturbed
    <2>2. ASSUME NEW j \in Jobs, job' = [job EXCEPT ![j] = Free],
                 UNCHANGED <<has, data, entries>>
          PROVE  CopyInv'
      <3>1. \A k \in Jobs \ {j} : job'[k] = job[k]
        BY <2>2 DEF TypeOK
      <3>2. job'[j].command = None
        BY <2>2, FreePlaced DEF TypeOK
      <3>. QED  BY <1>3, <2>2, <3>1, <3>2 DEF CopyInv, Undisturbed
    <2>3. CASE UNCHANGED job /\ UNCHANGED <<has, data, entries>>
      BY <1>3, <2>3 DEF CopyInv, Undisturbed
    <2>4. ASSUME UNCHANGED job,
                 \A x \in Ids \ {taken + 1} :
                     /\ entries'[x] = entries[x]
                     /\ \A b \in Backends : data'[b][x] = data[b][x]
          PROVE  CopyInv'
      <3>1. 1..taken \subseteq Ids \ {taken + 1}
        BY ConfigAssumption DEF TypeOK, Ids
      <3>2. Mirrored
        BY <2>4, <3>1 DEF Mirrored, Backends
      <3>. QED  BY <1>2, <2>4, <3>2 DEF CopyInv, Undisturbed
    <2>. QED  BY <1>4, <2>1, <2>2, <2>3, <2>4, WorldStep
  <1>5. ASSUME NEW j \in Jobs, Start(j)
        PROVE  CopyInv'
    <2>1. UNCHANGED env /\ \A k \in Jobs \ {j} : job'[k] = job[k]
      BY <1>5, OneSteps
    <2>2. PICK n : n = job'[j]
      OBVIOUS
    <2>3. UNCHANGED store /\ n.pc \in Rests /\ n.fresh = {}
      BY <1>5, <2>2, StartStep DEF BaseInv
    <2>4. FromPrimary(n) /\ CopyFit(n)
      BY <2>3 DEF FromPrimary, CopyFit, Rests, Healing
    <2>5. FromPrimary(n)' /\ CopyFit(n)'
      BY <2>1, <2>3, <2>4, StillFits
    <2>6. FromPrimary(job[j])' /\ CopyFit(job[j])'
      BY <2>2, <2>5 DEF FromPrimary, CopyFit, Mirrors
    <2>. QED  BY <1>3, <2>1, <2>3, <2>6 DEF CopyInv, Undisturbed
  <1>6. ASSUME NEW j \in Jobs, Step(j)
        PROVE  CopyInv'
    <2>1. UNCHANGED env /\ \A k \in Jobs \ {j} : job'[k] = job[k]
      BY <1>6, OneSteps
    <2>2. PICK n : n = job'[j]
      OBVIOUS
    <2>3. n.command = job[j].command /\ n.calm = job[j].calm /\ job[j].pc # "idle"
      BY <1>1, <1>6, <2>2, StepPlaced DEF BaseInv
    <2>4. CASE Undisturbed(job[j])
      <3>1. Mirrored /\ FromPrimary(n)' /\ CopyFit(n)'
        <4>1. FromPrimary(job[j]) /\ CopyFit(job[j])
          BY <2>4 DEF CopyInv
        <4>. QED  BY <1>1, <1>6, <2>2, <4>1, StepCopies DEF BaseInv
      <3>2. FromPrimary(job[j])' /\ CopyFit(job[j])'
        BY <2>2, <3>1 DEF FromPrimary, CopyFit, Mirrors
      <3>. QED  BY <1>2, <2>1, <3>1, <3>2 DEF CopyInv, Undisturbed
    <2>5. CASE ~Undisturbed(job[j])
      <3>1. \A k \in Jobs : ~Undisturbed(job[k])
        BY <2>3, <2>5, RunningCalm
      <3>2. \A k \in Jobs : ~Undisturbed(job[k])'
        BY <2>1, <2>2, <2>3, <3>1 DEF Undisturbed
      <3>. QED  BY <3>2 DEF CopyInv
    <2>. QED  BY <2>4, <2>5
  <1>7. CASE UNCHANGED vars
    BY <1>3, <1>7 DEF vars, CopyInv, Undisturbed
  <1>. QED  BY <1>4, <1>5, <1>6, <1>7 DEF Next

\* The base invariant holds in every reachable state.
LEMMA BaseInvariant == Spec => [](TypeOK /\ HealInv /\ BaseInv)
  <1>1. TypeOK /\ TypeOK' /\ HealInv /\ BaseInv /\ [Next]_vars => BaseInv'
    BY KnownNext, PlacedNext, CalmNext DEF BaseInv
  <1>. QED  BY <1>1, BaseInit, HealInvariant, PTL DEF Spec

\* replicate_snapshot: when the copies are verified, a replica that the command reports
\* as freshly replicated holds every entry of the snapshot undamaged, whatever other
\* replications and maintenance run beside it, as long as no fault hit since it began.
\* Repairs by hand are excluded: a replication that read a damaged file before the
\* repair may write it over the repaired copy after the verification.
THEOREM FreshReplicasWhole ==
    ASSUME VerifyAfter, "heal" \notin Commands
    PROVE  Spec => []FreshReplicaWhole
  <1>1. Init => CopyInv
    <2>. SUFFICES ASSUME Init PROVE CopyInv
      OBVIOUS
    <2>1. TypeOK
      BY FreeType, ConfigAssumption DEF Init, TypeOK, ShapedJob, Cell
    <2>. QED  BY <2>1, FreePlaced DEF Init, CopyInv
  <1>2. TypeOK /\ TypeOK' /\ HealInv /\ BaseInv /\ CopyInv /\ [Next]_vars => CopyInv'
    BY CopyNext
  <1>3. CopyInv => FreshReplicaWhole
    <2>. SUFFICES ASSUME CopyInv, NEW j \in Jobs,
                         job[j].command = "replicate", job[j].calm,
                         NEW t \in job[j].fresh
                  PROVE  Whole(t, job[j].id)
      BY DEF FreshReplicaWhole
    <2>1. Undisturbed(job[j])
      BY CommandsAssumption DEF Undisturbed
    <2>2. CopyFit(job[j])
      BY <2>1 DEF CopyInv
    <2>. QED  BY <2>2 DEF CopyFit, Whole
  <1>. QED  BY <1>1, <1>2, <1>3, BaseInvariant, PTL DEF Spec

-----------------------------------------------------------------------------
(* Good copies are kept.                                                   *)

\* Any non-empty set of natural numbers has a least member.
LEMMA LeastNatural ==
    ASSUME NEW T, T \subseteq Nat, T # {}
    PROVE  \E n \in T : \A m \in T : n <= m
  <1> DEFINE R == OpToRel(<,Nat)
  <1>1. IsWellFoundedOn(R, Nat)
    BY NatLessThanWellFounded, Zenon
  <1>2. R = {ss \in Nat \X Nat : ss[1] < ss[2]}
    BY Zenon DEF OpToRel
  <1>3. \A x, y \in Nat : y < x => <<y, x>> \in R
    BY <1>2
  <1>. HIDE DEF R
  <1>4. \E x \in T : \A y \in T : ~ (<<y, x>> \in R)
    BY <1>1, WFMin, Zenon
  <1>5. PICK n \in T : \A m \in T : ~ (<<m, n>> \in R)
    BY <1>4, Zenon
  <1>6. \A m \in T : ~ (m < n)
    BY <1>3, <1>5, Zenon
  <1>. QED  BY <1>6

\* A backend that answers and has no latest snapshot has none at all.
LEMMA NoLatest ==
    ASSUME TypeOK, NEW b \in up, Latest(b) = {}
    PROVE  has[b] = {}
  <1>1. has[b] \subseteq 1..MaxSnaps /\ MaxSnaps \in Nat
    BY ConfigAssumption DEF TypeOK, Ids
  <1> DEFINE T == {MaxSnaps - x : x \in has[b]}
  <1>. SUFFICES ASSUME has[b] # {} PROVE FALSE
    OBVIOUS
  <1>2. T \subseteq Nat /\ T # {}
    BY <1>1
  <1>3. PICK n \in T : \A m \in T : n <= m
    BY <1>2, LeastNatural
  <1>4. PICK x \in has[b] : n = MaxSnaps - x
    BY <1>3
  <1>5. ASSUME NEW y \in has[b]
        PROVE  y <= x
    <2>1. MaxSnaps - y \in T
      OBVIOUS
    <2>2. n <= MaxSnaps - y
      BY <1>3, <2>1, Zenon
    <2>. HIDE DEF T
    <2>3. x \in Nat /\ y \in Nat
      BY <1>1
    <2>. QED  BY <1>1, <1>4, <2>2, <2>3
  <1>. QED  BY <1>4, <1>5 DEF Latest, Newest

\* Without repairs by hand and deletions, a file is where its snapshot is.
LEMMA HeldNext ==
    ASSUME "heal" \notin Commands, "delete" \notin Faults,
           TypeOK, TypeOK', HealInv, BaseInv, HeldInv, [Next]_vars
    PROVE  HeldInv'
  <1> DEFINE Busy == {"read", "write", "verify"} \cup Healing
  <1>1. /\ \A b \in Backends, x \in Ids :
               x \notin has[b] => \A f \in Files : data[b][x][f] = "none"
        /\ \A k \in Jobs : job[k].pc \in Busy => job[k].id \in has[job[k].at]
    BY DEF HeldInv
  <1>2. \A k \in Jobs : job[k].pc \in Busy => job[k].at \in Backends
    BY JobType DEF Shaped, Healing
  <1>3. \A k \in Jobs : Placed(job[k])
    BY DEF BaseInv, PlacedInv
  <1>4. "idle" \notin Busy
    BY DEF Healing
  <1>. HIDE DEF Busy
  <1>5. CASE World
    <2>1. ASSUME Disturb, UNCHANGED has,
                 \A b \in Backends, x \in Ids, f \in Files :
                     data'[b][x][f] # data[b][x][f] =>
                         data[b][x][f] = "good" \/ data'[b][x][f] = "none"
          PROVE  HeldInv'
      <3>1. \A k \in Jobs : /\ job'[k].pc = job[k].pc /\ job'[k].id = job[k].id
                            /\ job'[k].at = job[k].at
        BY <2>1, Disturbed
      <3>. QED  BY <1>1, <2>1, <3>1 DEF HeldInv, Busy
    <2>2. ASSUME NEW j \in Jobs, job' = [job EXCEPT ![j] = Free], UNCHANGED <<has, data>>
          PROVE  HeldInv'
      <3>1. \A k \in Jobs \ {j} : job'[k] = job[k]
        BY <2>2 DEF TypeOK
      <3>2. job'[j].pc = "idle"
        BY <2>2, FreePlaced DEF TypeOK
      <3>. QED  BY <1>1, <1>4, <2>2, <3>1, <3>2 DEF HeldInv, Busy
    <2>3. CASE UNCHANGED <<job, has, data>>
      BY <1>1, <2>3 DEF HeldInv, Busy
    <2>4. ASSUME UNCHANGED job,
                 has'[Primary] = has[Primary] \cup {taken + 1},
                 \A b \in Backends \ {Primary} : has'[b] = has[b],
                 \A x \in Ids \ {taken + 1} : \A b \in Backends : data'[b][x] = data[b][x],
                 \A b \in Backends \ {Primary} : data'[b] = data[b]
          PROVE  HeldInv'
      <3>1. \A b \in Backends : has[b] \subseteq has'[b]
        BY <2>4
      <3>2. \A b \in Backends, x \in Ids :
                x \notin has'[b] => \A f \in Files : data'[b][x][f] = "none"
        <4>. SUFFICES ASSUME NEW b \in Backends, NEW x \in Ids, x \notin has'[b],
                             NEW f \in Files
                      PROVE  data'[b][x][f] = "none"
          OBVIOUS
        <4>1. data[b][x][f] = "none"
          BY <1>1, <3>1
        <4>2. data'[b][x] = data[b][x]
          BY <2>4
        <4>. QED  BY <4>1, <4>2
      <3>. QED  BY <1>1, <1>2, <2>4, <3>1, <3>2 DEF HeldInv, Busy
    <2>. QED  BY <1>5, <2>1, <2>2, <2>3, <2>4, WorldStep
  <1>6. ASSUME NEW j \in Jobs, Start(j)
        PROVE  HeldInv'
    <2>1. \A k \in Jobs \ {j} : job'[k] = job[k]
      BY <1>6, OneSteps
    <2>2. UNCHANGED store /\ job'[j].pc \in Rests
      BY <1>6, StartStep DEF BaseInv
    <2>3. job'[j].pc \notin Busy
      BY <2>2 DEF Rests, Busy, Healing
    <2>. QED  BY <1>1, <2>1, <2>2, <2>3 DEF HeldInv, Busy
  <1>7. ASSUME NEW j \in Jobs, Step(j)
        PROVE  HeldInv'
    <2>1. \A k \in Jobs \ {j} : job'[k] = job[k]
      BY <1>7, OneSteps
    <2>2. PICK n : n = job'[j]
      OBVIOUS
    <2>3. UNCHANGED store \/ Written(job[j], n)
      BY <1>3, <1>7, <2>2, StepPlaced DEF BaseInv
    <2>4. \A b \in Backends : has[b] \subseteq has'[b]
      BY <2>3 DEF Written
    <2>5. \A b \in Backends, x \in Ids :
              x \notin has'[b] => \A f \in Files : data'[b][x][f] = "none"
      <3>. SUFFICES ASSUME NEW b \in Backends, NEW x \in Ids, x \notin has'[b],
                           NEW f \in Files
                    PROVE  data'[b][x][f] = "none"
        OBVIOUS
      <3>1. data[b][x][f] = "none" /\ x \notin has[b]
        BY <1>1, <2>4
      <3>2. ASSUME Written(job[j], n), data'[b][x][f] # data[b][x][f]
            PROVE  FALSE
        <4>1. x = job[j].id /\ b = job[j].at /\ job[j].pc \in Busy
          BY <3>2 DEF Written, Busy, Healing
        <4>. QED  BY <1>1, <3>1, <4>1
      <3>. QED  BY <2>3, <3>1, <3>2
    <2>6. n.pc \in Busy => n.id \in has'[n.at]
      <3>1. CASE \/ \E b \in Backends : Assess(j, b)
                 \/ Judge(j) \/ Pick(j) \/ RemedyDone(j) \/ ReplicateDone(j) \/ MendDone(j)
        <4>1. n.pc \in Rests
          BY <2>2, <3>1, PolicySteps DEF BaseInv
        <4>. QED  BY <4>1 DEF Rests, Busy, Healing
      <3>2. CASE \/ \E b \in Backends : Remedy(j, b) \/ Replicate(j, b)
                 \/ \E f \in Files : Read(j, f)
                 \/ CopyDone(j) \/ VerifyDone(j)
        <4>1. /\ UNCHANGED store /\ n.pc \notin Healing /\ n.id = job[j].id
              /\ n.pc \in {"read", "write", "verify"} =>
                     job[j].pc \in {"read", "write", "verify"} /\ n.at = job[j].at
          BY <2>2, <3>2, CopySteps
        <4>. QED  BY <1>1, <4>1 DEF Busy
      <3>3. CASE \/ \E f \in Files : Scan(j, f) \/ Heal(j, f)
                 \/ \E b \in Backends : Mend(j, b) \/ Fetch(j, b)
                 \/ ScanDone(j) \/ HealDone(j) \/ GiveUp(j) \/ Check(j)
        <4>1. /\ UNCHANGED store
              /\ n.pc \in Healing \cup {"verify"} =>
                     \/ /\ job[j].pc \in Healing \cup {"verify"}
                        /\ n.at = job[j].at /\ n.id = job[j].id
                     \/ n.id \in has[n.at]
              /\ n.pc \notin {"read", "write"}
          BY <2>2, <3>3, HealSteps DEF BaseInv
        <4>. QED  BY <1>1, <4>1 DEF Busy
      <3>4. CASE StoreMeta(j)
        <4>1. /\ n.pc \notin Healing \cup {"store", "verify"}
              /\ n.pc \in {"read", "write"} => n.id \in has'[n.at]
          BY <1>3, <2>2, <3>4, StoreMetaStep, Zenon
        <4>. QED  BY <4>1 DEF Busy
      <3>5. CASE Write(j)
        <4>1. /\ n.pc \notin Healing \cup {"store", "write", "verify"}
              /\ n.pc = "read" => n.at = job[j].at
              /\ job[j].pc = "write" /\ UNCHANGED has /\ Written(job[j], n)
          BY <1>3, <2>2, <3>5, WriteStep, Zenon
        <4>2. n.id = job[j].id
          BY <4>1 DEF Written
        <4>. QED  BY <1>1, <4>1, <4>2 DEF Busy
      <3>6. CASE Patch(j)
        <4>1. /\ job[j].pc = "patch" /\ n.at = job[j].at
              /\ UNCHANGED has /\ Written(job[j], n)
          BY <1>3, <2>2, <3>6, PatchStep, Zenon
        <4>2. n.id = job[j].id
          BY <4>1 DEF Written
        <4>. QED  BY <1>1, <4>1, <4>2 DEF Busy, Healing
      <3>. QED  BY <1>7, <3>1, <3>2, <3>3, <3>4, <3>5, <3>6, Zenon DEF Step
    <2>7. \A k \in Jobs : job'[k].pc \in Busy => job'[k].id \in has'[job'[k].at]
      <3>. SUFFICES ASSUME NEW k \in Jobs, job'[k].pc \in Busy
                    PROVE  job'[k].id \in has'[job'[k].at]
        OBVIOUS
      <3>1. CASE k = j
        BY <2>2, <2>6, <3>1
      <3>2. CASE k # j
        <4>1. job'[k] = job[k]
          BY <2>1, <3>2
        <4>2. job[k].id \in has[job[k].at] /\ job[k].at \in Backends
          BY <1>1, <1>2, <4>1
        <4>. QED  BY <2>4, <4>1, <4>2
      <3>. QED  BY <3>1, <3>2
    <2>. QED  BY <2>5, <2>7 DEF HeldInv, Busy
  <1>8. CASE UNCHANGED vars
    BY <1>1, <1>8 DEF vars, HeldInv, Busy
  <1>. QED  BY <1>5, <1>6, <1>7, <1>8 DEF Next

\* A command that nothing has disturbed only copies to a target that lacks the snapshot.
LEMMA StepBacked ==
    ASSUME TypeOK, HealInv, BaseInv, HeldInv, NEW j \in Jobs, Step(j),
           up = Backends, FromPrimary(job[j]), Backed(job[j]), NEW n, n = job'[j]
    PROVE  Backed(n)'
  <1>1. UNCHANGED env /\ Placed(job[j])
    BY OneSteps DEF BaseInv, PlacedInv
  <1>2. ASSUME Backed(n), UNCHANGED store
        PROVE  Backed(n)'
    BY <1>1, <1>2, StillFits
  <1>3. CASE \/ \E b \in Backends : Assess(j, b)
             \/ Judge(j) \/ Pick(j) \/ RemedyDone(j) \/ ReplicateDone(j) \/ MendDone(j)
    BY <1>2, <1>3, PolicySteps DEF BaseInv
  <1>4. CASE \/ \E b \in Backends : Remedy(j, b) \/ Replicate(j, b)
             \/ \E f \in Files : Read(j, f)
             \/ CopyDone(j) \/ VerifyDone(j)
    <2>1. /\ UNCHANGED store
          /\ n.pc # "store" => Backed(n)
          /\ n.pc = "store" => /\ n.at \in Backends /\ n.id \in Ids
                               /\ Latest(n.at) = {} \/ ~(n.at \in up /\ n.id \in has[n.at])
      BY <1>4, CopySteps
    <2>2. CASE n.pc = "store"
      <3>1. n.at \in Backends /\ n.id \in Ids /\ n.id \notin has[n.at]
        BY <2>1, <2>2, NoLatest
      <3>2. \A f \in Files : data[n.at][n.id][f] = "none"
        BY <3>1 DEF HeldInv
      <3>3. Backed(n)
        BY <3>2 DEF Backed
      <3>. QED  BY <1>2, <2>1, <3>3
    <2>. QED  BY <1>2, <2>1, <2>2
  <1>5. CASE \/ \E f \in Files : Scan(j, f) \/ Heal(j, f)
             \/ \E b \in Backends : Mend(j, b) \/ Fetch(j, b)
             \/ ScanDone(j) \/ HealDone(j) \/ GiveUp(j) \/ Check(j)
    BY <1>2, <1>5, HealSteps DEF BaseInv
  <1>6. CASE StoreMeta(j)
    BY <1>1, <1>6, StoreMetaStep, Zenon
  <1>7. CASE Write(j)
    BY <1>1, <1>7, WriteStep, Zenon
  <1>8. CASE Patch(j)
    BY <1>1, <1>8, PatchStep, Zenon
  <1>. QED  BY <1>3, <1>4, <1>5, <1>6, <1>7, <1>8, Zenon DEF Step

\* A copy under way on an undisturbed command never holds more than the primary does.
LEMMA BackedNext ==
    ASSUME "heal" \notin Commands, "delete" \notin Faults,
           TypeOK, HealInv, BaseInv, CopyInv, HeldInv, BackedInv, [Next]_vars
    PROVE  BackedInv'
  <1>1. \A k \in Jobs : job[k] \in ShapedJob /\ Placed(job[k])
    BY JobType DEF ShapedJob, BaseInv, PlacedInv
  <1>2. ASSUME NEW k \in Jobs, job'[k] = job[k], Undisturbed(job[k]), Mirrored
        PROVE  Backed(job[k])'
    <2>1. PICK r : r = job[k]
      OBVIOUS
    <2>2. Backed(r) /\ r \in ShapedJob /\ Placed(r)
      BY <1>1, <1>2, <2>1 DEF BackedInv
    <2>3. Backed(r)'
      BY <1>2, <2>2, MirrorKeeps
    <2>. QED  BY <1>2, <2>1, <2>3 DEF Backed
  <1>3. ASSUME NEW k \in Jobs, job'[k] = job[k], Undisturbed(job[k]),
               UNCHANGED <<has, data, entries>>
        PROVE  Backed(job[k])'
    <2>1. Mirrored
      BY <1>3 DEF Mirrored
    <2>. QED  BY <1>2, <1>3, <2>1
  <1>4. CASE World
    <2>1. CASE Disturb
      BY <2>1, Disturbed DEF BackedInv, Undisturbed
    <2>2. ASSUME NEW j \in Jobs, job' = [job EXCEPT ![j] = Free],
                 UNCHANGED <<has, data, entries>>
          PROVE  BackedInv'
      <3>1. \A k \in Jobs \ {j} : job'[k] = job[k]
        BY <2>2 DEF TypeOK
      <3>2. job'[j].command = None
        BY <2>2, FreePlaced DEF TypeOK
      <3>. QED  BY <1>3, <2>2, <3>1, <3>2 DEF BackedInv, Undisturbed
    <2>3. CASE UNCHANGED job /\ UNCHANGED <<has, data, entries>>
      BY <1>3, <2>3 DEF BackedInv, Undisturbed
    <2>4. ASSUME UNCHANGED job,
                 \A x \in Ids \ {taken + 1} :
                     /\ entries'[x] = entries[x]
                     /\ \A b \in Backends : data'[b][x] = data[b][x]
          PROVE  BackedInv'
      <3>1. 1..taken \subseteq Ids \ {taken + 1}
        BY ConfigAssumption DEF TypeOK, Ids
      <3>2. Mirrored
        BY <2>4, <3>1 DEF Mirrored, Backends
      <3>. QED  BY <1>2, <2>4, <3>2 DEF BackedInv, Undisturbed
    <2>. QED  BY <1>4, <2>1, <2>2, <2>3, <2>4, WorldStep
  <1>5. ASSUME NEW j \in Jobs, Start(j)
        PROVE  BackedInv'
    <2>1. UNCHANGED env /\ \A k \in Jobs \ {j} : job'[k] = job[k]
      BY <1>5, OneSteps
    <2>2. UNCHANGED store /\ job'[j].pc \in Rests
      BY <1>5, StartStep DEF BaseInv
    <2>3. Backed(job[j])'
      BY <2>2 DEF Backed, Rests
    <2>. QED  BY <1>3, <2>1, <2>2, <2>3 DEF BackedInv, Undisturbed
  <1>6. ASSUME NEW j \in Jobs, Step(j)
        PROVE  BackedInv'
    <2>1. UNCHANGED env /\ \A k \in Jobs \ {j} : job'[k] = job[k]
      BY <1>6, OneSteps
    <2>2. PICK n : n = job'[j]
      OBVIOUS
    <2>3. n.command = job[j].command /\ n.calm = job[j].calm /\ job[j].pc # "idle"
      BY <1>1, <1>6, <2>2, StepPlaced DEF BaseInv
    <2>4. CASE Undisturbed(job[j])
      <3>1. up = Backends /\ FromPrimary(job[j]) /\ CopyFit(job[j]) /\ Backed(job[j])
        BY <2>4 DEF BaseInv, CalmInv, CopyInv, BackedInv
      <3>2. Mirrored
        BY <1>1, <1>6, <2>2, <3>1, StepCopies DEF BaseInv
      <3>3. Backed(n)'
        BY <1>6, <2>2, <3>1, StepBacked
      <3>4. Backed(job[j])'
        BY <2>2, <3>3 DEF Backed
      <3>. QED  BY <1>2, <2>1, <3>2, <3>4 DEF BackedInv, Undisturbed
    <2>5. CASE ~Undisturbed(job[j])
      <3>1. \A k \in Jobs : ~Undisturbed(job[k])
        BY <2>3, <2>5, RunningCalm
      <3>2. \A k \in Jobs : ~Undisturbed(job[k])'
        BY <2>1, <2>2, <2>3, <3>1 DEF Undisturbed
      <3>. QED  BY <3>2 DEF BackedInv
    <2>. QED  BY <2>4, <2>5
  <1>7. CASE UNCHANGED vars
    BY <1>3, <1>7 DEF vars, BackedInv, Undisturbed
  <1>. QED  BY <1>4, <1>5, <1>6, <1>7 DEF Next

\* Commands that no fault has hit spoil no good copy: each writes, of a file, what the
\* primary has of it, and only where the target has nothing better.  Repairs by hand are
\* excluded, and so are deletions, which may leave a target's files without its metadata.
THEOREM GoodCopiesStay ==
    ASSUME "heal" \notin Commands, "delete" \notin Faults
    PROVE  Spec => GoodCopiesKept
  <1> DEFINE CInv == TypeOK /\ HealInv /\ BaseInv /\ CopyInv
             Inv == CInv /\ HeldInv /\ BackedInv
  <1>1. Init => CopyInv /\ HeldInv /\ BackedInv
    <2>. SUFFICES ASSUME Init PROVE CopyInv /\ HeldInv /\ BackedInv
      OBVIOUS
    <2>1. TypeOK
      BY FreeType, ConfigAssumption DEF Init, TypeOK, ShapedJob, Cell
    <2>2. \A j \in Jobs : job[j] = Free
      BY DEF Init
    <2>3. \A j \in Jobs : ~Undisturbed(job[j]) /\ job[j].pc = "idle"
      BY <2>1, <2>2, FreePlaced
    <2>4. HeldInv
      BY <2>3 DEF Init, HeldInv, Healing
    <2>. QED  BY <2>3, <2>4 DEF CopyInv, BackedInv
  <1>2. TypeOK' /\ Inv /\ [Next]_vars => CopyInv' /\ HeldInv' /\ BackedInv'
    BY CopyNext, HeldNext, BackedNext
  <1>3. Inv /\ [Next]_vars =>
            [\A b \in Backends, x \in Ids, f \in Files :
                data[b][x][f] = "good" /\ data'[b][x][f] # "good" =>
                    faults' # faults \/ \E j \in Jobs : ~job[j].calm]_vars
    <2>. SUFFICES ASSUME Inv, Next, UNCHANGED faults, \A j \in Jobs : job[j].calm,
                         NEW b \in Backends, NEW x \in Ids, NEW f \in Files,
                         data[b][x][f] = "good", data'[b][x][f] # "good"
                  PROVE  FALSE
      OBVIOUS
    <2>1. CASE World
      <3>1. faults \in Nat
        BY ConfigAssumption DEF TypeOK
      <3>2. ~(faults' = faults + 1)
        BY <3>1
      <3>3. data' # data
        OBVIOUS
      <3>4. taken' = taken + 1 /\ taken + 1 \in Ids /\ x = taken + 1
        BY <2>1, <3>2, <3>3, WorldStep
      <3>5. data[b][x][f] = "none"
        BY <3>4, ConfigAssumption DEF BaseInv, KnownInv, TypeOK, Ids
      <3>. QED  BY <3>5
    <2>2. ASSUME NEW j \in Jobs, Start(j)
          PROVE  FALSE
      BY <2>2, StartStep DEF BaseInv, store
    <2>3. ASSUME NEW j \in Jobs, Step(j)
          PROVE  FALSE
      <3>1. PICK n : n = job'[j]
        OBVIOUS
      <3>2. Placed(job[j])
        BY DEF BaseInv, PlacedInv
      <3>3. job[j].pc # "idle" /\ (UNCHANGED store \/ Written(job[j], n))
        BY <2>3, <3>1, <3>2, StepPlaced DEF BaseInv
      <3>4. Undisturbed(job[j])
        BY <3>2, <3>3 DEF Undisturbed, Placed
      <3>5. x = job[j].id /\ b = job[j].at /\ job[j].pc \in {"write", "patch"} /\ x \in 1..taken
        BY <3>3 DEF Written, store
      <3>6. Mirrored
        BY <2>3, <3>1, <3>2, <3>4, StepCopies DEF BaseInv, CopyInv
      <3>7. data'[b][x][f] = data[Primary][x][f]
        BY <3>5, <3>6 DEF Mirrored
      <3>8. CASE job[j].pc = "write"
        <4>1. Backed(job[j])
          BY <3>4 DEF BackedInv
        <4>. QED  BY <3>5, <3>7, <3>8, <4>1 DEF Backed
      <3>9. CASE job[j].pc = "patch"
        <4>1. Patch(j)
          BY <2>3, <3>9 DEF Step, Assess, Judge, Pick, RemedyDone, ReplicateDone, MendDone,
             Remedy, Replicate, Read, CopyDone, VerifyDone, Scan, Heal, Mend, Fetch, ScanDone,
             HealDone, GiveUp, Check, StoreMeta, Write, At
        <4>2. \A c \in Backends, y \in Ids, g \in Files :
                  data'[c][y][g] = data[c][y][g] \/ data'[c][y][g] = "good"
          BY <3>1, <3>2, <4>1, PatchStep, Zenon
        <4>. QED  BY <4>2
      <3>. QED  BY <3>5, <3>8, <3>9
    <2>. QED  BY <2>1, <2>2, <2>3 DEF Next
  <1>. QED  BY <1>1, <1>2, <1>3, BaseInvariant, PTL DEF Spec, GoodCopiesKept

-----------------------------------------------------------------------------
(* Maintenance leaves nothing that it could have healed.                   *)

\* A new snapshot on the primary changes nothing of what maintenance has mended.
LEMMA SnapMends ==
    ASSUME TypeOK, KnownInv, NEW r \in ShapedJob, Placed(r), MendFit(r),
           taken' = taken + 1, taken' \in Ids,
           \A b \in Backends \ {Primary} : has'[b] = has[b],
           \A x \in Ids \ {taken + 1} :
               /\ entries'[x] = entries[x]
               /\ \A b \in Backends : data'[b][x] = data[b][x]
    PROVE  MendFit(r)'
  <1>1. r \in Job /\ Shaped(r)
    BY DEF ShapedJob
  <1>2. /\ r.pc \in Healing => r.id \in Ids /\ r.at \in Backends
        /\ r.mended \subseteq Backends /\ Primary \in Backends
    BY <1>1 DEF Job, Shaped, Healing, Backends
  <1>3. \A x \in Ids : x <= taken =>
            entries'[x] = entries[x] /\ \A b \in Backends : data'[b][x] = data[b][x]
    <2>1. \A x \in Ids : x <= taken => x # taken + 1
      BY ConfigAssumption DEF TypeOK, Ids
    <2>. QED  BY <2>1
  <1>4. r.pc \in Healing =>
            /\ entries'[r.id] = entries[r.id]
            /\ \A b \in Backends : data'[b][r.id] = data[b][r.id]
    BY <1>2, <1>3 DEF Placed
  <1>5. ASSUME NEW t \in r.mended
        PROVE  Sound(t)'
    <2>1. CASE t = Primary
      BY <2>1 DEF Sound, Mended
    <2>2. CASE t # Primary
      <3>1. t \in Backends /\ has'[t] = has[t]
        BY <1>2, <1>5, <2>2
      <3>2. \A x \in has[t] : x \in Ids /\ x <= taken
        BY <3>1, ConfigAssumption DEF KnownInv, TypeOK, Ids
      <3>3. \A x \in Newest(has[t]) : \A f \in entries[x] : Mended(t, x, f)
        BY <1>5 DEF MendFit, Sound
      <3>4. \A x \in Newest(has[t]) :
                /\ entries'[x] = entries[x]
                /\ data'[Primary][x] = data[Primary][x] /\ data'[t][x] = data[t][x]
        BY <1>2, <1>3, <3>1, <3>2 DEF Newest
      <3>5. \A x \in Newest(has'[t]) : \A f \in entries'[x] :
                data'[Primary][x][f] = "good" => data'[t][x][f] = "good"
        BY <3>1, <3>3, <3>4 DEF Mended
      <3>. QED  BY <3>5 DEF Sound, Mended, Newest
    <2>. QED  BY <2>1, <2>2
  <1>6. r.pc \in Healing /\ r.at # Primary => \A x \in Newest(has'[r.at]) : x = r.id
    BY <1>2 DEF MendFit
  <1>. QED  BY <1>2, <1>4, <1>5, <1>6 DEF MendFit, Mended, Healing, Newest

\* The only process keeps what it has mended.
LEMMA MendNext ==
    ASSUME \A j, k \in Jobs : j = k, TypeOK, HealInv, BaseInv, MendInv, [Next]_vars
    PROVE  MendInv'
  <1>1. \A k \in Jobs : job[k] \in ShapedJob /\ Placed(job[k])
    BY JobType DEF ShapedJob, BaseInv, PlacedInv
  <1>2. ASSUME NEW k \in Jobs, job'[k] = job[k], UNCHANGED <<has, data, entries>>,
               MendFit(job[k])
        PROVE  MendFit(job[k])'
    <2>1. PICK r : r = job[k]
      OBVIOUS
    <2>2. MendFit(r)'
      BY <1>2, <2>1, StillFits
    <2>. QED  BY <1>2, <2>1, <2>2 DEF MendFit, Mended, Sound, Newest
  <1>3. CASE World
    <2>1. CASE Disturb
      BY <2>1, Disturbed DEF MendInv, Undisturbed
    <2>2. ASSUME NEW j \in Jobs, job' = [job EXCEPT ![j] = Free]
          PROVE  MendInv'
      <3>1. job'[j].command = None
        BY <2>2, FreePlaced DEF TypeOK
      <3>. QED  BY <2>2, <3>1 DEF MendInv, Undisturbed
    <2>3. CASE UNCHANGED job /\ UNCHANGED <<has, data, entries>>
      BY <1>2, <2>3 DEF MendInv, Undisturbed
    <2>4. ASSUME UNCHANGED job, taken' = taken + 1, taken' \in Ids,
                 \A b \in Backends \ {Primary} : has'[b] = has[b],
                 \A x \in Ids \ {taken + 1} :
                     /\ entries'[x] = entries[x]
                     /\ \A b \in Backends : data'[b][x] = data[b][x]
          PROVE  MendInv'
      <3>1. ASSUME NEW k \in Jobs, MendFit(job[k])
            PROVE  MendFit(job[k])'
        <4>1. PICK r : r = job[k]
          OBVIOUS
        <4>2. r \in ShapedJob /\ Placed(r) /\ MendFit(r)
          BY <1>1, <3>1, <4>1
        <4>3. MendFit(r)'
          BY <2>4, <4>2, SnapMends DEF BaseInv
        <4>. QED  BY <2>4, <4>1, <4>3 DEF MendFit, Mended, Sound, Newest
      <3>. QED  BY <2>4, <3>1 DEF MendInv, Undisturbed
    <2>. QED  BY <1>3, <2>1, <2>2, <2>3, <2>4, WorldStep
  <1>4. ASSUME NEW j \in Jobs, NEW n, n = job'[j], n.command = "maintain" => MendFit(n)'
        PROVE  MendInv'
    <2>1. job'[j].command = "maintain" => MendFit(job[j])'
      BY <1>4 DEF MendFit, Mended, Sound, Newest
    <2>. QED  BY <2>1 DEF MendInv
  <1>5. ASSUME NEW j \in Jobs, Start(j)
        PROVE  MendInv'
    <2>1. UNCHANGED env
      BY <1>5, OneSteps
    <2>2. PICK n : n = job'[j]
      OBVIOUS
    <2>3. /\ UNCHANGED store
          /\ (n.pc \in Rests /\ n.mended = {}) \/ n.command = "heal"
      BY <1>5, <2>2, StartStep DEF BaseInv
    <2>4. n.command = "maintain" => MendFit(n)
      BY <2>3 DEF MendFit, Rests, Healing
    <2>5. n.command = "maintain" => MendFit(n)'
      BY <2>1, <2>3, <2>4, StillFits
    <2>. QED  BY <1>4, <2>2, <2>5
  <1>6. ASSUME NEW j \in Jobs, Step(j)
        PROVE  MendInv'
    <2>1. UNCHANGED env
      BY <1>6, OneSteps
    <2>2. PICK n : n = job'[j]
      OBVIOUS
    <2>3. n.command = job[j].command /\ n.calm = job[j].calm
      BY <1>1, <1>6, <2>2, StepPlaced DEF BaseInv
    <2>4. CASE Undisturbed(job[j]) /\ job[j].command = "maintain"
      <3>. SUFFICES MendFit(n)'
        BY <1>4, <2>2
      <3>1. up = Backends /\ MendFit(job[j])
        BY <2>4 DEF BaseInv, CalmInv, MendInv
      <3>2. ASSUME Onward(job[j], n), UNCHANGED store
            PROVE  MendFit(n)'
        <4>1. MendFit(n)
          BY <1>1, <2>4, <3>1, <3>2 DEF Onward
        <4>. QED  BY <2>1, <3>2, <4>1, StillFits
      <3>3. CASE \/ \E b \in Backends : Assess(j, b)
                 \/ Judge(j) \/ Pick(j) \/ RemedyDone(j) \/ ReplicateDone(j) \/ MendDone(j)
        BY <2>2, <3>2, <3>3, PolicySteps DEF BaseInv
      <3>4. CASE \/ \E b \in Backends : Remedy(j, b) \/ Replicate(j, b)
                 \/ \E f \in Files : Read(j, f)
                 \/ CopyDone(j) \/ VerifyDone(j)
        BY <2>2, <3>2, <3>4, CopySteps
      <3>5. CASE \/ \E f \in Files : Scan(j, f) \/ Heal(j, f)
                 \/ \E b \in Backends : Mend(j, b) \/ Fetch(j, b)
                 \/ ScanDone(j) \/ HealDone(j) \/ GiveUp(j) \/ Check(j)
        BY <2>2, <3>2, <3>5, HealSteps DEF BaseInv
      <3>6. CASE StoreMeta(j)
        BY <1>1, <2>2, <2>4, <3>6, StoreMetaStep, Zenon
      <3>7. CASE Write(j)
        BY <1>1, <2>2, <2>4, <3>7, WriteStep, Zenon
      <3>8. CASE Patch(j)
        BY <1>1, <2>2, <3>1, <3>8, PatchStep, Zenon
      <3>. QED  BY <1>6, <3>3, <3>4, <3>5, <3>6, <3>7, <3>8, Zenon DEF Step
    <2>5. CASE ~Undisturbed(job[j]) \/ job[j].command # "maintain"
      <3>1. ~(Undisturbed(job[j]) /\ job[j].command = "maintain")'
        BY <2>2, <2>3, <2>5 DEF Undisturbed
      <3>. QED  BY <3>1 DEF MendInv
    <2>. QED  BY <2>4, <2>5
  <1>7. CASE UNCHANGED vars
    BY <1>2, <1>7 DEF vars, MendInv, Undisturbed
  <1>. QED  BY <1>3, <1>5, <1>6, <1>7 DEF Next

\* maintain_321: of the latest snapshot of a replica that maintenance has been through,
\* no file that the primary holds undamaged is left damaged or missing, as long as no
\* fault hit since it began.  There is one process: another could give the replica a
\* newer snapshot after the scan.
THEOREM HealsComplete ==
    ASSUME \A j, k \in Jobs : j = k
    PROVE  Spec => []HealComplete
  <1>1. Init => MendInv
    <2>. SUFFICES ASSUME Init PROVE MendInv
      OBVIOUS
    <2>1. TypeOK
      BY FreeType, ConfigAssumption DEF Init, TypeOK, ShapedJob, Cell
    <2>. QED  BY <2>1, FreePlaced DEF Init, MendInv
  <1>2. TypeOK /\ HealInv /\ BaseInv /\ MendInv /\ [Next]_vars => MendInv'
    BY MendNext
  <1>3. MendInv => HealComplete
    BY CommandsAssumption DEF MendInv, MendFit, Undisturbed, HealComplete, Sound, Mended
  <1>. QED  BY <1>1, <1>2, <1>3, BaseInvariant, PTL DEF Spec

=============================================================================
