---------------------------- MODULE Replication -----------------------------
(***************************************************************************)
(* Replication, 3-2-1 maintenance and self-healing (openvault-core:        *)
(* replicator.rs, policy.rs, healing.rs): jobs that copy the snapshots of  *)
(* one source from a primary backend to replicas and repair damaged        *)
(* copies, while copies rot, backends come and go and jobs die.  One       *)
(* action per access to a backend.                                         *)
(***************************************************************************)
EXTENDS Integers, FiniteSets

CONSTANTS
    Primary, Replicas,   \* the storage backends
    Files,               \* relative paths
    Jobs,                \* process slots
    Commands,            \* the commands in use
    Media,               \* backend_name of each backend
    Offsite,             \* the names that count as offsite
    MinCopies, MinMedia, RequireOffsite,  \* Policy321
    AutoRemediate, VerifyAfter,           \* ReplicatorConfig
    MaxHeals,            \* max_heals_per_run of the heal command; 0: no limit
    Faults,              \* the kinds of faults that may happen
    MaxSnaps,            \* bound: snapshots ever taken
    MaxFaults,           \* bound: faults
    None

Backends == {Primary} \cup Replicas
Ids == 1..MaxSnaps      \* in the order of created_at
FaultKinds == {"rot", "lose", "outage", "delete", "crash"}

ASSUME ConfigAssumption ==
    /\ MinCopies \in Nat /\ MinMedia \in Nat
    /\ RequireOffsite \in BOOLEAN /\ AutoRemediate \in BOOLEAN
    /\ VerifyAfter \in BOOLEAN
    /\ MaxHeals \in Nat /\ MaxSnaps \in Nat /\ MaxFaults \in Nat
    /\ Faults \subseteq FaultKinds
    /\ Commands \subseteq {"replicate", "maintain", "remediate", "heal"}
ASSUME CommandsAssumption == None \notin {"replicate", "maintain", "remediate", "heal"}
ASSUME FilesAssumption == IsFiniteSet(Files) /\ None \notin Files
ASSUME BackendsAssumption == None \notin Backends

\* A stored file matches its checksum or not, or is not there.
Cell == {"good", "bad", "none"}

VARIABLES
    entries,  \* the paths each snapshot holds
    taken,    \* snapshots taken so far
    has,      \* the snapshots whose metadata each backend holds
    data,     \* the file each backend holds for a snapshot and a path
    up,       \* the backends that answer
    faults,   \* faults so far
    job,      \* what each process is doing, and the report of its last command
    crossed   \* history: the snapshots a heal wrote to while two jobs copied them

store == <<has, data>>
env == <<entries, taken, up, faults>>
vars == <<store, env, job, crossed>>

Free == [command |-> None, pc |-> "idle",
         queue |-> {},       \* backends still to visit
         seen |-> {},        \* backends counted as a copy
         again |-> FALSE,    \* auto_remediate's own policy check
         id |-> 0,           \* the snapshot at hand
         at |-> None,        \* the backend it is copied to or healed on
         from |-> {},        \* the backends to heal from
         todo |-> {},        \* files still to copy or check
         sick |-> {},        \* files found damaged or missing
         file |-> None, buf |-> "none", sources |-> {},
         \* the report
         healthy |-> FALSE, existing |-> {}, fresh |-> {}, failed |-> {},
         healed |-> 0, missed |-> 0, mended |-> {},
         calm |-> TRUE]      \* history: Calm when the command began, and no fault since

Pcs == {"idle", "assess", "pick", "remedy", "replicate", "store", "read", "write",
        "verify", "mend", "scan", "rescan", "heal", "fetch", "patch", "check"}

Job == [command : Commands \cup {None}, pc : Pcs,
        queue : SUBSET Backends, seen : SUBSET Backends, again : BOOLEAN,
        id : 0..MaxSnaps, at : Backends \cup {None}, from : SUBSET Backends,
        todo : SUBSET Files, sick : SUBSET Files, file : Files \cup {None},
        buf : Cell, sources : SUBSET Backends,
        healthy : BOOLEAN, existing : SUBSET Backends, fresh : SUBSET Backends,
        failed : SUBSET Backends, healed : Nat, missed : Nat,
        mended : SUBSET Backends, calm : BOOLEAN]

\* What a job that is busy at some step must have at hand.
Shaped(r) ==
    /\ r.pc \in {"store", "read", "write", "verify"} => r.id \in Ids /\ r.at \in Backends
    /\ r.pc = "replicate" => r.id \in Ids
    /\ r.pc = "remedy" => r.id \in Ids
    /\ r.pc \in {"scan", "rescan", "heal", "fetch", "patch", "check"}
           => r.id \in Ids /\ r.at \in Backends
    /\ r.pc \in {"write", "fetch", "patch", "check"} => r.file \in Files

\* Every part holds values of its kind: in particular what a running heal or replication
\* keeps fits the step it is at, and no count passes its bound.
TypeOK ==
    /\ entries \in [Ids -> SUBSET Files]
    /\ taken \in 0..MaxSnaps
    /\ has \in [Backends -> SUBSET Ids]
    /\ data \in [Backends -> [Ids -> [Files -> Cell]]]
    /\ up \subseteq Backends
    /\ faults \in 0..MaxFaults
    /\ job \in [Jobs -> {r \in Job : Shaped(r)}]
    /\ crossed \subseteq Ids

Init ==
    /\ entries = [x \in Ids |-> {}]
    /\ taken = 0
    /\ has = [b \in Backends |-> {}]
    /\ data = [b \in Backends |-> [x \in Ids |-> [f \in Files |-> "none"]]]
    /\ up = Backends
    /\ faults = 0
    /\ job = [j \in Jobs |-> Free]
    /\ crossed = {}

-----------------------------------------------------------------------------
(* What a backend answers.                                                 *)

Newest(S) == {x \in S : \A y \in S : y <= x}

\* latest_snapshot: empty when there is none or the backend does not answer.
Latest(b) == IF b \in up THEN Newest(has[b]) ELSE {}

Healthy(b, x, f) == b \in up /\ data[b][x][f] = "good"

\* Mutant: the number of copies is not counted.
CompliantUncounted(S) ==
    /\ Cardinality({Media[b] : b \in S}) >= MinMedia
    /\ RequireOffsite => \E b \in S : Media[b] \in Offsite

\* PolicyEngine.check_health: any snapshot of the source counts as a copy.
Compliant(S) ==
    /\ Cardinality(S) >= MinCopies
    /\ Cardinality({Media[b] : b \in S}) >= MinMedia
    /\ RequireOffsite => \E b \in S : Media[b] \in Offsite

\* Most steps change the record of one job only.
Becomes(j, r) == job' = [job EXCEPT ![j] = r] /\ UNCHANGED env
Goes(j, r) == Becomes(j, r) /\ UNCHANGED <<store, crossed>>

At(j, pc) == job[j].pc = pc

\* Where a job goes when it is done with a target.
Back(r) == [r EXCEPT !.pc = IF r.command = "replicate" THEN "replicate" ELSE "remedy",
                     !.at = None, !.file = None, !.buf = "none",
                     !.todo = {}, !.sick = {}]
Ended(r) == [r EXCEPT !.pc = "idle", !.at = None, !.file = None, !.buf = "none",
                      !.queue = {}, !.seen = {}, !.again = FALSE, !.todo = {},
                      !.sick = {}, !.from = {}, !.sources = {}]
Mending(r) == [Ended(r) EXCEPT !.pc = "mend", !.queue = Replicas]

\* A target that could not be written.  PolicyEngine.remediate gives up.
Failed(r) == IF r.command = "remediate" THEN Ended(r)
             ELSE [Back(r) EXCEPT !.failed = @ \cup {r.at}]
Copied(r) == [Back(r) EXCEPT !.fresh = @ \cup {r.at}]

-----------------------------------------------------------------------------
(* The beginning of a command.                                             *)

\* Every backend answers, and no job under way was hit by a fault.
Calm == up = Backends /\ \A j \in Jobs : At(j, "idle") \/ job[j].calm

\* vault replicate: the latest snapshot of the primary goes to all replicas.
StartReplicate(j) ==
    /\ At(j, "idle") /\ "replicate" \in Commands
    /\ \E x \in Latest(Primary) :
           Goes(j, [Free EXCEPT !.command = "replicate", !.pc = "replicate",
                                !.id = x, !.queue = Replicas, !.calm = Calm])

\* maintain_321, or PolicyEngine.remediate alone.
StartMaintain(j, c) ==
    /\ At(j, "idle") /\ c \in Commands \cap {"maintain", "remediate"}
    /\ Goes(j, [Free EXCEPT !.command = c, !.pc = "assess", !.queue = Backends,
                           !.calm = Calm])

\* vault heal repair (one source), heal_from_sources (several): the metadata
\* comes from the target or from a source.
StartHeal(j, t, S) ==
    /\ At(j, "idle") /\ "heal" \in Commands
    /\ \E x \in Ids :
           /\ \E b \in S \cup {t} : b \in up /\ x \in has[b]
           /\ Goes(j, [Free EXCEPT !.command = "heal", !.pc = "rescan", !.id = x,
                                   !.at = t, !.from = S, !.todo = entries[x],
                                   !.calm = Calm])

-----------------------------------------------------------------------------
(* The policy.                                                             *)

\* One backend is asked for its latest snapshot.
Assess(j, b) ==
    /\ At(j, "assess") /\ b \in job[j].queue
    /\ Goes(j, [job[j] EXCEPT !.queue = @ \ {b},
                              !.seen = IF Latest(b) # {} THEN @ \cup {b} ELSE @])

\* The verdict.  maintain_321 reports it and, if it may and must, has
\* auto_remediate check again.
Judge(j) ==
    LET r == job[j]
        ok == Compliant(r.seen)
        reported == IF r.command = "maintain" /\ ~r.again
                    THEN [r EXCEPT !.healthy = ok] ELSE r
        remedy == IF r.command = "maintain" /\ ~r.again
                  THEN [reported EXCEPT !.again = TRUE, !.queue = Backends, !.seen = {}]
                  ELSE [r EXCEPT !.pc = "pick", !.seen = {}]
    IN
    /\ At(j, "assess") /\ r.queue = {}
    /\ Goes(j, IF ~ok /\ (r.command = "remediate" \/ AutoRemediate) THEN remedy
               ELSE IF r.command = "maintain" THEN Mending(reported)
               ELSE Ended(r))

\* The snapshot to copy; without one the command returns an error.
Pick(j) ==
    /\ At(j, "pick")
    /\ \/ \E x \in Latest(Primary) :
              Goes(j, [job[j] EXCEPT !.pc = "remedy", !.id = x, !.queue = Replicas])
       \/ Latest(Primary) = {} /\ Goes(j, Ended(job[j]))

\* A target with any snapshot of the source is left alone.
Remedy(j, t) ==
    LET r == [job[j] EXCEPT !.queue = @ \ {t}] IN
    /\ At(j, "remedy") /\ t \in job[j].queue
    /\ Goes(j, IF Latest(t) # {} THEN r ELSE [r EXCEPT !.pc = "store", !.at = t])

RemedyDone(j) ==
    /\ At(j, "remedy") /\ job[j].queue = {}
    /\ Goes(j, IF job[j].command = "maintain" THEN Mending(job[j]) ELSE Ended(job[j]))

-----------------------------------------------------------------------------
(* The copying.                                                            *)

\* Mutant: targets that have the snapshot are not skipped.
ReplicateAlways(j, t) ==
    /\ At(j, "replicate") /\ t \in job[j].queue
    /\ Goes(j, [job[j] EXCEPT !.queue = @ \ {t}, !.pc = "store", !.at = t])

\* A target that loads the snapshot is skipped and counted.
Replicate(j, t) ==
    LET r == [job[j] EXCEPT !.queue = @ \ {t}] IN
    /\ At(j, "replicate") /\ t \in job[j].queue
    /\ Goes(j, IF t \in up /\ r.id \in has[t] THEN [r EXCEPT !.existing = @ \cup {t}]
               ELSE [r EXCEPT !.pc = "store", !.at = t])

ReplicateDone(j) ==
    /\ At(j, "replicate") /\ job[j].queue = {}
    /\ Goes(j, Ended(job[j]))

\* target.store_snapshot: the metadata goes first.
StoreMeta(j) ==
    LET r == job[j] IN
    /\ At(j, "store")
    /\ \/ /\ r.at \in up
          /\ has' = [has EXCEPT ![r.at] = @ \cup {r.id}]
          /\ Becomes(j, [r EXCEPT !.pc = "read", !.todo = entries[r.id]])
          /\ UNCHANGED <<data, crossed>>
       \/ r.at \notin up /\ Goes(j, Failed(r))

\* source.retrieve_file.  auto_remediate skips a file it cannot read.
Read(j, f) ==
    LET r == job[j]
        next == [r EXCEPT !.todo = @ \ {f}]
    IN
    /\ At(j, "read") /\ f \in r.todo
    /\ Goes(j, IF Primary \in up /\ data[Primary][r.id][f] # "none"
               THEN [next EXCEPT !.pc = "write", !.file = f,
                                 !.buf = data[Primary][r.id][f]]
               ELSE IF r.command = "maintain" THEN next ELSE Failed(r))

\* target.store_file.
Write(j) ==
    LET r == job[j] IN
    /\ At(j, "write")
    /\ \/ /\ r.at \in up
          /\ data' = [data EXCEPT ![r.at][r.id][r.file] = r.buf]
          /\ Becomes(j, [r EXCEPT !.pc = "read", !.file = None, !.buf = "none"])
          /\ UNCHANGED <<has, crossed>>
       \/ r.at \notin up /\ Goes(j, Failed(r))

\* Mutant: the copy is never verified.
CopiedUnverified(j) ==
    /\ At(j, "read") /\ job[j].todo = {}
    /\ Goes(j, Copied(job[j]))

\* All entries copied: replicate_snapshot verifies them if configured.
CopyDone(j) ==
    LET r == job[j] IN
    /\ At(j, "read") /\ r.todo = {}
    /\ Goes(j, IF r.command = "replicate" /\ VerifyAfter
               THEN [r EXCEPT !.pc = "verify", !.todo = entries[r.id]]
               ELSE Copied(r))

-----------------------------------------------------------------------------
(* Scanning and healing.                                                   *)

\* Mutant: only the existence of a file is checked.
ScanPresence(j, f) ==
    LET r == job[j] IN
    /\ r.pc \in {"verify", "scan", "rescan"} /\ f \in r.todo
    /\ Goes(j, [r EXCEPT !.todo = @ \ {f},
                         !.sick = IF r.at \in up /\ data[r.at][r.id][f] # "none"
                                  THEN @ ELSE @ \cup {f}])

\* HealingEngine.scan reads one file after the other: after a copy, before a
\* heal, and in the heal.
Scan(j, f) ==
    LET r == job[j] IN
    /\ r.pc \in {"verify", "scan", "rescan"} /\ f \in r.todo
    /\ Goes(j, [r EXCEPT !.todo = @ \ {f},
                         !.sick = IF Healthy(r.at, r.id, f) THEN @ ELSE @ \cup {f}])

VerifyDone(j) ==
    LET r == job[j] IN
    /\ At(j, "verify") /\ r.todo = {}
    /\ Goes(j, IF r.sick = {} THEN Copied(r) ELSE Failed(r))

\* maintain_321: the latest snapshot of each replica is scanned ...
Mend(j, t) ==
    LET r == [job[j] EXCEPT !.queue = @ \ {t}] IN
    /\ At(j, "mend") /\ t \in job[j].queue
    /\ \/ \E x \in Latest(t) :
              Goes(j, [r EXCEPT !.pc = "scan", !.id = x, !.at = t,
                                !.from = {Primary}, !.todo = entries[x], !.sick = {}])
       \/ Latest(t) = {} /\ Goes(j, r)

MendDone(j) ==
    /\ At(j, "mend") /\ job[j].queue = {}
    /\ Goes(j, Ended(job[j]))

\* The heal of one snapshot on one backend is over.
HealEnded(r) ==
    LET done == [r EXCEPT !.mended = @ \cup {r.at}] IN
    IF r.command = "heal" THEN Ended(done)
    ELSE [done EXCEPT !.pc = "mend", !.at = None, !.todo = {}, !.sick = {},
                      !.file = None, !.sources = {}]

\* ... and healed from the primary if anything is wrong with it.  heal scans again.
ScanDone(j) ==
    LET r == job[j] IN
    /\ r.pc \in {"scan", "rescan"} /\ r.todo = {}
    /\ Goes(j, IF r.sick = {} THEN HealEnded(r)
               ELSE IF r.pc = "scan"
               THEN [r EXCEPT !.pc = "rescan", !.todo = entries[r.id], !.sick = {},
                              !.healed = 0, !.missed = 0]
               ELSE [r EXCEPT !.pc = "heal"])

\* maintain_321 heals with the default configuration: no limit.
Limited(r) == r.command = "heal" /\ MaxHeals > 0 /\ r.healed >= MaxHeals

\* Mutant: the run is over after the first damaged file.
HealFirst(j, f) ==
    LET r == job[j] IN
    /\ At(j, "heal") /\ f \in r.sick /\ ~Limited(r)
    /\ Goes(j, [r EXCEPT !.pc = "fetch", !.sick = {}, !.file = f, !.sources = r.from])

\* The next file the scan found damaged.
Heal(j, f) ==
    LET r == job[j] IN
    /\ At(j, "heal") /\ f \in r.sick /\ ~Limited(r)
    /\ Goes(j, [r EXCEPT !.pc = "fetch", !.sick = @ \ {f}, !.file = f,
                         !.sources = r.from])

HealDone(j) ==
    /\ At(j, "heal") /\ (job[j].sick = {} \/ Limited(job[j]))
    /\ Goes(j, HealEnded(job[j]))

\* Mutant: the source's data is not compared with the checksum.
FetchUnverified(j, s) ==
    LET r == [job[j] EXCEPT !.sources = @ \ {s}]
        cell == data[s][r.id][r.file]
    IN
    /\ At(j, "fetch") /\ s \in job[j].sources
    /\ Goes(j, IF s \in up /\ cell # "none" THEN [r EXCEPT !.pc = "patch", !.buf = cell]
               ELSE r)

\* A source is read; data that does not match the checksum is passed over.
Fetch(j, s) ==
    LET r == [job[j] EXCEPT !.sources = @ \ {s}] IN
    /\ At(j, "fetch") /\ s \in job[j].sources
    /\ Goes(j, IF Healthy(s, r.id, r.file)
               THEN [r EXCEPT !.pc = "patch", !.buf = data[s][r.id][r.file]] ELSE r)

\* No source has it.
GiveUp(j) ==
    LET r == job[j] IN
    /\ At(j, "fetch") /\ r.sources = {}
    /\ Goes(j, [r EXCEPT !.pc = "heal", !.file = None, !.missed = @ + 1])

CopiesTo(i, x, t) ==
    job[i].pc \in {"store", "read", "write", "verify"} /\ job[i].id = x /\ job[i].at = t

\* The heal command replaces a file while two jobs copy the snapshot to one target,
\* which it heals, or from the primary, which it heals: one may have read the damaged
\* file before and the other verify the target after.
Crosses(r) ==
    r.command = "heal" /\ \E t \in Replicas : \E i, k \in Jobs :
        r.at \in {Primary, t} /\ i # k /\ CopiesTo(i, r.id, t) /\ CopiesTo(k, r.id, t)

\* target.store_file of the healthy data.
Patch(j) ==
    LET r == job[j] IN
    /\ At(j, "patch")
    /\ \/ /\ r.at \in up
          /\ data' = [data EXCEPT ![r.at][r.id][r.file] = r.buf]
          /\ Becomes(j, [r EXCEPT !.pc = "check", !.buf = "none"])
          /\ crossed' = IF Crosses(r) THEN crossed \cup {r.id} ELSE crossed
          /\ UNCHANGED has
       \/ r.at \notin up /\ Goes(j, [r EXCEPT !.pc = "fetch", !.buf = "none"])

\* The file is read back.
Check(j) ==
    LET r == job[j] IN
    /\ At(j, "check")
    /\ Goes(j, IF Healthy(r.at, r.id, r.file)
               THEN [r EXCEPT !.pc = "heal", !.file = None, !.sources = {},
                              !.healed = @ + 1]
               ELSE [r EXCEPT !.pc = "fetch"])

-----------------------------------------------------------------------------
(* The world.                                                              *)

\* A backup writes a new snapshot to the primary (see VaultCatalog).
Snap(S) ==
    LET x == taken + 1 IN
    /\ taken < MaxSnaps /\ Primary \in up
    /\ taken' = x
    /\ entries' = [entries EXCEPT ![x] = S]
    /\ has' = [has EXCEPT ![Primary] = @ \cup {x}]
    /\ data' = [data EXCEPT ![Primary][x] = [f \in Files |-> IF f \in S THEN "good"
                                                            ELSE "none"]]
    /\ UNCHANGED <<up, faults, job, crossed>>

Fault(kind) ==
    /\ kind \in Faults /\ faults < MaxFaults
    /\ faults' = faults + 1
    /\ UNCHANGED <<entries, taken, crossed>>

Disturb == job' = [j \in Jobs |-> [job[j] EXCEPT !.calm = FALSE]]

Rot(b, x, f) ==
    /\ data[b][x][f] = "good" /\ Fault("rot") /\ Disturb
    /\ data' = [data EXCEPT ![b][x][f] = "bad"]
    /\ UNCHANGED <<has, up>>

Lose(b, x, f) ==
    /\ data[b][x][f] # "none" /\ Fault("lose") /\ Disturb
    /\ data' = [data EXCEPT ![b][x][f] = "none"]
    /\ UNCHANGED <<has, up>>

Remove(b, x) ==
    /\ b \in up /\ x \in has[b] /\ Fault("delete") /\ Disturb
    /\ has' = [has EXCEPT ![b] = @ \ {x}]
    /\ data' = [data EXCEPT ![b][x] = [f \in Files |-> "none"]]
    /\ UNCHANGED up

Outage(b) ==
    /\ b \in up /\ Fault("outage") /\ Disturb
    /\ up' = up \ {b}
    /\ UNCHANGED store

Return(b) ==
    /\ b \in Backends \ up
    /\ up' = up \cup {b}
    /\ UNCHANGED <<store, entries, taken, faults, job, crossed>>

Crash(j) ==
    /\ ~At(j, "idle") /\ Fault("crash")
    /\ job' = [job EXCEPT ![j] = Free]
    /\ UNCHANGED <<store, up>>

-----------------------------------------------------------------------------
Start(j) ==
    \/ StartReplicate(j)
    \/ \E c \in Commands : StartMaintain(j, c)
    \/ \E t \in Backends : \E S \in SUBSET (Backends \ {t}) : StartHeal(j, t, S)

Step(j) ==
    \/ \E b \in Backends : \/ Assess(j, b) \/ Remedy(j, b) \/ Replicate(j, b)
                           \/ Mend(j, b) \/ Fetch(j, b)
    \/ \E f \in Files : Read(j, f) \/ Scan(j, f) \/ Heal(j, f)
    \/ Judge(j) \/ Pick(j) \/ RemedyDone(j) \/ ReplicateDone(j)
    \/ StoreMeta(j) \/ Write(j) \/ CopyDone(j) \/ VerifyDone(j)
    \/ MendDone(j) \/ ScanDone(j) \/ HealDone(j)
    \/ GiveUp(j) \/ Patch(j) \/ Check(j)

World ==
    \/ \E S \in SUBSET Files : Snap(S)
    \/ \E b \in Backends : Outage(b) \/ Return(b)
    \/ \E b \in Backends, x \in Ids : Remove(b, x)
    \/ \E b \in Backends, x \in Ids, f \in Files : Rot(b, x, f) \/ Lose(b, x, f)
    \/ \E j \in Jobs : Crash(j)

Next == World \/ \E j \in Jobs : Start(j) \/ Step(j)

Spec == Init /\ [][Next]_vars

\* A process that runs goes on; a scheduler keeps calling maintain_321; an
\* outage ends.
Fairness ==
    /\ \A j \in Jobs : WF_vars(Step(j)) /\ SF_vars(StartMaintain(j, "maintain"))
    /\ \A b \in Backends : WF_vars(Return(b))

FairSpec == Spec /\ Fairness

-----------------------------------------------------------------------------
(* Properties.                                                             *)

Whole(b, x) == \A f \in entries[x] : data[b][x][f] = "good"

\* A target that replicate_snapshot copied to and verified holds every entry,
\* undamaged, whatever other replications and heals do meanwhile: unless a fault hits
\* during the command, or a heal replaces a file while two replications of the snapshot
\* run to that target (one may then write what it read before over what the other verified).
FreshReplicaWhole ==
    \A j \in Jobs : LET r == job[j] IN
        r.command = "replicate" /\ r.calm /\ r.id \notin crossed =>
            \A t \in r.fresh : Whole(t, r.id)

\* Healing writes only data that matches the checksum, whatever happened to the
\* source since the scan.
HealsWithGoodData ==
    [][\A j \in Jobs : At(j, "patch") /\ job'[j].pc = "check" =>
           data'[job[j].at][job[j].id][job[j].file] = "good"]_vars

\* A heal that nothing disturbed leaves no damaged file that a source could
\* have replaced, unless its limit stopped it.
HealComplete ==
    \A j \in Jobs : LET r == job[j] IN
        r.pc = "idle" /\ r.calm /\ r.command = "maintain" =>
            \A t \in r.mended : \A x \in Newest(has[t]) : \A f \in entries[x] :
                data[Primary][x][f] = "good" => data[t][x][f] = "good"

\* No more files are healed in one run than the configuration allows.
HealLimit ==
    \A j \in Jobs : job[j].command = "heal" /\ MaxHeals > 0 => job[j].healed <= MaxHeals

\* A job that is alone and undisturbed, no backend being out, never spoils a good copy
\* (replicate_snapshot skips what it finds, heal writes what it verified): only faults do.
GoodCopiesKept ==
    [][\A b \in Backends, x \in Ids, f \in Files :
           data[b][x][f] = "good" /\ data'[b][x][f] # "good" =>
               faults' # faults \/ \E j \in Jobs : ~job[j].calm]_vars

\* Maintenance brings every replica to hold, undamaged, all the files of its
\* latest snapshot that the primary holds undamaged.
ReplicasConverge ==
    <>[](\A t \in Replicas : \A x \in Newest(has[t]) : \A f \in entries[x] :
             data[Primary][x][f] = "good" => data[t][x][f] = "good")

\* A replica without any snapshot of the source gets one.
ReplicasPopulated ==
    <>[](has[Primary] # {} => \A t \in Replicas : has[t] # {})

=============================================================================
