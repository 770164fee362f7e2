---------------------------- MODULE BackupVault -----------------------------
(***************************************************************************)
(* The three backup strategies (openvault-core/src/strategy.rs) writing to *)
(* the local vault (openvault-storage/src/local.rs).  Workers are          *)
(* processes: each runs one backup or one delete at a time, several may    *)
(* share a vault, each may stop at any step, and users edit the source     *)
(* trees meanwhile.  One action per access to the file system that another *)
(* actor can get in front of.                                              *)
(***************************************************************************)
EXTENDS Integers, FiniteSets

CONSTANTS
    Sources,         \* source directories
    Files,           \* relative paths the exclude patterns leave
    Contents,        \* what a file can hold; its SHA-256 is injective
    SizeOf,          \* length of each content
    Workers,         \* process slots
    Kinds,           \* the strategies in use
    None, Torn,      \* no value; a metadata file that does not parse
    MaxClock,        \* bound: seconds
    MaxSnaps,        \* bound: snapshots ever started
    MaxEdits,        \* bound: edits of the source trees
    MaxStops,        \* bound: backups that stop half way, and deletes
    LongLived,       \* a process runs many jobs (a program using the crates)
                     \* or just one (a run of the vault command)
    SameSecondRuns,  \* two process runs may start a backup in one second
    PreservingTools  \* users also put files back with their old mtime

Times == 0..MaxClock
Ids == Times \X (0..MaxSnaps)
Strategies == {"full", "incremental", "differential"}

ASSUME BoundsAssumption ==
    /\ MaxClock \in Nat /\ MaxSnaps \in Nat
    /\ MaxEdits \in Nat /\ MaxStops \in Nat
    /\ Kinds \subseteq Strategies
    /\ LongLived \in BOOLEAN /\ SameSecondRuns \in BOOLEAN /\ PreservingTools \in BOOLEAN
ASSUME SizeAssumption == SizeOf \in [Contents -> Nat]

Version == [mtime : Times, content : Contents]
Stat == [mtime : Times, size : Nat]
Entry == [mtime : Times, size : Nat, checksum : Contents]
Plan == [src : Sources, strategy : Strategies, parent : Ids \cup {None}]
Snapshot == [born : 1..MaxSnaps, src : Sources, strategy : Strategies,
             parent : Ids \cup {None}, entries : [Files -> Entry \cup {None}]]

ASSUME SentinelAssumption ==
    /\ None \notin Contents /\ None \notin Files /\ None \notin Ids
    /\ None \notin Version /\ None \notin Stat /\ None \notin Entry
    /\ None \notin Plan /\ None \notin Snapshot /\ Torn \notin Snapshot /\ None # Torn

VARIABLES
    \* the world outside the program
    clock,    \* seconds
    tree,     \* the source trees: [Sources -> [Files -> Version or None]]
    edits,    \* edits so far
    \* the vault's directories
    meta,     \* snapshots/<id>.json: a Snapshot, None or Torn
    data,     \* data/<id>/<path>: a content or None
    \* the processes
    stops,    \* aborts and deletes so far
    births,   \* snapshots created so far; stands for created_at (nanoseconds)
    ctr,      \* SNAPSHOT_COUNTER of each process
    job,      \* what each process is doing
    \* history
    versions, \* <<source, file, version>> that ever existed
    used,     \* ids ever given to a snapshot
    witness   \* per id: the files nobody touched while its backup ran

world == <<clock, tree, edits, versions>>
vault == <<meta, data, witness>>
process == <<stops, births, ctr, used>>
vars == <<world, vault, process, job>>

NoEntries == [f \in Files |-> None]

Idle == [pc |-> "idle", plan |-> None, id |-> None, snap |-> None,
         chain |-> {}, todo |-> {}, file |-> None, stat |-> None,
         checksum |-> None, seen |-> NoEntries]

\* Which fields a job has in use, by where it is.
Shaped(j) ==
    /\ j.plan # None <=> j.pc = "new"
    /\ j.id # None <=> j.pc \notin {"idle", "new"}
    /\ j.snap # None <=> j.pc \notin {"idle", "new", "rmdata"}
    /\ j.file # None <=> j.pc \in {"hash", "copy"}
    /\ j.stat # None <=> j.pc \in {"hash", "copy"}
    /\ j.checksum # None <=> j.pc = "copy"

Job == [pc : {"idle", "new", "prepare", "scan", "hash", "copy", "publish", "rmdata"},
        plan : Plan \cup {None}, id : Ids \cup {None}, snap : Snapshot \cup {None},
        chain : SUBSET Snapshot, todo : SUBSET Files,
        file : Files \cup {None}, stat : Stat \cup {None},
        checksum : Contents \cup {None}, seen : [Files -> Contents \cup {None}]]

\* Every part holds values of its kind: in particular what create_incremental, store and
\* list leave in a running process fits the step it is at.
TypeOK ==
    /\ clock \in Times
    /\ tree \in [Sources -> [Files -> Version \cup {None}]]
    /\ edits \in 0..MaxEdits
    /\ meta \in [Ids -> Snapshot \cup {None, Torn}]
    /\ data \in [Ids -> [Files -> Contents \cup {None}]]
    /\ stops \in 0..MaxStops
    /\ births \in 0..MaxSnaps
    /\ ctr \in [Workers -> 0..MaxSnaps]
    /\ job \in [Workers -> {j \in Job : Shaped(j)}]
    /\ versions \subseteq Sources \X Files \X Version
    /\ used \subseteq Ids
    /\ witness \in [Ids -> [Files -> Contents \cup {None}]]

Init ==
    /\ clock = 0
    /\ tree \in [Sources -> [Files -> [mtime : {0}, content : Contents]
                                          \cup {None}]]
    /\ edits = 0
    /\ meta = [x \in Ids |-> None]
    /\ data = [x \in Ids |-> NoEntries]
    /\ stops = 0
    /\ births = 0
    /\ ctr = [w \in Workers |-> 0]
    /\ job = [w \in Workers |-> Idle]
    /\ versions = {t \in Sources \X Files \X Version : tree[t[1]][t[2]] = t[3]}
    /\ used = {}
    /\ witness = [x \in Ids |-> NoEntries]

-----------------------------------------------------------------------------
(* Queries the storage answers from the metadata files.                    *)

\* list_snapshots: the metadata files that parse.
Listed(x) == x \in Ids /\ meta[x] \in Snapshot

\* The newest of a set of ids, by created_at: empty or one id.
Latest(S) == {x \in S : \A y \in S : meta[y].born <= meta[x].born}

Snaps(s) == {x \in Ids : Listed(x) /\ meta[x].src = s}
FullSnaps(s) == {x \in Snaps(s) : meta[x].strategy = "full"}

\* The reference snapshot each strategy starts from.
Reference(s, k) ==
    CASE k = "full"         -> {}
      [] k = "incremental"  -> Latest(Snaps(s))
      [] k = "differential" -> Latest(FullSnaps(s))

Parents(S) == {meta[x].parent : x \in {y \in S : Listed(y)}} \ {None}

\* The ids met when parent_id is followed from p; the walk stops at an id that
\* does not load.
Lineage(p) ==
    LET walk[n \in 0..MaxSnaps] == IF n = 0 THEN {p} \ {None}
                                   ELSE walk[n - 1] \cup Parents(walk[n - 1])
    IN walk[MaxSnaps]

Holders(chain, f) == {s \in chain : s.entries[f] # None}

\* build_complete_file_map inserts while walking from newest to oldest, so the
\* oldest entry of a path is the one that stays in the map.
Remembered(chain, f) ==
    {s.entries[f] : s \in {t \in Holders(chain, f) :
                              \A u \in Holders(chain, f) : t.born <= u.born}}

\* Mutants of Changed: the size alone is compared; only a newer mtime counts.
ChangedSize(chain, f, st) == \A e \in Remembered(chain, f) : e.size # st.size
ChangedNewer(chain, f, st) ==
    \A e \in Remembered(chain, f) : e.mtime < st.mtime \/ e.size # st.size

Changed(chain, f, st) ==
    \A e \in Remembered(chain, f) : e.mtime # st.mtime \/ e.size # st.size

-----------------------------------------------------------------------------
(* A backup.                                                               *)

\* The job is over.  The next job of the slot is a new process, whose
\* SNAPSHOT_COUNTER starts at 0, unless the process lives on.
Finish(w) ==
    /\ job' = [job EXCEPT ![w] = Idle]
    /\ ctr' = IF LongLived THEN ctr ELSE [ctr EXCEPT ![w] = 0]

\* The first thing execute reads: the reference snapshot of the source.
Choose(w, s, k) ==
    /\ job[w].pc = "idle"
    /\ births < MaxSnaps
    /\ \E p \in IF Reference(s, k) = {} THEN {None} ELSE Reference(s, k) :
           job' = [job EXCEPT ![w] =
                     [Idle EXCEPT
                        !.pc = "new",
                        !.plan = [src |-> s, strategy |-> k, parent |-> p],
                        !.chain = IF p = None THEN {} ELSE {meta[p]}]]
    /\ UNCHANGED <<world, vault, process>>

\* Snapshot::new: the id is made of the second and of the process's counter.
Start(w) ==
    LET j == job[w]
        id == <<clock, ctr[w]>>
        v == tree[j.plan.src]
    IN
    /\ j.pc = "new"
    /\ births < MaxSnaps /\ ctr[w] < MaxSnaps
    /\ SameSecondRuns \/ id \notin used
    /\ job' = [job EXCEPT ![w] =
                  [j EXCEPT
                     !.pc = "prepare", !.plan = None, !.id = id,
                     !.snap = [born |-> births + 1, src |-> j.plan.src,
                               strategy |-> j.plan.strategy,
                               parent |-> j.plan.parent, entries |-> NoEntries],
                     !.seen = [f \in Files |-> IF v[f] = None THEN None
                                               ELSE v[f].content]]]
    /\ births' = births + 1
    /\ ctr' = [ctr EXCEPT ![w] = @ + 1]
    /\ used' = used \cup {id}
    /\ UNCHANGED <<world, vault, stops>>

\* collect_files, then (incremental only) the rest of the parent chain, of
\* which every snapshot must load.
Prepare(w) ==
    LET j == job[w]
        older == UNION {Lineage(s.parent) : s \in j.chain}
        load == IF j.snap.strategy = "incremental" THEN older ELSE {}
    IN
    /\ j.pc = "prepare"
    /\ \A x \in load : Listed(x)
    /\ job' = [job EXCEPT ![w].pc = "scan",
                          ![w].todo = {f \in Files : tree[j.snap.src][f] # None},
                          ![w].chain = @ \cup {meta[x] : x \in load}]
    /\ UNCHANGED <<world, vault, process>>

\* fs::metadata of the next file, and the comparison with the file map.
Examine(w, f) ==
    LET j == job[w]
        v == tree[j.snap.src][f]
        st == [mtime |-> v.mtime, size |-> SizeOf[v.content]]
    IN
    /\ j.pc = "scan" /\ f \in j.todo
    /\ v # None
    /\ \/ /\ Changed(j.chain, f, st)
          /\ job' = [job EXCEPT ![w].pc = "hash", ![w].file = f, ![w].stat = st]
       \/ /\ ~Changed(j.chain, f, st)
          /\ job' = [job EXCEPT ![w].todo = @ \ {f}]
    /\ UNCHANGED <<world, vault, process>>

\* Mutant: the checksum of the file map is reused when there is one.
HashRemembered(w) ==
    LET j == job[w]
        v == tree[j.snap.src][j.file]
        known == {e.checksum : e \in Remembered(j.chain, j.file)}
    IN
    /\ j.pc = "hash" /\ v # None
    /\ \E c \in IF known = {} THEN {v.content} ELSE known :
           job' = [job EXCEPT ![w].pc = "copy", ![w].checksum = c]
    /\ UNCHANGED <<world, vault, process>>

\* sha256_file opens and reads the file.
Hash(w) ==
    LET j == job[w]
        v == tree[j.snap.src][j.file]
    IN
    /\ j.pc = "hash" /\ v # None
    /\ job' = [job EXCEPT ![w].pc = "copy", ![w].checksum = v.content]
    /\ UNCHANGED <<world, vault, process>>

\* fs::read opens it again; store_file and add_entry follow.
Copy(w) ==
    LET j == job[w]
        v == tree[j.snap.src][j.file]
        e == [mtime |-> j.stat.mtime, size |-> j.stat.size, checksum |-> j.checksum]
    IN
    /\ j.pc = "copy" /\ v # None
    /\ data' = [data EXCEPT ![j.id][j.file] = v.content]
    /\ job' = [job EXCEPT ![w] =
                  [j EXCEPT !.pc = "scan", !.todo = @ \ {j.file},
                            !.snap = [j.snap EXCEPT !.entries[j.file] = e],
                            !.file = None, !.stat = None, !.checksum = None]]
    /\ UNCHANGED <<world, meta, witness, process>>

\* store_snapshot: fs::write creates or truncates the metadata file ...
OpenMeta(w) ==
    /\ job[w].pc = "scan" /\ job[w].todo = {}
    /\ meta' = [meta EXCEPT ![job[w].id] = Torn]
    /\ job' = [job EXCEPT ![w].pc = "publish"]
    /\ UNCHANGED <<world, data, witness, process>>

\* ... and fills it; the backup returns Ok.
WriteMeta(w) ==
    /\ job[w].pc = "publish"
    /\ meta' = [meta EXCEPT ![job[w].id] = job[w].snap]
    /\ witness' = [witness EXCEPT ![job[w].id] = job[w].seen]
    /\ Finish(w)
    /\ UNCHANGED <<world, data, stops, births, used>>

\* The process dies or returns an error: an I/O error, a file that vanished
\* since collect_files, an ancestor that does not load.  Nothing is undone.
Abort(w) ==
    /\ job[w].pc # "idle" /\ stops < MaxStops
    /\ stops' = stops + 1
    /\ Finish(w)
    /\ UNCHANGED <<world, vault, births, used>>

-----------------------------------------------------------------------------
(* Deleting a snapshot.                                                    *)

\* Mutant: the data directory goes first.
DeleteDataFirst(w, x) ==
    /\ job[w].pc = "idle"
    /\ Listed(x) /\ stops < MaxStops
    /\ stops' = stops + 1
    /\ data' = [data EXCEPT ![x] = NoEntries]
    /\ job' = [job EXCEPT ![w] = [Idle EXCEPT !.pc = "rmdata", !.id = x]]
    /\ UNCHANGED <<world, meta, witness, births, ctr, used>>

\* delete_snapshot removes the metadata file first (the id is one the listing
\* shows) ...
DeleteMeta(w, x) ==
    /\ job[w].pc = "idle"
    /\ Listed(x) /\ stops < MaxStops
    /\ stops' = stops + 1
    /\ meta' = [meta EXCEPT ![x] = None]
    /\ witness' = [witness EXCEPT ![x] = NoEntries]
    /\ job' = [job EXCEPT ![w] = [Idle EXCEPT !.pc = "rmdata", !.id = x]]
    /\ UNCHANGED <<world, data, births, ctr, used>>

\* ... and the data directory after it.
DeleteData(w) ==
    /\ job[w].pc = "rmdata"
    /\ data' = [data EXCEPT ![job[w].id] = NoEntries]
    /\ Finish(w)
    /\ UNCHANGED <<world, meta, witness, stops, births, used>>

-----------------------------------------------------------------------------
(* The users of the source trees.                                          *)

Touch(s, f, v) ==
    /\ edits < MaxEdits
    /\ edits' = edits + 1
    /\ tree' = [tree EXCEPT ![s][f] = v]
    /\ versions' = versions \cup (IF v = None THEN {} ELSE {<<s, f, v>>})
    /\ job' = [w \in Workers |->
                 IF job[w].snap # None /\ job[w].snap.src = s
                 THEN [job[w] EXCEPT !.seen[f] = None] ELSE job[w]]
    /\ UNCHANGED <<clock, vault, process>>

Edit(s, f) == \E c \in Contents : Touch(s, f, [mtime |-> clock, content |-> c])

Unlink(s, f) == tree[s][f] # None /\ Touch(s, f, None)

\* mv, cp -p, rsync -a, tar: an earlier version returns with its mtime.
PutBack(s, f) ==
    /\ PreservingTools
    /\ \E v \in {u \in Version : <<s, f, u>> \in versions} : Touch(s, f, v)

Tick ==
    /\ clock < MaxClock
    /\ clock' = clock + 1
    /\ UNCHANGED <<tree, edits, versions, vault, process, job>>

User(s, f) == Edit(s, f) \/ Unlink(s, f) \/ PutBack(s, f)

Backup(w) ==
    \/ \E s \in Sources, k \in Kinds : Choose(w, s, k)
    \/ Start(w) \/ Prepare(w)
    \/ \E f \in Files : Examine(w, f)
    \/ Hash(w) \/ Copy(w) \/ OpenMeta(w) \/ WriteMeta(w)

Delete(w) == (\E x \in Ids : DeleteMeta(w, x)) \/ DeleteData(w)

Next ==
    \/ \E w \in Workers : Backup(w) \/ Delete(w) \/ Abort(w)
    \/ \E s \in Sources, f \in Files : User(s, f)
    \/ Tick

Spec == Init /\ [][Next]_vars

-----------------------------------------------------------------------------
(* Properties.                                                             *)

\* The chain a restore of x needs, when all of it is still listed.
ChainIntact(x) == \A y \in Lineage(x) : Listed(y)

\* The snapshot of x's chain with the newest entry of f: empty or one id.
NewestHolder(x, f) == Latest({y \in Lineage(x) : meta[y].entries[f] # None})

\* No two different contents of f ever had the same mtime.
Steady(s, f) ==
    \A v, u \in {t[3] : t \in {r \in versions : r[1] = s /\ r[2] = f}} :
        v.mtime = u.mtime => v = u

\* Every entry of a snapshot that can be listed has its file in the vault, at
\* every step of concurrent backups, deletes and crashes (local.rs stores the
\* data before the metadata and deletes it after).
PublishedHasData ==
    \A x \in Ids : Listed(x) =>
        \A f \in Files : meta[x].entries[f] # None => data[x][f] # None

\* Why PublishedHasData holds: ids in use are accounted for and a backup shares
\* its id with no other job, ...
IdsApart ==
    /\ \A x \in Ids : meta[x] # None => x \in used
    /\ \A w \in Workers : job[w].id # None => job[w].id \in used
    /\ \A w, v \in Workers :
           w # v /\ job[w].snap # None /\ job[v].id # None => job[w].id # job[v].id

\* ... a snapshot under construction is not listed and has the data of the
\* entries made so far, ...
BuildingHidden ==
    \A w \in Workers : job[w].snap # None =>
        /\ ~Listed(job[w].id)
        /\ \A f \in Files : job[w].snap.entries[f] # None
                               => data[job[w].id][f] # None

\* ... and neither is one whose data is being removed.
DeletedHidden == \A w \in Workers : job[w].pc = "rmdata" => ~Listed(job[w].id)

\* The inductive invariant.
VaultInv == /\ TypeOK
            /\ IdsApart
            /\ BuildingHidden
            /\ DeletedHidden
            /\ PublishedHasData

\* The backups under way with the id x.
Owners(x) == {w \in Workers : job[w].snap # None /\ job[w].id = x}

\* The checksum of an entry is the checksum of the stored data, for every file
\* no user touched while the backup ran.
UntouchedVerifies ==
    \A x \in Ids : Listed(x) =>
        \A f \in Files :
            meta[x].entries[f] # None /\ witness[x][f] # None
                => meta[x].entries[f].checksum = data[x][f]

\* Why UntouchedVerifies holds: what a backup found in a file nobody touched since is
\* what the tree holds and what the checksum in hand was taken of, ...
SeenInTree ==
    \A w \in Workers, f \in Files :
        job[w].snap # None /\ job[w].seen[f] # None =>
            /\ tree[job[w].snap.src][f] # None
            /\ tree[job[w].snap.src][f].content = job[w].seen[f]
            /\ job[w].pc = "copy" /\ job[w].file = f => job[w].checksum = job[w].seen[f]

\* ... it is what the entries and the data of the snapshot under construction hold, ...
BuildingFaithful ==
    \A w \in Workers, f \in Files :
        job[w].snap # None /\ job[w].seen[f] # None /\ job[w].snap.entries[f] # None =>
            /\ job[w].snap.entries[f].checksum = job[w].seen[f]
            /\ data[job[w].id][f] = job[w].seen[f]

\* ... and what they hold for as long as the snapshot is listed.
PublishedFaithful ==
    \A x \in Ids, f \in Files :
        Listed(x) /\ meta[x].entries[f] # None /\ witness[x][f] # None =>
            /\ meta[x].entries[f].checksum = witness[x][f]
            /\ data[x][f] = witness[x][f]

FaithfulInv == SeenInTree /\ BuildingFaithful /\ PublishedFaithful

\* The newest copy in x's chain is what the source held when x was made.
Recovered(x, f) == \E y \in NewestHolder(x, f) : data[y][f] = witness[x][f]

\* A file nobody touched during a backup is recovered from the snapshot and its
\* chain, whatever mixture of strategies made them: the newest copy in the
\* chain is what the source held.  Requires that the file's mtime tells its
\* versions apart.
ChainRestoresSource ==
    \A x \in Ids : Listed(x) /\ ChainIntact(x) =>
        \A f \in Files :
            witness[x][f] # None /\ Steady(meta[x].src, f) => Recovered(x, f)

\* Why chains restore.  Parents were published before their children were started, ...
Done(x) == x \in used /\ Owners(x) = {}

Linked(p, born, src, strategy) ==
    /\ strategy = "full" => p = None
    /\ p # None => Done(p)
    /\ Listed(p) => /\ meta[p].born < born
                    /\ meta[p].src = src
                    /\ strategy = "differential" => meta[p].strategy = "full"

LinkedRecord(s) == s.born <= births /\ Linked(s.parent, s.born, s.src, s.strategy)

LinkInv ==
    /\ \A x \in Ids : Listed(x) => LinkedRecord(meta[x])
    /\ \A w \in Workers : job[w].snap # None => LinkedRecord(job[w].snap)
    /\ \A w \in Workers : job[w].pc = "new" =>
           Linked(job[w].plan.parent, births + 1, job[w].plan.src, job[w].plan.strategy)

\* ... a backup compares with the whole chain of its parent, if it is still there, ...
Comparing(j) == j.pc \in {"scan", "hash", "copy", "publish"}

FirstOf(p, chain) ==
    /\ p = None => chain = {}
    /\ Listed(p) => chain = {meta[p]}

ChainInv ==
    \A w \in Workers :
        /\ job[w].pc = "new" => FirstOf(job[w].plan.parent, job[w].chain)
        /\ job[w].pc = "prepare" => FirstOf(job[w].snap.parent, job[w].chain)
        /\ Comparing(job[w]) /\ ChainIntact(job[w].snap.parent) =>
               job[w].chain = {meta[y] : y \in Lineage(job[w].snap.parent)}
        /\ job[w].pc = "publish" => job[w].todo = {}

\* ... an entry is not newer than its data, and its data not newer than the tree, when
\* nobody puts old versions back, ...
WorldInv ==
    /\ \A s \in Sources, f \in Files : tree[s][f] # None => <<s, f, tree[s][f]>> \in versions
    /\ \A t \in versions : t[3].mtime <= clock

Past(s, f, m) == m <= clock /\ (tree[s][f] # None => m <= tree[s][f].mtime)

CopiedAfter(s, f, m, content) ==
    \E v \in Version : /\ <<s, f, v>> \in versions /\ v.content = content
                       /\ m <= v.mtime /\ Past(s, f, v.mtime)

AgeInv ==
    /\ \A x \in Ids, f \in Files : Listed(x) /\ meta[x].entries[f] # None =>
           CopiedAfter(meta[x].src, f, meta[x].entries[f].mtime, data[x][f])
    /\ \A w \in Workers, f \in Files : job[w].snap # None /\ job[w].snap.entries[f] # None =>
           CopiedAfter(job[w].snap.src, f, job[w].snap.entries[f].mtime, data[job[w].id][f])
    /\ \A w \in Workers : job[w].pc \in {"hash", "copy"} =>
           Past(job[w].snap.src, job[w].file, job[w].stat.mtime)

\* ... so that entries get no older along a chain, ...
NoNewerIn(p, f, m) ==
    ChainIntact(p) => \A y \in Lineage(p) : meta[y].entries[f] # None
                                              => meta[y].entries[f].mtime <= m

OrderInv ==
    /\ \A x \in Ids, f \in Files : Listed(x) /\ meta[x].entries[f] # None =>
           NoNewerIn(meta[x].parent, f, meta[x].entries[f].mtime)
    /\ \A w \in Workers, f \in Files : job[w].snap # None /\ job[w].snap.entries[f] # None =>
           NoNewerIn(job[w].snap.parent, f, job[w].snap.entries[f].mtime)
    /\ \A w \in Workers : job[w].pc \in {"hash", "copy"} =>
           NoNewerIn(job[w].snap.parent, job[w].file, job[w].stat.mtime)

\* ... and a file without an entry is held by the chain as the backup saw it.
Matched(s, f, content) ==
    s.strategy # "incremental" /\ ChainIntact(s.parent) =>
        \E y \in Lineage(s.parent) :
            /\ meta[y].entries[f] # None
            /\ <<s.src, f, [mtime |-> meta[y].entries[f].mtime, content |-> content]>>
                   \in versions

Settled(s, f, content) ==
    ~PreservingTools /\ ChainIntact(s.parent) /\ Steady(s.src, f) =>
        /\ \E y \in Lineage(s.parent) : meta[y].entries[f] # None
        /\ \A y \in Lineage(s.parent) :
               meta[y].entries[f] # None => data[y][f] = content

Accounted(s, f, content) ==
    s.entries[f] = None => Matched(s, f, content) /\ Settled(s, f, content)

AccountInv ==
    /\ \A x \in Ids, f \in Files : Listed(x) /\ witness[x][f] # None =>
           Accounted(meta[x], f, witness[x][f])
    /\ \A w \in Workers, f \in Files :
           Comparing(job[w]) /\ job[w].seen[f] # None /\ f \notin job[w].todo =>
               Accounted(job[w].snap, f, job[w].seen[f])

RestoreInv == /\ LinkInv /\ ChainInv /\ WorldInv /\ AccountInv
              /\ ~PreservingTools => AgeInv /\ OrderInv

\* The copy of f in y is one version of the file: mtime and data belong together.
Whole(y, f) ==
    meta[y].entries[f] # None =>
        <<meta[y].src, f, [mtime |-> meta[y].entries[f].mtime,
                           content |-> data[y][f]]>> \in versions

\* x gives back its source even when users also put old versions back with their
\* mtime, provided no copy in the chain was torn by an edit during the copying.
PutBackRecovered(x) ==
    \A f \in Files :
        /\ witness[x][f] # None
        /\ Steady(meta[x].src, f)
        /\ \A y \in Lineage(x) : Whole(y, f)
        => Recovered(x, f)

\* Violated by the code: every chain stands versions put back.  Incremental backups
\* compare with the oldest copy in the chain (strategy.rs, build_complete_file_map).
WholeChainRestoresSource ==
    \A x \in Ids : Listed(x) /\ ChainIntact(x) => PutBackRecovered(x)

\* Full and differential backups, which compare with one snapshot, stand versions put
\* back, also when other processes back up, delete and stop meanwhile.
DifferentialRestoresSource ==
    \A x \in Ids : Listed(x) /\ ChainIntact(x) /\ meta[x].strategy # "incremental"
        => PutBackRecovered(x)

\* What the catalogue of snapshots looks like from outside.
Life(x) == IF x \notin used THEN "free"
           ELSE IF Listed(x) THEN "published"
           ELSE IF Owners(x) # {} THEN "reserved"
           ELSE "gone"

Holds(x) == IF Listed(x)
            THEN [f \in Files |-> IF meta[x].entries[f] = None THEN None ELSE data[x][f]]
            ELSE NoEntries

Catalog == INSTANCE VaultCatalog WITH life <- [x \in Ids |-> Life(x)],
                                      holds <- [x \in Ids |-> Holds(x)]

\* Backups, deletes and crashes, step by step, look like the catalogue's four
\* atomic operations: a snapshot appears whole, never changes and its id is
\* never used again.
ImplementsCatalog == Catalog!Spec

=============================================================================
