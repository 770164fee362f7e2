# Formal verification of OpenVault

OpenVault is a backup system in Rust: a core library with backup strategies, a
snapshot vault, replication by the 3-2-1 rule, healing, restoring, encryption, an
audit log and chunk deduplication; a command line; an HTTP server that manages
devices and backup tasks; a transport and a small analysis crate.  This directory
holds TLA+ models of the parts whose correctness depends on order, failure and
interleaving, the TLC instances that check them, and proofs of their main theorems.
Source paths below are relative to `src/crates/`; `core` is
`openvault-core/src`, `storage` is `openvault-storage/src`, `server` is
`openvault-server/src`, `transport` is `openvault-transport/src`, `intel` is
`openvault-intel/src`.

## How to run

    tlc -config <Run>.cfg <MC module>     # one run, see the table of runs
    tlapm <Component>Proofs.tla           # the proofs of one component

`PROJECT.json` lists components, runs, the source lines of every definition (`map`),
the mutants (an altered definition for each property that makes its run fail),
hazards, findings and theorems.

## Inventory

For every component: its state, its operations, what it works with, what is hard
about it, and what makes it correct.

### Storage and backup

| component | state | operations | works with | what is hard | correct when |
|---|---|---|---|---|---|
| Backup strategies (`core/strategy.rs`, `snapshot.rs`) | a snapshot under construction, the chain of reference snapshots, a process-wide id counter | full, incremental, differential backup | reads a source tree that users edit; stores through the vault | file read twice, stat before both; reference chosen long before publishing; several processes; crash at any step | a listed snapshot and its chain give back the source |
| Snapshot vault (`storage/local.rs`, `core/storage.rs`) | metadata files, data directories | store file, store/list/load/delete snapshot, latest | used by every other component | data and metadata are separate files written in place | what is listed has its data; a snapshot is published once and is then immutable until deleted |
| Object stores (`storage/s3.rs`, `r2.rs`) | objects under `data/` and `metadata/` | the same operations, each a sequence of HTTP requests | several clients on one bucket | no retries: a request that failed or timed out may arrive later; a listing is one page | what is listed has its objects; the latest snapshot is found |
| Chunk backup (`core/incremental.rs`) | stored hashes and their counters, per snapshot chunks, manifests | store chunk, save/load metadata, gc, full and incremental backup, restore file; chunking | vault storage; several threads share a store | one thread relies on what another stored; metadata survives a restart in an older state; an edit must not move every cut | every saved manifest can be restored; chunks behind an edit are shared |
| Storage pipeline (`core/pipeline.rs`, `compress.rs`) | a configuration | store and retrieve through compression and encryption, nested decorators, formats detected on reading | any storage | files stored under one configuration and read under another; files that look compressed themselves | what comes out went in, or an error |
| Encryption and keys (`core/crypto.rs`) | master key and version, data keys, replaced master keys; stream buffers | derive data key, rotate master key, encrypting storage, streaming writer and reader | restore engine, vault | data outlives keys; reads of any length | a rotation takes effect at once; a stream gives back whole records in their order, up to an error all of them |
| Integrity verification (`core/integrity.rs`) | a report | verify files, verify a snapshot | the vault's files, which change meanwhile | file by file, size before checksum | the report judges every entry, rightly if untouched |
| Restore engine (`core/restore.rs`) | a report per restore | restore, `restore_file`, conflict strategies | reads the vault through a decrypting storage, writes a directory others use | look first, write later; write in place; rename names of one file are names of another | verified files are the originals; nothing in the way is lost without being asked; the report is complete |

### Keeping copies

| component | state | operations | works with | what is hard | correct when |
|---|---|---|---|---|---|
| Replication coordinator (`core/replicator.rs`) | the backends' contents; per run, sets of successful, existing and failed targets | `replicate_snapshot`, `auto_remediate`, `maintain_321` | policy engine, healing engine, backends | backends fail and return between any two calls; other jobs work on the same backends | replicas converge to what the primary holds |
| 3-2-1 policy engine (`core/policy.rs`) | none of its own | `check_health`, `remediate` | asks every backend for its snapshots | judges by metadata only, and by answers that age | the plan leads to compliance |
| Healing engine (`core/healing.rs`) | a scan, a count of heals | `scan`, `heal`, `heal_from_sources` | reads sources, writes the damaged target | acts on an old scan; a limit on heals | writes only good data, and heals all that a source can cure |
| Transport (`transport/transport.rs`, `router.rs`) | a connection status shared by tasks | connect, upload, download, delete, list; choice of path and storage | a remote vault | a request that timed out may still be carried out; tasks connect at once | what was acknowledged is there; an attempt that ends takes the status out of "connecting" |
| Scheduler and analysis (`intel/scheduler.rs`, `anomaly.rs`, `classifier.rs`) | a heap of tasks; checkpoints; custom rules | schedule next / all, predict a backend's risk, classify a path | device manager, coordinator | tasks that may not run are popped and put back; rules that do not compile | the best task that may run is taken; a backend recovers; a broken rule is as none |

### Server

| component | state | operations | works with | what is hard | correct when |
|---|---|---|---|---|---|
| Backup service and HTTP API (`server/services.rs`, `handlers.rs`) | devices, policies, backups, snapshots, tenants, the audit log, each behind its own lock | register, heartbeat, update, policies, trigger backup, tenants, compliance check, status; the webhook | audit log, compliance checker | a handler takes the locks one after the other and is dropped where it stands when its client disconnects; `notify` holds a lock while it posts | the log agrees with the work; a device does not go back in time; a writer gets the lock as soon as every request is answered |
| Device manager (`server/device_manager.rs`) | registry with last heartbeats, policy mapping with overrides | register, heartbeat, status, storage, `check_heartbeats`, the coordinator's choices, resolve policies | scheduler | the check runs against heartbeats and registrations of old profiles | a silent device is noticed, and once |
| Agent API (`server/agent_api.rs`) | agents, tokens, a status cache of five seconds | register, revoke, execute command | replicas | look-up and insertion are two locks | an answer is never older than its age limit |
| Web interface (`server/web_api.rs`) | files, alerts, counters, a lock each | add and update files, alerts, overview, page of files | browser | the overview reads lock by lock, pages run over an unsorted map | numbers read together fit together |
| Audit log (`core/audit.rs`) | active entries, archived segments, the last hash, a sequence number | append (with rotation), `verify_chain`, paged query | server's `AuditService` under a lock | the chain crosses the border of each rotation; pages shift under the reader | the history is one hash chain, an alteration of what is hashed is noticed, pages miss nothing |
| Notifications (`core/notification.rs`) | rules, history, one table of sent keys | send, set and toggle rules, read flags | the services | the table serves all rules | no repetition within a rule's window |
| Tenants and access (`core/tenant.rs`) | quotas, usage, access entries | create, update, delete, report usage, check quota, grant, revoke, check | the services | two maps by tenant; entries outlive tenants | the maps stay in step |
| Compliance and retention (`core/compliance.rs`) | rules, records | check a policy for a path, find expired records | policies | two readers of one rule | a policy that passes deletes nothing that a rule it is held to retains |
| Search index (`core/search.rs`) | entries by path | index, remove, search, semantic search | the vault's files | sorting and cutting of results | nothing left out is more relevant |

### Command line

`openvault-cli/src/main.rs` calls the components: its backup, snapshot, restore, replicate,
policy and heal commands are modelled with them.

## Not modelled

* `compute_aggregate_checksum` (`core/integrity.rs`): one checksum over sorted checksums; no
  state, and what it tells apart is a property of the hash alone.
* Text extraction and the query parser of the search, ciphers, password hashing, S3
  signatures and XML: computation over strings and bytes by tables or libraries.
* `vault put` and `vault get` of the command line: `put` writes metadata and data that
  belong to no other component's protocol (see the disagreements below).  Its `tenant`,
  `audit` and `notify` commands work on objects made for the call and forgotten with it.
* Restores and searches of the HTTP API answer with made-up data and change nothing;
  tokens are compared, routes are a table; the agent manifest is a constant.
* Pages and static files: layout.  Configuration, error types, re-exports, benchmarks:
  nothing that behaves.

## Modules

`X.tla` is a component, `MCX.tla` gives its constants values for TLC, and
`XProofs.tla` holds theorems and their proofs.

| module | models |
|---|---|
| `BackupVault` | backup strategies over the local vault: sources, users, processes, crashes |
| `VaultCatalog` | abstract: what a vault promises of the life of a snapshot |
| `Replication` | coordinator, policy engine and healing engine over failing backends |
| `AuditLog`, `AuditQuery` | append, rotation, verification, alteration; readers that page through it |
| `ChunkBackup`, `Chunker` | the chunk store and the backups that share it; where files are cut |
| `ChunkUses` | the ways a program can call `ChunkBackup`: collecting, reloading, or both |
| `KeyManager`, `StreamCrypto` | master and data keys; streams of encrypted records |
| `Restore` | extends `KeyManager`: encrypted storage, restores, the target directory |
| `ObjectStore` | the vault in a bucket: clients, requests, requests that arrive late |
| `DataLayers` | compression and encryption around a storage |
| `IntegrityCheck` | verification of files that change |
| `ServerClock` | shared by the following: the wall clock, the count of requests, `Nothing` |
| `BackupServer` | the handlers of the HTTP server, cut at their awaits |
| `DeviceFleet`, `AgentApi`, `Dashboard` | device manager, agent API, data of the web interface |
| `Notifications`, `Tenants`, `Compliance`, `Webhook`, `FileSearch` | the smaller services |
| `Scheduler`, `Anomaly`, `Classifier` | scheduling and analysis |
| `Selection` | what `retain` and `filter` leave of a sequence, used by `AuditQuery`, `Dashboard`, `Notifications`, `Compliance` and `Classifier` |
| `Transport`, `Routing` | transport and its choice of paths |
| `MCServer`, `MCLibrary` | the parts of the server, and of the library, in one instance each |

Parts that share no state are checked in one run: the initial state chooses the part
that moves, so that their states add up instead of multiplying.  Each keeps its own
variables, `Next` and properties.

### BackupVault

A process (`job[w]`) goes through *new, prepare, scan, hash, copy, publish* for a
backup, and *rmdata* for a deletion.  `Choose` takes the reference snapshot of the
strategy, `Start` the id `<<second, counter>>`, `Prepare` walks the chain
(`build_complete_file_map`) and lists the source, `Examine` stats a file and
compares, `Hash` reads it for the checksum, `Copy` reads it again and stores it,
`OpenMeta` and `WriteMeta` write the metadata in place.  `DeleteMeta` and `DeleteData` are
the two halves of `delete_snapshot`.  `Abort` stops a process at any step, by an error or a
crash.  Users edit, remove and, with `PreservingTools`, put back files between any
two steps.  `witness` records which files nobody touched during a backup, `versions`
all versions of a file there ever were, `used` the ids ever given: history for the
properties, read by no action but the ones that keep it.

The metadata of a snapshot is `None`, `Torn` while written, or a snapshot; a torn
file is not listed, since `list_snapshots` passes over files that do not parse.
Time runs in seconds because ids and mtimes do.

### VaultCatalog

An id is free, reserved, published with its entries, or gone, in this order.
`BackupVault` implements it (`ImplementsCatalog`): data files of a snapshot under
construction or deletion belong to a reserved or gone id.

### Replication

A job is one call of `replicate_snapshot`, `auto_remediate`, `maintain_321` or of the
heal command; its `pc` is the access to a backend that comes next.  A backend holds
the metadata of some snapshots (`has`), a cell *good, bad, none* per file, and may be
down.  Rot, loss, deletion, outage and crash happen between any two steps, bounded by
`MaxFaults`.  `calm` is history: nothing was disturbed since the job began.  `crossed` is, too:
the snapshots of which a heal replaced a file while two replications to one target were under
way, on that target or on the primary.

### AuditLog

Active entries, archived segments, the last hash.  A digest is the sequence of
what was hashed for it, so it is equal only where the same was hashed.  `compute_hash` feeds the
fields one after the other with nothing between them: `Characters` gives the characters of a
body, and two bodies that divide the same characters otherwise into fields have one hash.
`append` includes the rotation, and `Verified` is `verify_chain`.  Someone may alter
an entry, with or without computing its hash again; `altered` records it where what is hashed
changes.  `AuditQuery` adds readers that ask for page
after page of what matches a filter, while the log goes on.

### ChunkBackup

A chunk is its hash.  `meta` is the bookkeeping in memory, `saved` what `save_meta` wrote,
`whole` the chunks stored under each snapshot, `manifests` the saved manifests.
A job reads files and stores their chunks one at a time; `Known` chunks are not
stored again.  Writes may fail, and then destroy the file they overwrite (the local storage's
`std::fs::write` empties it first) or not; `forgotten` are chunks the store once knew and knows no
more, after a restart or `load_meta`, and `ruined` those of them whose file such a write then
destroyed, both history.  Backups
abort, the process restarts, metadata is loaded again, and `gc` empties chunks that
no manifest needs.  `gc` and `load_meta` happen only while no backup runs: nothing in
the code calls them, and exclusion is left to the caller.  `ChunkUses` says which of them a
program calls: both at once lose data (`ChunkReload`), collecting over several snapshots or
reloading with one snapshot do not.  `Chunker` is where `chunk_data` cuts a file of
bytes, with its rolling hash, before and after an edit.

### KeyManager and Restore

A data key is the triple it is hashed from (master key, context, version).
A stored file is sealed with the key of the storage in use (`opened`), or is in the
clear; AES-GCM opens only what its key sealed.  A restore goes through *next, fetch, open, write* for
each file: `Resolve` is `resolve_conflict`, `Fetch` reads, decrypts and compares the
checksum, `Open` and `Write` are the two halves of `fs::write`, between which the file is
empty or partial.  `late` and `raced` record what others changed.  The `fail` strategy does
what `skip` does (an error in the report, and on to the next file), so it is not a case of its own.

### ObjectStore

Metadata and files of a snapshot are objects.  `command[c]` is the operation a client is in:
an upload puts the files and then the metadata, a deletion removes the metadata and then
lists and removes files, a restore and a look-up read.  Each request succeeds, fails, or times
out, and in the last case a copy of it is put into `late` or not, to be carried out at any later moment.
A listing returns the first `PageKeys` keys in their order, as `list_objects` does without
following the continuation.

### DataLayers, StreamCrypto, IntegrityCheck

Data is its content inside the layers it went through, so that detection of formats and
opening with a key are what they are in the code, and a user's own `.zst` file is a frame
that no layer made.  A stream is a sequence of records whose bytes are pairs of record and
position: they open if they are one whole record, which is what AES-GCM guarantees.
What does not open is an error of that read; the next read goes on with the bytes behind it, as
`DecryptedReader` does, whose `finished` only the end of the stream sets.
A verification looks twice at each file, and files change, vanish or become unreadable at any step.

### BackupServer

`call[c]` is the handler a client's request is in: created backups and tenants wait there for their
audit entry, a registration for the lock with the clock it has read, `GET /status` for its
next count.  Simple requests, whose handler makes one service call, are one step.  `Disconnect` is a client
that goes away: hyper drops the handler at its await.  `dropped` is history: the work whose
handler was dropped.

### DeviceFleet, AgentApi, Dashboard

`DeviceFleet` keeps profiles with their status and last heartbeat; `CheckHeartbeats` walks
over all of them under one lock, as the code does.  The coordinator works on a copy.
`checkedAt`, `since`, `reported` and `again` are history of the checks.  In `AgentApi` a command is
cut between the look-up in the cache, the computation and the insertion; `delay` is history.
In `Dashboard` an overview goes lock by lock through the files, the storage and the rest, and a
reader asks for page after page; the order in which the map is iterated is any, but the
same as long as no file is added.

### The smaller services

`Notifications` sends through an ordered list of rules that callers change, with the one
table of keys that all rules share.  `Tenants` keeps the two maps of the code and the access
entries.  `Compliance` has days for time; a check of a policy and the expiry of a record are
the two separate computations of the code.  `Webhook` is a fair read-write lock with its
queue, as tokio's is, and `notify` that keeps its read lock over the request: `PostAnswered` is
up to the peer, `Release` is the code's.  A tenant's path is where it lies, whom it is of and
what it is under, which is what prefixes tell.
`FileSearch` keeps the copy on which the semantic search works apart from the index.

### Scheduler, Anomaly, Classifier, Routing

The loop of `schedule_next` is modelled pop by pop, hours are those of the clock (UTC), scores are integers in hundredths.
Risk is computed from sums, with the weights and thresholds of the code.  A path has the
features the classifier looks at.  `Routing` is the tables of the routers.

### Transport

One status, shared by all tasks, and a request per task.  An attempt to connect without a client
ends as it starts, and one may be dropped at its await (`ConnectDropped`); both leave the status at
"connecting".  A request arrives (and is done or refused) and
then its answer does; the client's timeout may fall before, between or never, and a request
that had not arrived then is lost, or goes to `stray` and is done later.  `stored` is
history: what was acknowledged, as long as no other request for the file was begun.

## Runs

| run | question | instance | distinct states |
|---|---|---|---|
| `VaultIncremental` | do full and incremental backups verify, and does a chain give back its source? | 1 process, 1 file, 2 contents, 3 snapshots, 3 seconds, 2 edits | 401 470 |
| `VaultConcurrent` | do two processes that back up, delete and stop keep visible snapshots whole, and do differential backups stand files put back? | 2 processes, all strategies, 2 snapshots, 2 edits, 1 stop | 442 876 |
| `VaultPutBack` | violation: do incremental backups stand files put back? | 1 process, 3 snapshots, 2 seconds, 2 edits, `PreservingTools` | stops at the violation |
| `ReplicaCopies` | is a copy counted as fresh whole, and does healing write good data only? | 3 concurrent jobs, a primary and a replica, 1 file, 2 faults, at most 1 file per heal | 2 234 674 |
| `ReplicaConverge` | does maintenance bring every replica to the state of the primary? | 3 backends of two media, 2 files, 2 faults, `FairSpec` | 396 286 |
| `AuditRotated` | violation: does an untouched log verify? | 2 active entries, 3 appends | stops at the violation |
| `ChunkShared` | can saved manifests be restored when threads share chunks, with reloads in one snapshot or collections over two? | 2 threads, 2 chunks, a file with a repeated chunk, 3 backups, 1 restart, failing writes | 4 752 309 |
| `ChunkReload` | violation: the same with metadata reloaded after a collection | 1 thread, 1 snapshot id, 3 backups, a restart | stops at the violation |
| `RestoreConflicts` | do concurrent restores restore the originals, report everything and keep what was there? | 2 restores with different options, 2 files whose rename names collide, 1 outside event, 1 rotation | 2 097 419 |
| `KeyRotation` | violation: is data readable after a rotation? | 2 master keys, 1 rotation | stops at the violation |
| `ServerRequests` | do handlers that overlap, and whose clients leave, keep the log, the devices, the cache and the views right? | 2 clients, 1 device, 2 policies, 4 requests; 3 fleet devices; 2 commands; 2 dashboard files; 3 instants | 638 920 |
| `LibraryParts` | do the smaller parts of the library keep what they promise? | see below | 620 316 |

`LibraryParts`: a log of 3 active entries, 6 appends (two rotations) of three bodies, two of which
have the same characters, and an alteration, and a reader with pages of one over a log of up to
4 appends; three notification rules with windows 0, 1 and 2; 2 tenants and paths outside, inside
and below their prefixes; 5 compliance rules of every kind but custom; 2 webhook callers; 4 tasks, one of a device that is away and one over a network below
the least score, in days of 3 hours with a window that passes midnight;
4 checkpoints; 4 custom rules of which one is broken and one off; 2 transport tasks on one
file; sizes on both sides of the router's limit; every combination of layers under two keys or none; streams up to
5 units with chunks of 4; 2 entries to verify and 2 changes; 3 indexed files; a bucket of 3 snapshots of
2 files, 2 clients and pages of 2 keys; all files of 8 bits and all edits of one byte.

### What the properties say

*Vault.*  `UntouchedVerifies`: an entry's checksum fits its stored data for every file
nobody touched during the backup.  `ChainRestoresSource`: the newest copy in the chain
is what the source held, for files whose mtime tells versions apart.
`DifferentialRestoresSource`: full and differential snapshots keep this also when old
versions come back with their old mtime.  `PublishedHasData`, `ImplementsCatalog`: at no step
of concurrent backups, deletions and crashes is a snapshot visible without its data, and
each goes through the life `VaultCatalog` describes.

*Replication.*  `FreshReplicaWhole` (what was verified stays whole, unless a fault hits, or a heal
comes between two replications to one target), `HealsWithGoodData`, `HealComplete`
(a calm maintenance leaves nothing that a source can cure), `GoodCopiesKept` (no calm job
spoils a good copy), `ReplicasConverge` and `ReplicasPopulated` (eventually and for good).

*Audit.*  `OneChain`: archive and active entries are one chain.  `VerificationJudges`: what
`verify_chain` says of a log before its first rotation is right, judged by what is hashed: an
alteration that leaves the same characters to hash goes unnoticed, and so does one of the
last entry together with its hash, which nothing in the log can tell.  `PagesMissNothing`: a
reader sees every entry that is active throughout its reading, though appends push entries
to later pages and rotation takes the last.

*Chunks.*  `SharedRestores`, `NothingLost` (what a manifest needs is somewhere, if not
under the manifest's own snapshot).  Both except the `ruined` chunks, which a store that has
forgotten them after a restart writes again in place, and whose write fails: nothing in
the code protects these, and the properties say that no others are lost.  `TailChunksShared`: after an edit, from the first
common cut on all cuts are the old ones.

*Restore and keys.*  `RestoredIsOriginal`, `EndAccountsForAll`, `OthersKept`,
`KeysFollowMaster`.

*Data.*  `RetrievedIsStored`: through the same layers a file comes back; through added or
replaced ones it comes back or an error does.  `StreamFaithful`: a stream returns whole records, in
their order and each at most once; until a call fails they are a beginning of what was written
(a caller that reads on after the error may get later records); and a stream of one record that
fits the buffer, read without short reads, returns all of it.  `ReportTrue`: the verification's report.

*Object store.*  `PublishedComplete`: a snapshot with metadata has all its objects.
`LookupSeesNewest`: within one page the latest snapshot is found.

*Server.*  `AuditMatchesWork`: the log names only work that was done, each once, and what it
misses is on its way or was dropped with a client.  `LastSeenForward`: whatever the order of
clocks read and locks taken, a device that stays registered does not go back.  `SilenceNoticed`: a
device that is not offline was heard within the threshold of the last check or registered since, and an
outage is reported once.  `StatusAgeBounded`: a cached status is younger than its
time to live and the longest wait to store it.  `ViewsCoherent`: the overview's storage
covers its files, and pages partition what matches, if nothing was added.

*Services.*  `DedupAcrossRules`: a rule records nothing while something of the same key is
younger than its window, whoever sent it.  `CompliantDeletions`: what the checker
lets a policy delete, no rule that it holds the policy to retains: a rule of years, or a date that it
reports as passed.  Of keep-all and custom rules, and of rules for a higher class, it asks nothing.
`ConfigureCompletes`: whoever queues for the lock gets it, unless a peer never answers.
`BestMatches`: the search leaves out nothing better than what it returns.

*Analysis and transport.*  `NextTaskRight`, `BackendRecovers` (as many clean checkpoints as
there were before bring the risk to low), `BrokenRulesHarmless`, `AcknowledgedIsStored`,
`AttemptSettles` (an attempt carried to its end takes the status out of "connecting", whoever left it
there).

### Bounds, and why they are enough

The properties of the vault involve at most a snapshot, its parent and one other:
three snapshots, with two versions of a file between them, show every order of
edit, backup and deletion; two processes suffice because a process meets the others
only through the vault.  A replica, a source and a third backend are what healing and
the policy tell apart.  Three jobs are two replications and a heal between them; the instance with
them has one file, for its size, and the one of `ReplicaConverge` the two that are needed for a
copy to be half done (three jobs, two files and one fault pass as well, in 6.3 million
states).  Three active entries and six appends rotate twice, so an archived segment has neighbours on
both sides.  Two chunks and two threads give one chunk that is shared and one that is
not.  In the restore a third path is what the rename strategy has when both names are
taken; each restore is a disturbance for the other, so that one event from outside (a
damage, a user's change, a restart), at any step, is enough on top of them.

In the server two clients give every pair of handlers that overlap, and a third and fourth
request give what one of them finds changed; a handler has at most three awaits.  Time
goes two steps, which is before, at and after a threshold of one and the age of two.
Three devices are one to silence, one to hear and one to choose between.  In the bucket two
clients overlap and a third party is what they left in `late`; three snapshots are one more than
a page holds.  A stream of 5 units with chunks of 4 has a full record, a rest, and records that fit
the buffer and that do not.  The chunker's window of 3 in files of 8 has cuts before, in and
behind the window of an edit.  The transport's two tasks and one file are
the smallest case in which a late request meets another.

Files, contents, jobs, clients and master keys are symmetric where a cfg says so; never in a
run that checks liveness.  Deadlock is not checked: clocks, snapshots, edits, faults,
requests and restores are counted, so every model stops when its counts are used up, and the
programs themselves end.

### Fairness

* `ReplicaConverge`: a job's steps are weakly fair, being the next statements of a process
  that runs.  `maintain_321` is strongly fair: it is called again and again by a schedule, and a
  call is possible only when the job slot is free, which it is infinitely often.  An outage ends
  (`Return` is weakly fair).  Faults are bounded, so the property is about what
  maintenance does once faults stop.
* `LibraryParts`, webhook: the lock is granted in the order of its queue, as tokio's is, and a
  task whose POST is answered runs on to the end of `notify`.  Of the peer nothing is assumed: the code
  sets no timeout, and a POST that is never answered is the exception the property names.
* `LibraryParts`, transport: a connection attempt whose caller keeps waiting ends, with an answer or
  by the timeout its client is built with.  A dropped attempt is a step of its own, never forced
  nor excluded, and the property excepts it.

## Disagreements between code and documentation

Shown by runs:

* `VaultPutBack` (`WholeChainRestoresSource`) - `build_complete_file_map` (`core/strategy.rs:77-93`) walks from the newest
  snapshot to the oldest and lets the oldest entry win, where its comment says newer entries
  override.  A file changed and then put back to its first version is taken for
  unchanged, and the chain restores the version in between.
* `AuditRotated` (`UntamperedVerifies`) - `verify_chain` (`core/audit.rs:237`) expects an empty previous hash of the first
  active entry, which a rotation moves to the archive.
* `ChunkReload` (`SavedRestores`) - `gc` does not save the metadata it changed (`core/incremental.rs:348-371`).
  `load_meta` then takes emptied chunks for stored.
* `KeyRotation` (`OldDataReadable`) - nothing reads `old_master_keys` (`core/crypto.rs:705-718`), and a new
  manager counts versions from 1, so data from before a rotation cannot be
  decrypted through the manager, in this process or the next.

Met while modelling, without a run of their own.  Storage and backup:

* A target with metadata counts as replicated even if its copy stopped half way
  (`core/replicator.rs:165`); policy health counts metadata only.
* A read error on the target counts as absence, so an outage at that moment has the
  target overwritten (`replicator.rs:173`).  A damaged primary is never healed.
* `is_fully_healed` is true when the limit stopped the run (`core/healing.rs`).
* Two processes in one second give one snapshot id (`core/snapshot.rs:61`), and two manifests of
  one second one manifest id (`core/incremental.rs:433`).
* A change in the same second that keeps the length is not noticed (`strategy.rs:124`).
* `ConflictStrategy::Fail` (`core/restore.rs:25`, "Fail if any file conflicts") goes on with the next
  file, and `Skip` reports an error, so that a restore that skipped is no success.
  Checksums are verified before writing, not "after restore" (`restore.rs:36`).
  Restoring an incremental snapshot restores its own entries only, not its chain.
* `vault put` stores metadata before data, and into an existing snapshot data without
  metadata (`openvault-cli/src/main.rs:588-592`).
* A collection while a backup runs does not know the chunks of the manifest it has not saved
  (`incremental.rs:348`).  Manifests key files by their last name component (656);
  `restore_all` returns Ok though files failed (815);
  `total_stored_size` stays 0 and `total_bytes` is not reduced by `gc`.
* `Chunker` with a `max_chunk` of 0 does not end, and its rolling hash subtracts the byte that
  leaves the window unshifted.
* The audit log's `max_age_days` is read nowhere.  `compute_hash` (`core/audit.rs:91-109`) feeds
  the fields and metadata of an entry with nothing between them, so that moving characters from one field to
  its neighbour keeps the hash, and `verify_chain` (219, "Verify the entire hash chain integrity.")
  accepts the entry.
* `EncryptedStorage` frames its data with a 2-byte nonce length that
  `RestoreEngine::with_encryption` does not expect.
* `DecryptedReader`'s buffer (`crypto.rs:330`) leaves no room for the 16-byte tag: streams of
  65521 bytes and more never decrypt.  After the error of one read the next goes on behind the bytes
  of that one, and may return a later record (327-346).
* A restarted chunk store writes the chunks it has forgotten again in place, with a write that
  empties the file first (`storage/local.rs:69`): if it fails, older manifests have lost the chunk.
* Two replications of a snapshot to one target with a heal of the primary between them
  (`replicator.rs:179-227`): see "Snapshots and copies" below.
* `PipelineConfig.encryption_key_base64` is not serialized: a configuration that is saved and
  loaded stores in the clear, without an error (`pipeline.rs:304-408`).
* `list_objects` notices a truncated answer and goes on (`s3.rs:414-417`): beyond a page the
  newest snapshots cannot be seen, and a deletion leaves objects behind.

Services and server:

* The deduplication key of a notification does not name the rule (`notification.rs:208-251`), so the
  first rule that matches suppresses the others' channels.
* `KeepAll` passes any number of retention days (`compliance.rs:290`), an unreadable
  `KeepUntil` date counts as passed, and `years * 365` may overflow its 32 bits (294).
* `DELETE /snapshots/:id` answers success and deletes nothing (`handlers.rs:351-360`);
  `POST /search` searches an empty index (448-470); `per_page` of the audit query is ignored
  without `page` (520-523).
* `check_heartbeats` sets busy and error devices online, and has no caller.
* Access entries outlive their tenant; `check` asks for the path's restriction but not for its owner.
* Work whose client disconnects between creation and audit stays unlogged.
* The dashboard counts a file that is added again twice; `list_files` pages an unordered map, and
  `(page - 1) * per_page` may overflow.
* The semantic search's `index` and `remove` do nothing, on a copy that ages; relevance goes up to 1.3 where its
  comment says 1.0; text extraction cuts at byte 2000 and panics inside a character.

Transport and analysis:

* The default `bandwidth_limit` of 0 means unlimited (`config.rs:159`), and
  `estimate_transfer_time` divides by it (`router.rs:194-199`).
* Within a region a direct path is chosen over a poor network, too, fifty times slower than the relay.
* `status()` always says connected (`transport.rs:570-577`); `connect` writes "connecting" first (147), and
  leaves it there without a client (149-150) or when its caller drops it at the await (155);
  `max_retries` is not used.
* The hours of a `ScheduleWindow` are "in local time" (`scheduler.rs:63-66`), but `is_within` compares
  them with the hour and the weekday of a UTC time (101-107, 237).
* The webhook's POST has no timeout (`services.rs:359-371`) and is awaited under the read lock of the
  configuration: a peer that never answers keeps `configure` waiting for ever.
* The dotfile branch of the classifier cannot be reached (`classifier.rs:301`); the anomaly
  predictor's trend ignores `window_size`; the scheduler's `device_online` is that of the
  moment of queueing.

## Proofs

TLAPS proves the following for every value of the constants that satisfies the
modules' assumptions: any number of processes, snapshots, files, versions, faults, clients and
steps.  A hypothesis of the theorem itself is given in the last column.  Of the safety
properties and action properties that the runs check, every one is a theorem here.

| module | theorem | says |
|---|---|---|
| `BackupVaultProofs` | `TypeCorrect` | types, and that a job has exactly the data its step needs |
| | `PublishedComplete` | a listed snapshot has its data (`FreshIds`) |
| | `VaultImplementsCatalog` | the vault implements `VaultCatalog`, step by step (`FreshIds`) |
| | `UntouchedFilesVerify` | `UntouchedVerifies` (`FreshIds`) |
| | `ChainsRestore` | `ChainRestoresSource` (`FreshIds`, and nobody puts old versions back) |
| | `DifferentialsRestore` | `DifferentialRestoresSource`, old versions put back included (`FreshIds`) |
| `ReplicationProofs` | `TypeCorrect`, `HealsLimited`, `HealsWriteGood` | types; the limit of heals; healing writes good data only |
| | `FreshReplicasWhole` | `FreshReplicaWhole` (copies are verified, no heal command) |
| | `GoodCopiesStay` | `GoodCopiesKept` (no heal command, no deletion from outside) |
| | `HealsComplete` | `HealComplete` (one process) |
| `AuditLogProofs` | `TypeCorrect`, `HistoryIsOneChain`, `ActiveStaysBounded` | types; one chain over any number of rotations; the bound |
| | `VerificationIsRight` | `VerificationJudges`, for any bodies and characters |
| `ChunkBackupProofs` | `TypeCorrect`, `CountsExact` | types; `total_chunks` counts the known chunks |
| | `NoChunkLost`, `SavedAreRestorable` | `NothingLost` for callers that do not both collect and reload; with one snapshot id every manifest can be restored |
| | `OneSnapshotRestores` | `SharedRestores`: reloads included, while all backups are to one snapshot |
| `RestoreProofs` | `TypeCorrect`, `RestoresOriginals`, `ReportIsComplete`, `ConflictsAreKept`, `FreshKeys` | types and the four properties of the run |
| `ObjectStoreProofs` | `BucketTypes`, `BucketSound`, `ListedIsComplete` | types; the invariant of the bucket; `PublishedComplete` |
| | `LookupIsRight` | `LookupSeesNewest` |
| `ServerProofs` | `FleetTypes`, `SilenceIsNoticed` | types of the fleet; `SilenceNoticed` |
| | `ServerTypes`, `LogMatchesWork`, `DevicesGoForward`, `PoliciesStay` | types of the server; `AuditMatchesWork`, `LastSeenForward`; policies keep id and creation time |
| | `CachedIsRecent` | `StatusAgeBounded` |
| `LibraryProofs` | `TenantTypes`, `UsageOfTenants` | types; the two maps of the tenants have the same keys |
| | `DirectIsNoSlower` | between regions only a path at least as good as the relay is direct |
| | `TransportTypes`, `AcknowledgedStays` | types; `AcknowledgedIsStored` |
| | `ReportsAreTrue` | `ReportTrue` |
| | `SchedulesRight` | `NextTaskRight` |
| | `RetentionAgrees` | `CompliantDeletions` |
| | `BrokenRulesPassedOver` | `BrokenRulesHarmless` |
| | `SearchesFindBest` | `BestMatches` |
| | `NoneWithinWindow` | `DedupAcrossRules` |
| | `PagingIsComplete` | `PagesMissNothing` (nobody alters the log) |
| | `ViewsFitTogether` | `ViewsCoherent` |
| | `RetrievalsReturnTheStored` | `RetrievedIsStored` |
| | `BackendsRecover` | `BackendRecovers` |
| | `TailsKeepTheirChunks` | `TailChunksShared` |
| | `StreamsReadFaithfully` | `StreamFaithful` |

Each follows one pattern: an inductive invariant holds at first, every action keeps it
(one lemma per action), and it implies the property.

### Snapshots and copies

* *Vault.*  `VaultInv`: that a listed snapshot has its data is not inductive, since publishing
  trusts the steps before it.  It needs that a snapshot under construction is not
  listed and has the data of the entries made so far, that a snapshot losing its data
  is not listed, and that no two jobs have one id.  The last is where seconds enter:
  `FreshIds` says that no two runs share a second, or that there is one process, whose counter
  is ahead of every id it gave (`CounterAhead`).  `VaultIncremental` checks the second case and
  `VaultConcurrent` the first.
* *Refinement.*  `Life` and `Holds` are the refinement mapping: the life of an id follows from
  who owns it and whether it is listed, its contents from what is stored.  A lemma for each
  action shows it is a step of the catalogue on one id or none.
* *What an entry says.*  `FaithfulInv`: what a job saw of a file that was not touched since is
  still in the source, the entry made of it has its checksum, and its copy its content; so
  have published snapshots.
* *Chains.*  `RestoreInv` says why a chain gives back a file that has no entry of its own.
  Parents were published before their children and are of one source (`LinkInv`), a backup
  compares with all of its parent's chain (`ChainInv`), an entry is not newer than the version
  copied, nor that than the file (`WorldInv`, `AgeInv`), so that entries get no older along a
  chain (`OrderInv`), and a file passed over is held by the chain as it was seen (`AccountInv`).
  `AgeInv` and `OrderInv` need that nobody puts old versions back; what is left without them is
  enough for differential backups, whose comparison is with a full snapshot.  The lineage is a
  walk of bounded length; that it is closed under parents, and that it does not change when
  other snapshots are published, is by induction over its steps.
* *Replication.*  A heal carries the data it fetched and its verification; the invariant
  says that data at hand to be written was compared with the checksum, and that
  the count of heals is within the limit whenever another may start.  `CopyInv` follows a copy
  as long as nothing disturbs it: its buffer is what the primary has, the files it has passed are on
  the replica as on the primary, and those verified are good, before the replica counts as fresh.  Other
  undisturbed jobs never write anything but the primary's data (`Mirrored`), which is false of a
  heal: it changes the primary, and a copy at hand may be of the data before it.  That is
  why `FreshReplicasWhole` excludes the command, see below.  `HeldInv` and `BackedInv` say that a
  backend has no file of a snapshot it does not hold, and that of a snapshot being copied the replica has no
  good file which the primary has not.  A deletion from outside while a copy is under way breaks both:
  the copy goes on and leaves files without metadata, which a later copy takes for absent.
  `MendInv` lists, for each step of a maintenance, which files are already as good as the
  primary's.  It is for one process: with two, a newer snapshot may be on its way to a replica
  when the maintenance that healed it reports, with its metadata there before its files.

The exclusion in `FreshReplicaWhole` (`crossed`) is needed: without it TLC finds it violated with
three jobs.  Two replications of one snapshot see that the replica does not hold it; one reads a file
that is damaged at the primary; a heal repairs the primary; the other replication copies the good
file, verifies and counts the replica as fresh; the first writes its stale buffer over the file.  The
locks that `heal` and `replicate` would need for this are in no document of the repository, so
it is no disagreement.  `ReplicaCopies` has the three jobs, and shows that nothing but this
spoils a fresh copy; the theorem leaves heals out altogether.

### Logs, chunks, restores, buckets

* *Audit.*  `Chained`: active entries are linked, archived segments are linked, and the
  newest archived entry is what the oldest active one names.  For verification, `NumberedInv` and `HashInv`
  say that numbers ascend over rotations; that every hash is that of its entry while nothing that is hashed was
  altered; and that otherwise, until the first rotation, some entry does not fit its hash or its successor.
* *Paging.*  `PagesInv`: for a reader, every entry of interest is among those it has seen or ahead
  of where it will go on; appends only push entries further back.  When an alteration
  takes an entry that was shown out of what matches, those behind it move to pages the reader
  has passed: hence the hypothesis, which the run shares.
* *Chunks.*  `ChunkInv`: every chunk a manifest, a running backup or saved metadata counts on is
  stored or ruined, and known or forgotten, so that a write that destroys it is one of a forgotten chunk and
  makes it ruined; counting uses `FiniteSetTheorems`.  `HereInv` is what is left of it with reloads: old metadata may
  be loaded, but all it knows is stored, or ruined, under the one snapshot, from which nothing is collected.
* *Restore.*  `Sound` of each restore: the files asked for are split into to do, at hand,
  placed and failed; what is placed and untouched by others is there; the path at hand
  is not one that holds something this restore placed.  The last conjunct is what makes
  `RestoredIsOriginal` inductive: without it a renamed file could land on its
  sibling.  `KeysFollowMaster` is inductive by itself.
* *Object store.*  `StoreInv` speaks of everything that may still write or remove an object: an
  upload at work and a publication in `late` are the only ones for their id, since ids are drawn
  once, and the removal of an object, in `late` or in a deletion's hands, is of a snapshot whose
  metadata is gone for good.  What is published was complete when its metadata was sent.
  `LookupInv` follows a look-up: what it has listed covers every snapshot that was there all along.

### Server and services

* *Server.*  An entry, and a handler about to append one, is of work that exists, and no
  two of them are of the same work; `LogMatchesWork` follows.  For the devices, a handler that has read the
  clock is not ahead of it.  The two action properties follow from these
  and the types, one handler at a time.  `ServerAssumption` says what a handler needs to be told from none.
* *Fleet.*  A device that is not offline and was not registered since the check was heard
  within the threshold before it; a device reported as stale and not heard since is offline
  and still stale, so that the next check does not report it again.
* *Agents.*  An entry of the cache was computed at most `delay` before it was stored, also
  for the command between its computation and the insertion.
* *Dashboard.*  `OverviewInv`: the sizes of the listed files add up to no more than the storage, and
  so does what an overview under way has counted; the sums are folds over a set of files, in any
  order.  `ListingInv`: the pages seen so far are the first elements of the order in which the map is
  iterated, each once.
* *Transport.*  `StoredSafe` and `AloneSafe`: nothing under way, waited for or not, changes the
  file of an acknowledged upload; a change sent while no other was under way stays alone until another begins.
* *Verification.*  `SizedRight`: between the two looks the size of an untouched file is that
  of its entry, so that an equal checksum makes the versions equal.
* *Scheduler.*  `CallSound`: the tasks popped so far could not run, nothing left in the queue is
  above them, and all that was queued is still there.
* *Selections.*  Rules left after a retain, and notifications left of a history, are the
  elements whose index satisfies the condition; the k-th of them is the one with k indices not above
  it (`Rank`, `Nth`), which exists for every k up to their number and grows with k.

### Functions over data

Several properties are about what a recursive definition computes.  Such a definition is a function chosen
to satisfy its equation, and nothing is known of it before such a function is shown to exist: each
proof first builds one, by induction over its length, and then inducts again over what it
computes.  `NaturalsInduction` states induction with an operator as parameter, which the
provers cannot instantiate; that a non-empty set of numbers has a least element is stated
of sets (`WellFoundedInduction`), and induction over a set of numbers follows from it (`NaturalInduction`).

* *Layers.*  A pipeline has at most two layers, so that its folds are unfolded; for each pair of
  layers, what one makes of the other's data is a lemma.  `StoredInLayers`: the disk holds what was stored
  last, inside the layers of then, through any reconfigurations.
* *Risk.*  Errors and durations are sums over checkpoints.  The newer half of a history that
  recovered has no errors and the least duration there was, so its mean is not above
  the older half's, and its last checkpoint passed.
* *Chunks of a file.*  The rolling hash at a position depends on the bytes from the start of the chunk
  on only, so from a shared cut the next cut is the same in both versions.  All later cuts follow by
  induction from the end of the file backwards (`FromTheEnd`).
* *Streams.*  `StreamSound`: what was written is the records and the rest, and unless an error was seen
  what was returned is the first k records and the bytes of the others are what is unread.  A record
  opens only whole and its first byte names it, so what opens is the next one (`OpenedIsNext`).
  `OpenedSound` goes on behind an error: what is unread is an end of the bytes in their order
  (`InOrder`), so that a record that opens comes after all that were opened before.
  The bytes on the wire are joined records, a fold over sequences that is
  cut at any k (`FlattenSplit`).

### Not proved

Liveness and anything under fairness (`ReplicasConverge`, `ReplicasPopulated`, `ConfigureCompletes`,
`AttemptSettles`), since the provers do not handle ENABLED, is only model-checked.  Of what the hypotheses above leave out, `ReplicaCopies` checks three jobs that
may be heals, with deletions from outside.  The rest of the hypotheses are necessary, as said where they enter, or
are those of the runs.

## Abstractions

* A checksum is as good as the content, a hash as what it hashes (of an audit entry: its characters run together), a chunk as its hash, an encrypted
  record opens with its key or not at all.
* Listing snapshots, and choosing the reference from the list, is one step; so are the
  walk of a chain and the listing of the source.
* Targets, sources and the files of a snapshot are taken in any order, where the code
  has a list: the properties do not depend on it.
* In `Replication` a torn metadata file is an absent one, as for the reader; scans
  that only report (`check_health` on its own) are not steps.
* A service method that takes one lock and does not await under it is one step.
* Sizes, time stamps other than those the properties compare, wording, progress and logs are left out.
* Create-directory errors are part of the write errors.
* Doubles of the analysis are scaled to integers; integers of the code stay below their widths
  (the overflows above are listed, not modelled).
