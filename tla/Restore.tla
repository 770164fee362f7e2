------------------------------ MODULE Restore -------------------------------
(***************************************************************************)
(* Restoring a snapshot (RestoreEngine in openvault-core/src/restore.rs)   *)
(* from a vault whose files EncryptedStorage may have encrypted with a     *)
(* data key of KeyManager, into a directory that users and other restores  *)
(* change at the same time.                                                *)
(*                                                                         *)
(* There is one snapshot, taken at some time through the storage opened    *)
(* last; BackupVault models how.  Its entries record the checksum of the   *)
(* content each file had, which is as good as the content.                 *)
(***************************************************************************)
EXTENDS KeyManager, FiniteSets, Sequences

CONSTANTS
    Files,        \* the files of the snapshot, each the path it is restored to
    Paths,        \* the paths of the target directory
    Renames,      \* per file: the names the rename strategy tries
    Contents,     \* what files contain
    Original,     \* what each file of the snapshot contained
    Damaged,      \* what a damaged or encrypted file reads as
    Torn,         \* a file of the target whose writing has not ended
    Jobs,         \* restores
    Options,      \* the options restores are started with
    MaxRestores,  \* bound: restores started
    MaxEvents     \* bound: damages to the vault, changes by users to the target,
                  \* and restarts of the process

\* "fail" does what "skip" does, with another message.
Strategies == {"skip", "overwrite", "rename"}

\* RestoreOptions; filter is what filter_paths leaves of the snapshot.
RestoreOptions == [strategy : Strategies, verify : BOOLEAN, filter : SUBSET Files]

ASSUME RestoreAssumption ==
    /\ Files \subseteq Paths /\ Renames \in [Files -> Seq(Paths)]
    /\ Original \in [Files -> Contents]
    /\ Damaged \notin Contents \cup {None} /\ Torn \notin Contents \cup {None, Damaged}
    /\ None \notin Contents \cup Files \cup Paths
    /\ Options \subseteq RestoreOptions
    /\ MaxRestores \in Nat /\ MaxEvents \in Nat

\* A stored file: encrypted with key, or in the clear when key is None.
Blob == [key : DataKey \cup {None}, content : Contents \cup {Damaged}]

Data == Contents \cup {Damaged}

Idle == [pc |-> "idle"]

\* A restore, with its options and its report.
Active ==
    [pc : {"next", "fetch", "open", "write", "done"},
     strategy : Strategies, verify : BOOLEAN, crypto : DataKey \cup {None},
     filter : SUBSET Files,          \* the files asked for
     todo : SUBSET Files,            \* entries not yet restored
     file : Files \cup {None},       \* the entry at hand, where it goes,
     path : Paths \cup {None},       \* and what was read from the vault
     buf : Data \cup {None},
     placed : SUBSET (Files \X Paths), errors : SUBSET Files,
     late : SUBSET (Files \X Paths), \* those others changed since they were written
     raced : BOOLEAN]                \* others changed path since it was chosen or opened

Job == {Idle} \cup Active

VARIABLES
    opened,    \* the crypto of the storage in use, None without encryption
    blob,      \* the stored files of the snapshot, None when missing
    taken,     \* the snapshot exists
    target,    \* the contents of the paths, None without a file
    job,
    restores, events

vault == <<opened, blob, taken>>
bounds == <<restores, events>>
vars == <<keys, vault, target, job, bounds>>

\* Every part holds values of its kind: in particular a report names entries of the
\* snapshot and paths of the target only.
TypeOK ==
    /\ KeysTypeOK
    /\ opened \in DataKey \cup {None}
    /\ blob \in [Files -> Blob \cup {None}] /\ taken \in BOOLEAN
    /\ target \in [Paths -> Data \cup {None, Torn}]
    /\ job \in [Jobs -> Job]
    /\ restores \in 0..MaxRestores /\ events \in 0..MaxEvents

Init ==
    /\ \E k \in Masters : New(k)
    /\ opened = None /\ blob = [f \in Files |-> None] /\ taken = FALSE
    /\ target = [p \in Paths |-> None]
    /\ job = [j \in Jobs |-> Idle]
    /\ restores = 0 /\ events = 0

-----------------------------------------------------------------------------
(* Keys, storages and the vault.                                           *)

Rotate(k) ==
    /\ rotate_master_key(k)
    /\ UNCHANGED <<vault, target, job, bounds>>

\* EncryptedStorage::new over the crypto create_crypto makes.
OpenStorage(c) ==
    /\ derive_data_key(c)
    /\ opened' = KeyFor(c)
    /\ UNCHANGED <<blob, taken, target, job, bounds>>

\* A backup stores every file through the storage, which encrypts it or not.
Take ==
    /\ ~taken
    /\ taken' = TRUE
    /\ blob' = [f \in Files |-> [key |-> opened, content |-> Original[f]]]
    /\ UNCHANGED <<keys, opened, target, job, bounds>>

Event == events < MaxEvents /\ events' = events + 1

Fault(f, b) ==
    /\ taken /\ Event
    /\ blob' = [blob EXCEPT ![f] = b]
    /\ UNCHANGED <<keys, opened, taken, target, job, restores>>

\* The file rots, or the put command stores another one in its place, unencrypted.
Damage(f) ==
    /\ blob[f] # None
    /\ \/ Fault(f, [blob[f] EXCEPT !.content = Damaged])
       \/ \E c \in Contents : Fault(f, [key |-> None, content |-> c])

Lose(f) == blob[f] # None /\ Fault(f, None)

\* retrieve_file, and its decryption: AES-GCM opens only what its key sealed.
Reads(k, b) ==
    IF b = None THEN {}
    ELSE IF k = None THEN {IF b.key = None THEN b.content ELSE Damaged}
    ELSE IF b.key = k /\ b.content # Damaged THEN {b.content} ELSE {}

-----------------------------------------------------------------------------
(* A restore.                                                              *)

Start(j, o) ==
    /\ taken /\ job[j].pc \in {"idle", "done"} /\ restores < MaxRestores
    /\ restores' = restores + 1
    /\ job' = [job EXCEPT ![j] =
          [pc |-> "next", strategy |-> o.strategy, verify |-> o.verify, crypto |-> opened,
           filter |-> o.filter, todo |-> o.filter, file |-> None, path |-> None, buf |-> None,
           placed |-> {}, errors |-> {}, late |-> {}, raced |-> FALSE]]
    /\ UNCHANGED <<keys, vault, target, events>>

Exists(p) == target[p] # None

\* Mutant: the first name is taken, free or not.
ResolvedFirst(f, s) ==
    IF ~Exists(f) \/ s = "overwrite" THEN {f}
    ELSE IF s = "rename" /\ Renames[f] # <<>> THEN {Renames[f][1]} ELSE {}

\* resolve_conflict: where the file goes, if anywhere.
Resolved(f, s) ==
    IF ~Exists(f) \/ s = "overwrite" THEN {f}
    ELSE IF s = "rename"
      THEN {Renames[f][i] : i \in {n \in DOMAIN Renames[f] :
                /\ ~Exists(Renames[f][n])
                /\ \A m \in 1..(n - 1) : Exists(Renames[f][m])}}
    ELSE {}

\* The loop of restore goes on.
Ended(r) == [r EXCEPT !.pc = "next", !.file = None, !.path = None, !.buf = None,
                      !.raced = FALSE]

\* Mutant: a file that is not restored is not reported.
ErrorSilent(r) == Ended(r)

Error(r) == Ended([r EXCEPT !.errors = @ \cup {r.file}])

\* The next entry of the snapshot.
Resolve(j, f) ==
    LET r == job[j] at == Resolved(f, r.strategy)
        n == [r EXCEPT !.file = f, !.todo = @ \ {f}]
    IN
    /\ r.pc = "next" /\ f \in r.todo
    /\ job' = [job EXCEPT ![j] =
          IF at = {} THEN Error(n)
          ELSE [n EXCEPT !.pc = "fetch", !.path = CHOOSE p \in at : TRUE,
                         !.raced = FALSE]]
    /\ UNCHANGED <<keys, vault, target, bounds>>

\* Mutant: the checksum is not compared.
Accepted_any(r, d) == TRUE

Accepted(r, d) == r.verify => d = Original[r.file]

\* The data is read, decrypted and compared with the checksum, or an error ends it.
Fetch(j) ==
    LET r == job[j] read == Reads(r.crypto, blob[r.file]) IN
    /\ r.pc = "fetch"
    /\ \/ \E d \in read :
             /\ Accepted(r, d)
             /\ job' = [job EXCEPT ![j] = [r EXCEPT !.pc = "open", !.buf = d]]
       \/ /\ \A d \in read : ~Accepted(r, d)
          /\ job' = [job EXCEPT ![j] = Error(r)]
    /\ UNCHANGED <<keys, vault, target, bounds>>

\* Someone else changed a path that the job may be using.
Disturbed(r, p) ==
    IF r.pc = "idle" THEN r
    ELSE [r EXCEPT !.late = @ \cup {e \in r.placed : e[2] = p},
                   !.raced = @ \/ r.path = p]

\* fs::write empties the file, or creates it.
Open(j) ==
    LET r == job[j] IN
    /\ r.pc = "open"
    /\ target' = [target EXCEPT ![r.path] = Torn]
    /\ job' = [i \in Jobs |-> IF i = j THEN [r EXCEPT !.pc = "write", !.raced = FALSE]
                              ELSE Disturbed(job[i], r.path)]
    /\ UNCHANGED <<keys, vault, bounds>>

\* fs::write fills it.  Of two writers of one file the longer data shows behind the
\* shorter, and what is written to a removed file is gone with it.
Write(j) ==
    LET r == job[j] IN
    /\ r.pc = "write"
    /\ \E d \in {r.buf} \cup (IF r.raced THEN {Torn, target[r.path]} ELSE {}) :
          target' = [target EXCEPT ![r.path] = d]
    /\ job' = [i \in Jobs |->
                 IF i = j
                   THEN Ended([r EXCEPT !.placed = @ \cup {<<r.file, r.path>>},
                        !.late = IF r.raced THEN @ \cup {<<r.file, r.path>>} ELSE @])
                 ELSE Disturbed(job[i], r.path)]
    /\ UNCHANGED <<keys, vault, bounds>>

\* The file cannot be created, or not be written to the end.
WriteFails(j) ==
    /\ job[j].pc \in {"open", "write"}
    /\ job' = [job EXCEPT ![j] = Error(job[j])]
    /\ UNCHANGED <<keys, vault, target, bounds>>

Done(j) ==
    /\ job[j].pc = "next" /\ job[j].todo = {}
    /\ job' = [job EXCEPT ![j].pc = "done"]
    /\ UNCHANGED <<keys, vault, target, bounds>>

-----------------------------------------------------------------------------

\* A user writes a file of the target, or removes it when c is None.
Touch(p, c) ==
    /\ Event /\ target[p] # c
    /\ target' = [target EXCEPT ![p] = c]
    /\ job' = [j \in Jobs |-> Disturbed(job[j], p)]
    /\ UNCHANGED <<keys, vault, restores>>

\* The process dies and is started again with some master key.
Restart(k) ==
    /\ Event
    /\ Restarted(k)
    /\ opened' = None
    /\ job' = [j \in Jobs |-> Idle]
    /\ UNCHANGED <<blob, taken, target, restores>>

Step(j) == (\E f \in Files : Resolve(j, f)) \/ Fetch(j) \/ Open(j) \/ Write(j) \/ Done(j)

Next ==
    \/ \E k \in Masters : Rotate(k) \/ Restart(k)
    \/ \E c \in Contexts : OpenStorage(c)
    \/ Take
    \/ \E f \in Files : Damage(f) \/ Lose(f)
    \/ \E j \in Jobs : \/ \E o \in Options : Start(j, o)
                       \/ Step(j) \/ WriteFails(j)
    \/ \E p \in Paths, c \in Contents \cup {None} : Touch(p, c)

Spec == Init /\ [][Next]_vars

-----------------------------------------------------------------------------
(* Properties.                                                             *)

\* What a verifying restore wrote and nobody changed since is what the file held when
\* the snapshot was taken, whatever became of the vault and of the keys meanwhile and
\* wherever conflicts sent the files: no two files of one restore share a path.
RestoredIsOriginal ==
    \A j \in Jobs : job[j].pc # "idle" /\ job[j].verify =>
        \A e \in job[j].placed \ job[j].late : target[e[2]] = Original[e[1]]

\* A restore that ends accounts for every file asked for: it was placed or it is among
\* the errors, and not both.  So is_success means that all of them were written.
EndAccountsForAll ==
    \A j \in Jobs : job[j].pc = "done" =>
        LET files == {e[1] : e \in job[j].placed} IN
        /\ files \cup job[j].errors = job[j].filter
        /\ files \cap job[j].errors = {}

\* Only the overwrite strategy empties a file that was there when its path was chosen:
\* the others lose a file only to someone who created it after resolve_conflict looked.
OthersKept ==
    [][\A j \in Jobs :
         job[j].pc = "open" /\ job'[j].pc = "write" /\ target[job[j].path] # None
           => job[j].strategy = "overwrite" \/ job[j].raced]_vars

\* Whatever rotations came between, a storage opened now seals with a key derived from
\* the master key in force: no data key of a replaced master key is handed out again.
KeysFollowMaster == \A c \in Contexts : KeyFor(c) = Derived(c)

\* Violated by the code: what is stored stays readable through the key manager that
\* holds its master key, in force or retained by a rotation.
OldDataReadable ==
    \A f \in Files : blob[f] # None /\ blob[f].key # None =>
        LET k == blob[f].key IN
        (k.version = master_key_version /\ k.master = master_key)
            \/ <<k.version, k.master>> \in old_master_keys
          => KeyFor(k.context) = k

=============================================================================
