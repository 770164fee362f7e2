----------------------------- MODULE ObjectStore -----------------------------
(***************************************************************************)
(* The vault in an S3 bucket (R2 delegates to it): a snapshot is an object *)
(* per file and one for its metadata, and every operation of the storage   *)
(* is a sequence of requests, between which other clients' requests fall.  *)
(* There are no retries: a request that fails or times out ends its        *)
(* operation, and may still arrive later.                                  *)
(***************************************************************************)
EXTENDS ServerClock, Integers, FiniteSets

CONSTANTS StoreIds,     \* snapshot ids; they sort by time, as their keys do
          EntryPaths,   \* paths of files
          EntrySets,    \* the entries a snapshot may have
          StoreClients, \* processes that use the bucket
          PageKeys      \* keys in one page of a listing

ASSUME StoreAssumption ==
    /\ StoreIds \subseteq Nat /\ Nothing \notin StoreIds
    /\ EntryPaths \subseteq Nat
    /\ EntrySets \subseteq SUBSET EntryPaths
    /\ PageKeys \in Nat \ {0}

VARIABLES metadata, \* the objects snapshots/<id>.json: the entries of each
          objects,  \* the objects data/<id>/<path>
          drawn,    \* ids in use
          late,     \* requests whose client no longer waits for them
          command,  \* the operation each client is in
          found     \* the last answer of latest_snapshot

storeVars == <<metadata, objects, drawn, late, command, found>>

Upload == [op : {"upload"}, id : StoreIds, entries : EntrySets, left : SUBSET EntryPaths]
Deletion == [op : {"delete"}, id : StoreIds]
Clearing == [op : {"clear"}, id : StoreIds, left : (SUBSET EntryPaths) \cup {Nothing}]
Lookup == [op : {"latest"}, left : SUBSET StoreIds, got : SUBSET StoreIds,
           then : SUBSET StoreIds]
Retrieval == [op : {"restore"}, id : StoreIds, left : SUBSET EntryPaths]
Command == Upload \cup Deletion \cup Clearing \cup Lookup \cup Retrieval

ObjectRequest == [does : {"put", "delete"}, id : StoreIds, path : EntryPaths]
Publication == [does : {"publish"}, id : StoreIds, entries : EntrySets]
Removal == [does : {"unpublish"}, id : StoreIds]
StoreRequest == ObjectRequest \cup Publication \cup Removal

\* The types of the bucket, of the requests and of the operations.
StoreTypeOK ==
    /\ ClockTypeOK
    /\ metadata \in [StoreIds -> EntrySets \cup {Nothing}]
    /\ objects \subseteq StoreIds \X EntryPaths
    /\ drawn \subseteq StoreIds
    /\ late \subseteq StoreRequest
    /\ command \in [StoreClients -> Command \cup {Nothing}]

StoreInit ==
    /\ metadata = [id \in StoreIds |-> Nothing]
    /\ objects = {}
    /\ drawn = {}
    /\ late = {}
    /\ command = [c \in StoreClients |-> Nothing]
    /\ found = Nothing

Published == {id \in StoreIds : metadata[id] # Nothing}

-----------------------------------------------------------------------------
(* Requests that change the bucket *)

PutObject(id, path) == [does |-> "put", id |-> id, path |-> path]
PutMetadata(id, entries) == [does |-> "publish", id |-> id, entries |-> entries]
DeleteMetadata(id) == [does |-> "unpublish", id |-> id]
DeleteObject(id, path) == [does |-> "delete", id |-> id, path |-> path]

\* What the bucket does with one; deleting what is not there succeeds.
Takes(r) ==
    \/ /\ r.does = "put"
       /\ objects' = objects \cup {<<r.id, r.path>>}
       /\ UNCHANGED metadata
    \/ /\ r.does = "delete"
       /\ objects' = objects \ {<<r.id, r.path>>}
       /\ UNCHANGED metadata
    \/ /\ r.does = "publish"
       /\ metadata' = [metadata EXCEPT ![r.id] = r.entries]
       /\ UNCHANGED objects
    \/ /\ r.does = "unpublish"
       /\ metadata' = [metadata EXCEPT ![r.id] = Nothing]
       /\ UNCHANGED objects

\* The first page of a listing; that it is truncated is read and ignored.
FirstPage(keys) == {k \in keys : Cardinality({l \in keys : l < k}) < PageKeys}

PathsOf(id) == {p \in EntryPaths : <<id, p>> \in objects}

\* Mutant: the listing is not limited to the prefix snapshots/, and the keys
\* of the data come first.
ListedUnfiltered ==
    {k \in Published :
        Cardinality(objects) + Cardinality({l \in Published : l < k}) < PageKeys}

\* list_objects with the prefix snapshots/.
ListedIds == FirstPage(Published)

-----------------------------------------------------------------------------
(* Operations that change the bucket *)

Does(c, op) == command[c] # Nothing /\ command[c].op = op

Goes(c, step) == command' = [command EXCEPT ![c] = step]

\* Mutant: the metadata is not kept for last.
RequestsAnyOrder(u) ==
    IF u.op = "upload"
    THEN {PutObject(u.id, p) : p \in u.left} \cup {PutMetadata(u.id, u.entries)}
    ELSE IF u.op = "delete" THEN {DeleteMetadata(u.id)}
    ELSE IF u.op = "clear" /\ u.left # Nothing THEN {DeleteObject(u.id, p) : p \in u.left}
    ELSE {}

\* The requests an operation may send next: an upload stores the files in the
\* order of its scan and then the metadata; a deletion takes the metadata away,
\* lists the data and deletes what the page holds.
RequestsOf(u) ==
    IF u.op = "upload"
    THEN IF u.left # {} THEN {PutObject(u.id, p) : p \in u.left}
         ELSE {PutMetadata(u.id, u.entries)}
    ELSE IF u.op = "delete" THEN {DeleteMetadata(u.id)}
    ELSE IF u.op = "clear" /\ u.left # Nothing THEN {DeleteObject(u.id, p) : p \in u.left}
    ELSE {}

\* What remains of an operation after a request.
After(u, r) ==
    CASE r.does = "put" -> [u EXCEPT !.left = @ \ {r.path}]
      [] r.does = "publish" -> Nothing
      [] r.does = "unpublish" -> [op |-> "clear", id |-> u.id, left |-> Nothing]
      [] r.does = "delete" -> IF u.left = {r.path} THEN Nothing
                              ELSE [u EXCEPT !.left = @ \ {r.path}]

\* A backup in the next second, so with the next id.
BeginUpload(c, id, entries) ==
    /\ Request
    /\ command[c] = Nothing
    /\ \A used \in drawn : used < id
    /\ drawn' = drawn \cup {id}
    /\ Goes(c, [op |-> "upload", id |-> id, entries |-> entries, left |-> entries])
    /\ UNCHANGED <<metadata, objects, late, found>>

\* Of a snapshot the caller has seen; others may be deleting it, too.
BeginDelete(c, id) ==
    /\ Request
    /\ command[c] = Nothing
    /\ id \in Published
    /\ Goes(c, [op |-> "delete", id |-> id])
    /\ UNCHANGED <<metadata, objects, drawn, late, found>>

SendSucceeds(c) ==
    /\ command[c] # Nothing
    /\ \E r \in RequestsOf(command[c]) : Takes(r) /\ Goes(c, After(command[c], r))
    /\ UNCHANGED <<clockVars, drawn, late, found>>

\* The client gives up after its 300 seconds; the request is on its way.
SendTimesOut(c) ==
    /\ command[c] # Nothing
    /\ \E r \in RequestsOf(command[c]) : late' = late \cup {r}
    /\ Goes(c, Nothing)
    /\ UNCHANGED <<clockVars, metadata, objects, drawn, found>>

LateArrives ==
    /\ \E r \in late : Takes(r) /\ late' = late \ {r}
    /\ UNCHANGED <<clockVars, drawn, command, found>>

ListData(c) ==
    /\ Does(c, "clear")
    /\ command[c].left = Nothing
    /\ LET keys == FirstPage(PathsOf(command[c].id))
       IN  Goes(c, IF keys = {} THEN Nothing ELSE [command[c] EXCEPT !.left = keys])
    /\ UNCHANGED <<clockVars, metadata, objects, drawn, late, found>>

\* An error status or a broken connection: the error is returned.
OperationFails(c) ==
    /\ command[c] # Nothing
    /\ Goes(c, Nothing)
    /\ UNCHANGED <<clockVars, metadata, objects, drawn, late, found>>

-----------------------------------------------------------------------------
(* Operations that read *)

\* latest_snapshot lists the metadata; with it goes what was published then.
BeginLatest(c) ==
    /\ Request
    /\ command[c] = Nothing
    /\ Goes(c, [op |-> "latest", left |-> ListedIds, got |-> {}, then |-> Published])
    /\ UNCHANGED <<metadata, objects, drawn, late, found>>

\* Key by key; a snapshot deleted since makes the whole listing fail.
FetchMetadata(c) ==
    /\ Does(c, "latest")
    /\ \E id \in command[c].left :
          /\ \A other \in command[c].left : id <= other
          /\ Goes(c, IF id \in Published
                     THEN [command[c] EXCEPT !.left = @ \ {id}, !.got = @ \cup {id}]
                     ELSE Nothing)
    /\ UNCHANGED <<clockVars, metadata, objects, drawn, late, found>>

Newest(ids) ==
    IF ids = {} THEN Nothing ELSE CHOOSE id \in ids : \A other \in ids : other <= id

LatestFound(c) ==
    /\ Does(c, "latest")
    /\ command[c].left = {}
    /\ found' = [id |-> Newest(command[c].got), then |-> command[c].then,
                 still |-> command[c].then \cap Published]
    /\ Goes(c, Nothing)
    /\ UNCHANGED <<clockVars, metadata, objects, drawn, late>>

\* The caller of restore_snapshot has loaded the metadata.
BeginRestore(c, id) ==
    /\ Request
    /\ command[c] = Nothing
    /\ id \in Published
    /\ Goes(c, [op |-> "restore", id |-> id, left |-> metadata[id]])
    /\ UNCHANGED <<metadata, objects, drawn, late, found>>

\* The first missing object ends a restore with an error.
FetchObject(c) ==
    /\ Does(c, "restore")
    /\ \/ command[c].left = {} /\ Goes(c, Nothing)
       \/ \E p \in command[c].left :
             Goes(c, IF p \in PathsOf(command[c].id)
                     THEN [command[c] EXCEPT !.left = @ \ {p}] ELSE Nothing)
    /\ UNCHANGED <<clockVars, metadata, objects, drawn, late, found>>

-----------------------------------------------------------------------------

StoreNext ==
    \/ \E c \in StoreClients :
          \/ \E id \in StoreIds :
                \/ \E entries \in EntrySets : BeginUpload(c, id, entries)
                \/ BeginDelete(c, id)
                \/ BeginRestore(c, id)
          \/ SendSucceeds(c)
          \/ SendTimesOut(c)
          \/ ListData(c)
          \/ OperationFails(c)
          \/ BeginLatest(c)
          \/ FetchMetadata(c)
          \/ LatestFound(c)
          \/ FetchObject(c)
    \/ LateArrives

StoreSpec == ClockInit /\ StoreInit /\ [][StoreNext]_<<clockVars, storeVars>>

-----------------------------------------------------------------------------
(* Properties *)

\* A snapshot that can be listed can be restored, whatever other clients delete
\* and whichever requests fail, or time out and arrive late: its metadata is
\* the last object to come and the first to go.
PublishedComplete ==
    \A id \in Published : metadata[id] \subseteq PathsOf(id)

\* An incremental backup finds its parent: the answer of latest_snapshot is at
\* least as new as every snapshot that was there throughout the lookup, as long
\* as one page holds them.  (Beyond a page it is the newest of the oldest ones.)
LookupSeesNewest ==
    found # Nothing /\ Cardinality(found.then) <= PageKeys =>
        \A id \in found.still : found.id # Nothing /\ found.id >= id

=============================================================================
