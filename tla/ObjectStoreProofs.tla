-------------------------- MODULE ObjectStoreProofs --------------------------
(***************************************************************************)
(* What is listed in the bucket is complete, for any number of clients,    *)
(* snapshots and files, and whatever requests fail or arrive late.         *)
(***************************************************************************)
EXTENDS ObjectStore, FiniteSetTheorems, WellFoundedInduction, TLAPS

-----------------------------------------------------------------------------
(* The invariant.  An id is on its way while an upload, or a publication that *)
(* timed out, carries it; it is being cleared once somebody took its metadata *)
(* away.  One carrier at most, and nobody touches what is carried.            *)

Uploads(c, id) == Does(c, "upload") /\ command[c].id = id
Clears(c, id) == Does(c, "clear") /\ command[c].id = id
Removes(c, id) == Does(c, "delete") /\ command[c].id = id

LatePublish(r, id) == r \in late /\ r.does = "publish" /\ r.id = id
LateRemoval(r, id) == r \in late /\ r.does = "unpublish" /\ r.id = id
LateDelete(r, id) == r \in late /\ r.does = "delete" /\ r.id = id

Carried(id) ==
    \/ \E c \in StoreClients : Uploads(c, id)
    \/ \E r \in late : LatePublish(r, id)

Cleared(id) ==
    \/ \E c \in StoreClients : Clears(c, id)
    \/ \E r \in late : LateDelete(r, id)

Condemned(id) ==
    \/ \E c \in StoreClients : Removes(c, id)
    \/ \E r \in late : LateRemoval(r, id)

OneCarrier(id) ==
    /\ \A c, d \in StoreClients : Uploads(c, id) /\ Uploads(d, id) => c = d
    /\ \A c \in StoreClients, r \in late : ~(Uploads(c, id) /\ LatePublish(r, id))
    /\ \A r, s \in late : LatePublish(r, id) /\ LatePublish(s, id) => r = s

Apart(id) ==
    /\ Carried(id) => id \notin Published /\ ~Cleared(id) /\ ~Condemned(id)
    /\ Cleared(id) => id \notin Published
    /\ Carried(id) \/ Cleared(id) \/ Condemned(id) \/ id \in Published => id \in drawn

Stocked(id) ==
    /\ \A c \in StoreClients :
          Uploads(c, id) => command[c].entries \ command[c].left \subseteq PathsOf(id)
    /\ \A r \in late : LatePublish(r, id) => r.entries \subseteq PathsOf(id)
    /\ id \in Published => metadata[id] \subseteq PathsOf(id)

StoreInv ==
    /\ StoreTypeOK
    /\ \A id \in StoreIds : OneCarrier(id) /\ Apart(id) /\ Stocked(id)

-----------------------------------------------------------------------------
(* Types *)

\* In the initial states everything has its type.
LEMMA InitTypes == ClockInit /\ StoreInit => StoreTypeOK
BY ClockAssumption DEF ClockInit, StoreInit, StoreTypeOK, ClockTypeOK

\* A client's next step has a type of its own: what the others do is unchanged.
LEMMA GoesTyped ==
    ASSUME StoreTypeOK, NEW c \in StoreClients, NEW step \in Command \cup {Nothing},
           Goes(c, step)
    PROVE  command' \in [StoreClients -> Command \cup {Nothing}]
BY DEF StoreTypeOK, Goes

\* A first page holds keys that were asked for.
LEMMA PageOfKeys == ASSUME NEW keys PROVE FirstPage(keys) \subseteq keys
BY DEF FirstPage

\* The paths of a snapshot are paths.
LEMMA PathsArePaths == ASSUME NEW id PROVE PathsOf(id) \subseteq EntryPaths
BY DEF PathsOf

\* An operation only sends requests of its own kind and for its own snapshot.
LEMMA RequestsTyped ==
    ASSUME StoreTypeOK, NEW c \in StoreClients, command[c] # Nothing,
           NEW r \in RequestsOf(command[c])
    PROVE  /\ r \in StoreRequest
           /\ \/ /\ command[c] \in Upload
                 /\ r.id = command[c].id
                 /\ \/ /\ r.does = "put"
                       /\ r \in ObjectRequest /\ r.path \in command[c].left
                    \/ /\ r.does = "publish" /\ command[c].left = {}
                       /\ r \in Publication /\ r.entries = command[c].entries
              \/ /\ command[c] \in Deletion
                 /\ r.does = "unpublish" /\ r \in Removal
                 /\ r.id = command[c].id
              \/ /\ command[c] \in Clearing /\ command[c].left # Nothing
                 /\ r.does = "delete" /\ r \in ObjectRequest
                 /\ r.id = command[c].id /\ r.path \in command[c].left
<1> DEFINE u == command[c]
<1>0. u \in Command
  BY DEF StoreTypeOK
<1>1. CASE u \in Upload
  BY <1>1 DEF Upload, RequestsOf, PutObject, PutMetadata, StoreRequest, ObjectRequest,
              Publication
<1>2. CASE u \in Deletion
  BY <1>2 DEF Deletion, RequestsOf, DeleteMetadata, StoreRequest, Removal
<1>3. CASE u \in Clearing
  BY <1>3 DEF Clearing, RequestsOf, DeleteObject, StoreRequest, ObjectRequest
<1>4. CASE u \in Lookup \cup Retrieval
  BY <1>4 DEF Lookup, Retrieval, RequestsOf
<1> QED
  BY <1>0, <1>1, <1>2, <1>3, <1>4 DEF Command

\* What remains of an operation is an operation.
LEMMA AfterTyped ==
    ASSUME StoreTypeOK, NEW c \in StoreClients, command[c] # Nothing,
           NEW r \in RequestsOf(command[c])
    PROVE  After(command[c], r) \in Command \cup {Nothing}
<1>1. CASE command[c] \in Upload /\ r.does = "put"
  BY <1>1 DEF After, Upload, Command
<1>2. CASE r.does = "publish"
  BY <1>2 DEF After
<1>3. CASE command[c] \in Deletion /\ r.does = "unpublish"
  BY <1>3 DEF After, Deletion, Clearing, Command
<1>4. CASE command[c] \in Clearing /\ command[c].left # Nothing /\ r.does = "delete"
  BY <1>4 DEF After, Clearing, Command
<1> QED
  BY <1>1, <1>2, <1>3, <1>4, RequestsTyped

\* The bucket keeps its type, whatever request it takes.
LEMMA TakesTyped ==
    ASSUME StoreTypeOK, NEW r \in StoreRequest, Takes(r)
    PROVE  /\ metadata' \in [StoreIds -> EntrySets \cup {Nothing}]
           /\ objects' \subseteq StoreIds \X EntryPaths
<1>1. CASE r \in ObjectRequest
  BY <1>1 DEF StoreTypeOK, Takes, ObjectRequest
<1>2. CASE r \in Publication
  BY <1>2 DEF StoreTypeOK, Takes, Publication
<1>3. CASE r \in Removal
  BY <1>3 DEF StoreTypeOK, Takes, Removal
<1> QED
  BY <1>1, <1>2, <1>3 DEF StoreRequest

-----------------------------------------------------------------------------
(* Steps that leave an id no worse: nobody begins to carry it, who clears it *)
(* did so before or has just taken its metadata, and its objects stay.       *)

Sound(id) == OneCarrier(id) /\ Apart(id) /\ Stocked(id)

CarriersKept(id) ==
    \A d \in StoreClients :
        Uploads(d, id)' =>
            /\ Uploads(d, id)
            /\ command'[d].entries \ command'[d].left \subseteq PathsOf(id)'

TakersKept(id) ==
    \A d \in StoreClients :
        /\ Clears(d, id)' => Cleared(id) \/ (Condemned(id) /\ metadata'[id] = Nothing)
        /\ Removes(d, id)' => Condemned(id) \/ id \in Published

LateKept(id) ==
    \A r \in late' :
        r.id = id =>
            \/ r \in late
            \/ r.does = "put"
            \/ r.does = "delete" /\ Cleared(id)
            \/ r.does = "unpublish" /\ Condemned(id)

BucketKept(id) ==
    /\ metadata'[id] = metadata[id] \/ metadata'[id] = Nothing
    /\ Carried(id) \/ id \in Published => PathsOf(id) \subseteq PathsOf(id)'
    /\ drawn \subseteq drawn'

\* Such a step keeps the invariant of the id.
LEMMA NoWorse ==
    ASSUME NEW id \in StoreIds, Sound(id),
           CarriersKept(id), TakersKept(id), LateKept(id), BucketKept(id)
    PROVE  Sound(id)'
<1>1. Carried(id)' => Carried(id)
  BY DEF Carried, CarriersKept, LateKept, LatePublish
<1>2. Cleared(id)' => Cleared(id) \/ (Condemned(id) /\ id \notin Published')
  BY DEF Cleared, TakersKept, LateKept, LateDelete, Published
<1>3. Condemned(id)' => Condemned(id) \/ id \in Published
  BY DEF Condemned, TakersKept, LateKept, LateRemoval
<1>4. id \in Published' => id \in Published /\ metadata'[id] = metadata[id]
  BY DEF Published, BucketKept
<1>5. OneCarrier(id)'
  <2>1. \A c \in StoreClients : Uploads(c, id)' => Uploads(c, id)
    BY DEF CarriersKept
  <2>2. \A r \in late' : LatePublish(r, id)' => r \in late /\ LatePublish(r, id)
    BY DEF LateKept, LatePublish
  <2> QED
    BY <2>1, <2>2 DEF Sound, OneCarrier
<1>6. Apart(id)'
  BY <1>1, <1>2, <1>3, <1>4 DEF Sound, Apart, BucketKept
<1>7. Stocked(id)'
  <2>1. \A r \in late' : LatePublish(r, id)' => r.entries \subseteq PathsOf(id)'
    <3> SUFFICES ASSUME NEW r \in late', LatePublish(r, id)'
                 PROVE  r.entries \subseteq PathsOf(id)'
      OBVIOUS
    <3>1. r \in late /\ LatePublish(r, id)
      BY DEF LateKept, LatePublish
    <3>2. Carried(id) /\ r.entries \subseteq PathsOf(id)
      BY <3>1 DEF Carried, Sound, Stocked
    <3> QED
      BY <3>2 DEF BucketKept
  <2>2. id \in Published' => metadata'[id] \subseteq PathsOf(id)'
    BY <1>4 DEF Sound, Stocked, BucketKept
  <2> QED
    BY <2>1, <2>2 DEF Stocked, CarriersKept
<1> QED
  BY <1>5, <1>6, <1>7 DEF Sound

\* A client's step is its own.
LEMMA OnlyOne ==
    ASSUME StoreTypeOK, NEW c \in StoreClients, NEW step, Goes(c, step)
    PROVE  /\ command'[c] = step
           /\ \A d \in StoreClients : d # c => command'[d] = command[d]
BY DEF StoreTypeOK, Goes

\* What a client that goes on with no upload does to the carriers and takers.
LEMMA ClientKeeps ==
    ASSUME StoreTypeOK, NEW id \in StoreIds, Sound(id), NEW c \in StoreClients, NEW step,
           Goes(c, step), BucketKept(id),
           ~Uploads(c, id)', Clears(c, id)' => Cleared(id) \/ (Condemned(id) /\ metadata'[id] = Nothing),
           Removes(c, id)' => Condemned(id) \/ id \in Published
    PROVE  CarriersKept(id) /\ TakersKept(id)
<1>1. \A d \in StoreClients : d # c => command'[d] = command[d]
  BY OnlyOne
<1>2. CarriersKept(id)
  <2> SUFFICES ASSUME NEW d \in StoreClients, Uploads(d, id)'
               PROVE  /\ Uploads(d, id)
                      /\ command'[d].entries \ command'[d].left \subseteq PathsOf(id)'
    BY DEF CarriersKept
  <2>1. command'[d] = command[d]
    BY <1>1
  <2>2. Uploads(d, id)
    BY <2>1 DEF Uploads, Does
  <2>3. command[d].entries \ command[d].left \subseteq PathsOf(id)
    BY <2>2 DEF Sound, Stocked
  <2>4. Carried(id)
    BY <2>2 DEF Carried
  <2> QED
    BY <2>1, <2>2, <2>3, <2>4 DEF BucketKept
<1>3. TakersKept(id)
  <2> SUFFICES ASSUME NEW d \in StoreClients, d # c
               PROVE  (Clears(d, id)' => Cleared(id)) /\ (Removes(d, id)' => Condemned(id))
    BY DEF TakersKept
  <2>1. command'[d] = command[d]
    BY <1>1
  <2>2. Clears(d, id)' => Clears(d, id)
    BY <2>1 DEF Clears, Does
  <2>3. Removes(d, id)' => Removes(d, id)
    BY <2>1 DEF Removes, Does
  <2> QED
    BY <2>2, <2>3 DEF Cleared, Condemned
<1> QED
  BY <1>2, <1>3

-----------------------------------------------------------------------------
(* The actions, one lemma each *)

\* A step of one client that leaves the bucket alone, and is no upload.
LEMMA QuietStep ==
    ASSUME StoreTypeOK, NEW id \in StoreIds, Sound(id), NEW c \in StoreClients, NEW step,
           Goes(c, step), UNCHANGED <<metadata, objects, drawn, late>>,
           step # Nothing => step.op # "upload",
           step # Nothing /\ step.op = "clear" => Does(c, "clear") /\ step.id = command[c].id,
           step # Nothing /\ step.op = "delete" => step.id \in Published
    PROVE  Sound(id)'
<1>1. command'[c] = step
  BY OnlyOne
<1>2. BucketKept(id)
  BY DEF BucketKept, PathsOf
<1>3. LateKept(id)
  BY DEF LateKept
<1>4. ~Uploads(c, id)'
  BY <1>1 DEF Uploads, Does
<1>5. Clears(c, id)' => Cleared(id)
  BY <1>1 DEF Clears, Does, Cleared
<1>6. Removes(c, id)' => id \in Published
  BY <1>1 DEF Removes, Does
<1>7. CarriersKept(id) /\ TakersKept(id)
  BY <1>2, <1>4, <1>5, <1>6, ClientKeeps
<1> QED
  BY <1>2, <1>3, <1>7, NoWorse

\* Deletions begin with a snapshot that is published.
LEMMA BeginDeleteSound ==
    ASSUME StoreTypeOK, NEW id \in StoreIds, Sound(id), NEW c \in StoreClients,
           NEW of \in StoreIds, BeginDelete(c, of)
    PROVE  Sound(id)'
<1> DEFINE step == [op |-> "delete", id |-> of]
<1>1. step.op = "delete" /\ step.id \in Published
  BY DEF BeginDelete
<1>2. Goes(c, step) /\ UNCHANGED <<metadata, objects, drawn, late>>
  BY DEF BeginDelete
<1> HIDE DEF step
<1> QED
  BY <1>1, <1>2, QuietStep

\* Restores and lookups change nothing but their own progress.
LEMMA ReadersSound ==
    ASSUME StoreTypeOK, NEW id \in StoreIds, Sound(id), NEW c \in StoreClients,
           \/ BeginLatest(c) \/ FetchMetadata(c) \/ LatestFound(c) \/ FetchObject(c)
           \/ \E of \in StoreIds : BeginRestore(c, of)
    PROVE  Sound(id)'
<1>0. command[c] \in Command \cup {Nothing}
  BY DEF StoreTypeOK
<1>1. CASE BeginLatest(c)
  <2> DEFINE step == [op |-> "latest", left |-> ListedIds, got |-> {}, then |-> Published]
  <2>1. step.op = "latest"
    OBVIOUS
  <2>2. Goes(c, step) /\ UNCHANGED <<metadata, objects, drawn, late>>
    BY <1>1 DEF BeginLatest
  <2> HIDE DEF step
  <2> QED
    BY <2>1, <2>2, QuietStep
<1>2. CASE FetchMetadata(c)
  <2>1. command[c] \in Lookup
    BY <1>0, <1>2 DEF FetchMetadata, Does, Command, Upload, Deletion, Clearing, Retrieval
  <2>2. PICK of \in command[c].left :
           Goes(c, IF of \in Published
                   THEN [command[c] EXCEPT !.left = @ \ {of}, !.got = @ \cup {of}]
                   ELSE Nothing)
    BY <1>2 DEF FetchMetadata
  <2> DEFINE step == IF of \in Published
                     THEN [command[c] EXCEPT !.left = @ \ {of}, !.got = @ \cup {of}]
                     ELSE Nothing
  <2>3. step # Nothing => step.op = "latest"
    BY <2>1 DEF Lookup
  <2>4. Goes(c, step) /\ UNCHANGED <<metadata, objects, drawn, late>>
    BY <1>2, <2>2 DEF FetchMetadata
  <2> HIDE DEF step
  <2> QED
    BY <2>3, <2>4, QuietStep
<1>3. CASE LatestFound(c)
  <2>1. Goes(c, Nothing) /\ UNCHANGED <<metadata, objects, drawn, late>>
    BY <1>3 DEF LatestFound
  <2> QED
    BY <2>1, QuietStep
<1>4. CASE FetchObject(c)
  <2>1. command[c] \in Retrieval
    BY <1>0, <1>4 DEF FetchObject, Does, Command, Upload, Deletion, Clearing, Lookup
  <2>2. PICK step : Goes(c, step) /\ (step # Nothing => step.op = "restore")
    <3>1. CASE Goes(c, Nothing)
      BY <3>1
    <3>2. CASE \E p \in command[c].left :
                 Goes(c, IF p \in PathsOf(command[c].id)
                         THEN [command[c] EXCEPT !.left = @ \ {p}] ELSE Nothing)
      <4>1. PICK p \in command[c].left :
                 Goes(c, IF p \in PathsOf(command[c].id)
                         THEN [command[c] EXCEPT !.left = @ \ {p}] ELSE Nothing)
        BY <3>2
      <4> DEFINE next == IF p \in PathsOf(command[c].id)
                         THEN [command[c] EXCEPT !.left = @ \ {p}] ELSE Nothing
      <4>2. next # Nothing => next.op = "restore"
        BY <2>1 DEF Retrieval
      <4> QED
        BY <4>1, <4>2
    <3> QED
      BY <1>4, <3>1, <3>2 DEF FetchObject
  <2>3. UNCHANGED <<metadata, objects, drawn, late>>
    BY <1>4 DEF FetchObject
  <2> QED
    BY <2>2, <2>3, QuietStep
<1>5. ASSUME NEW of \in StoreIds, BeginRestore(c, of) PROVE Sound(id)'
  <2> DEFINE step == [op |-> "restore", id |-> of, left |-> metadata[of]]
  <2>1. step.op = "restore"
    OBVIOUS
  <2>2. Goes(c, step) /\ UNCHANGED <<metadata, objects, drawn, late>>
    BY <1>5 DEF BeginRestore
  <2> HIDE DEF step
  <2> QED
    BY <2>1, <2>2, QuietStep
<1> QED
  BY <1>1, <1>2, <1>3, <1>4, <1>5

\* A deletion lists the data of what it clears; a failure ends an operation.
LEMMA ListDataSound ==
    ASSUME StoreTypeOK, NEW id \in StoreIds, Sound(id), NEW c \in StoreClients,
           ListData(c) \/ OperationFails(c)
    PROVE  Sound(id)'
<1>0. command[c] \in Command \cup {Nothing}
  BY DEF StoreTypeOK
<1>1. CASE ListData(c)
  <2>1. command[c] \in Clearing /\ Does(c, "clear")
    BY <1>0, <1>1 DEF ListData, Does, Command, Upload, Deletion, Retrieval, Lookup
  <2> DEFINE keys == FirstPage(PathsOf(command[c].id))
             step == IF keys = {} THEN Nothing ELSE [command[c] EXCEPT !.left = keys]
  <2>2. Goes(c, step) /\ UNCHANGED <<metadata, objects, drawn, late>>
    BY <1>1 DEF ListData
  <2>3. step # Nothing => step.op = "clear" /\ step.id = command[c].id
    <3> HIDE DEF keys
    <3> QED
      BY <2>1 DEF Clearing
  <2> HIDE DEF step
  <2> QED
    BY <2>1, <2>2, <2>3, QuietStep
<1>2. CASE OperationFails(c)
  <2>1. Goes(c, Nothing) /\ UNCHANGED <<metadata, objects, drawn, late>>
    BY <1>2 DEF OperationFails
  <2> QED
    BY <2>1, QuietStep
<1> QED
  BY <1>1, <1>2

\* An upload takes an id nobody has used.
LEMMA BeginUploadSound ==
    ASSUME StoreTypeOK, NEW id \in StoreIds, Sound(id), NEW c \in StoreClients,
           NEW of \in StoreIds, NEW entries \in EntrySets, BeginUpload(c, of, entries)
    PROVE  Sound(id)'
<1> DEFINE step == [op |-> "upload", id |-> of, entries |-> entries, left |-> entries]
<1>1. /\ Goes(c, step)
      /\ UNCHANGED <<metadata, objects, late>>
      /\ drawn' = drawn \cup {of}
  BY DEF BeginUpload
<1>2. step.op = "upload" /\ step.id = of /\ step.entries = entries /\ step.left = entries
  OBVIOUS
<1> HIDE DEF step
<1>3. command'[c] = step
  BY <1>1, OnlyOne
<1>4. \A d \in StoreClients : d # c => command'[d] = command[d]
  BY <1>1, OnlyOne
<1>5. BucketKept(id)
  BY <1>1 DEF BucketKept, PathsOf
<1>6. CASE id # of
  <2>1. LateKept(id)
    BY <1>1 DEF LateKept
  <2>2. ~Uploads(c, id)' /\ ~Clears(c, id)' /\ ~Removes(c, id)'
    BY <1>2, <1>3, <1>6 DEF Uploads, Clears, Removes, Does
  <2>3. CarriersKept(id) /\ TakersKept(id)
    BY <1>1, <1>5, <2>2, ClientKeeps
  <2> QED
    BY <1>5, <2>1, <2>3, NoWorse
<1>7. CASE id = of
  <2>1. of \notin drawn
    BY StoreAssumption DEF BeginUpload
  <2>2. ~Carried(id) /\ ~Cleared(id) /\ ~Condemned(id) /\ id \notin Published
    BY <1>7, <2>1 DEF Sound, Apart
  <2>3. \A d \in StoreClients : Uploads(d, id)' => d = c
    BY <1>4, <2>2 DEF Uploads, Does, Carried
  <2>4. \A r \in late' : ~LatePublish(r, id)' /\ ~LateDelete(r, id)' /\ ~LateRemoval(r, id)'
    BY <1>1, <2>2 DEF LatePublish, LateDelete, LateRemoval, Carried, Cleared, Condemned
  <2>5. ~Cleared(id)'
    <3>1. \A d \in StoreClients : ~Clears(d, id)'
      BY <1>2, <1>3, <1>4, <2>2 DEF Clears, Does, Cleared
    <3> QED
      BY <2>4, <3>1 DEF Cleared
  <2>6. ~Condemned(id)'
    <3>1. \A d \in StoreClients : ~Removes(d, id)'
      BY <1>2, <1>3, <1>4, <2>2 DEF Removes, Does, Condemned
    <3> QED
      BY <2>4, <3>1 DEF Condemned
  <2>7. id \notin Published'
    BY <1>1, <2>2 DEF Published
  <2>8. OneCarrier(id)'
    BY <2>3, <2>4 DEF OneCarrier
  <2>9. Apart(id)'
    BY <1>1, <1>7, <2>5, <2>6, <2>7 DEF Apart
  <2>10. Stocked(id)'
    BY <1>2, <1>3, <2>3, <2>4, <2>7 DEF Stocked
  <2> QED
    BY <2>8, <2>9, <2>10 DEF Sound
<1> QED
  BY <1>6, <1>7

\* What a request does to the bucket, as the other snapshots see it.
LEMMA TakesElsewhere ==
    ASSUME StoreTypeOK, NEW id \in StoreIds, NEW r \in StoreRequest, Takes(r), drawn' = drawn,
           r.id # id \/ r.does = "put" \/ (r.does = "unpublish" /\ Condemned(id))
               \/ (r.does = "delete" /\ Cleared(id)),
           Sound(id)
    PROVE  BucketKept(id)
<1>1. CASE r \in ObjectRequest /\ r.does = "put"
  BY <1>1 DEF Takes, BucketKept, PathsOf
<1>2. CASE r \in ObjectRequest /\ r.does = "delete"
  <2>1. metadata' = metadata /\ objects' = objects \ {<<r.id, r.path>>}
    BY <1>2 DEF Takes
  <2>2. r.id # id => PathsOf(id) \subseteq PathsOf(id)'
    BY <2>1 DEF PathsOf
  <2>3. r.id = id => ~Carried(id) /\ id \notin Published
    BY <1>2 DEF Sound, Apart
  <2> QED
    BY <2>1, <2>2, <2>3 DEF BucketKept
<1>3. CASE r \in Publication
  BY <1>3 DEF Takes, BucketKept, PathsOf, Publication, StoreTypeOK
<1>4. CASE r \in Removal
  BY <1>4 DEF Takes, BucketKept, PathsOf, Removal, StoreTypeOK
<1> QED
  BY <1>1, <1>2, <1>3, <1>4 DEF StoreRequest, ObjectRequest

\* The metadata of a snapshot arrives: nobody carries it any more, and its
\* objects are all there.
LEMMA Arrives ==
    ASSUME StoreTypeOK, NEW id \in StoreIds, Sound(id), NEW r \in Publication, r.id = id,
           Takes(r), drawn' = drawn, late' \subseteq late,
           Carried(id), r.entries \subseteq PathsOf(id),
           \A d \in StoreClients : ~Uploads(d, id)',
           \A s \in late' : ~LatePublish(s, id),
           \A d \in StoreClients :
               (Clears(d, id)' => Cleared(id)) /\ (Removes(d, id)' => Condemned(id))
    PROVE  Sound(id)'
<1>1. objects' = objects /\ metadata' = [metadata EXCEPT ![id] = r.entries]
  BY DEF Takes, Publication
<1>2. metadata'[id] = r.entries /\ PathsOf(id)' = PathsOf(id)
  BY <1>1 DEF StoreTypeOK, PathsOf
<1>3. ~Cleared(id)' /\ ~Condemned(id)' /\ id \in drawn
  BY DEF Sound, Apart, Cleared, Condemned, LateDelete, LateRemoval
<1>4. \A s \in late' : ~LatePublish(s, id)'
  BY DEF LatePublish
<1>5. ~Carried(id)'
  BY <1>4 DEF Carried
<1>6. OneCarrier(id)'
  BY <1>4 DEF OneCarrier
<1>7. Apart(id)'
  BY <1>3, <1>5 DEF Apart
<1>8. Stocked(id)'
  BY <1>2, <1>4 DEF Stocked
<1> QED
  BY <1>6, <1>7, <1>8 DEF Sound

\* A request that is answered.
LEMMA SendSucceedsSound ==
    ASSUME StoreTypeOK, NEW id \in StoreIds, Sound(id), NEW c \in StoreClients,
           SendSucceeds(c)
    PROVE  Sound(id)'
<1>1. command[c] # Nothing
  BY DEF SendSucceeds
<1>2. PICK r \in RequestsOf(command[c]) : Takes(r) /\ Goes(c, After(command[c], r))
  BY DEF SendSucceeds
<1> DEFINE u == command[c]
           step == After(u, r)
<1>3. late' = late /\ drawn' = drawn
  BY DEF SendSucceeds
<1>4. r \in StoreRequest
  BY <1>1, RequestsTyped
<1>5. LateKept(id)
  BY <1>3 DEF LateKept
<1>6. command'[c] = step /\ \A d \in StoreClients : d # c => command'[d] = command[d]
  BY <1>2, OnlyOne
<1>7. CASE u \in Upload /\ r.id = u.id /\ r.does = "put" /\ r.path \in u.left
  <2>1. BucketKept(id)
    BY <1>2, <1>3, <1>4, <1>7, TakesElsewhere
  <2>2. step = [u EXCEPT !.left = u.left \ {r.path}]
    BY <1>7 DEF After
  <2>3. step.op = "upload" /\ step.id = u.id /\ step.entries = u.entries
        /\ step.left = u.left \ {r.path} /\ u.op = "upload"
    BY <1>7, <2>2 DEF Upload
  <2>4. Uploads(c, id)' => Uploads(c, id) /\ id = u.id
    BY <1>1, <1>6, <2>3 DEF Uploads, Does
  <2>5. CarriersKept(id)
    <3> SUFFICES ASSUME NEW d \in StoreClients, Uploads(d, id)'
                 PROVE  /\ Uploads(d, id)
                        /\ command'[d].entries \ command'[d].left \subseteq PathsOf(id)'
      BY DEF CarriersKept
    <3>1. Uploads(d, id)
      BY <1>6, <2>4 DEF Uploads, Does
    <3>2. command[d].entries \ command[d].left \subseteq PathsOf(id)'
      BY <2>1, <3>1 DEF Sound, Stocked, BucketKept, Carried
    <3>3. CASE d = c
      <4>1. objects' = objects \cup {<<id, r.path>>}
        BY <1>2, <1>7, <2>4, <3>3 DEF Takes
      <4>2. r.path \in EntryPaths
        BY <1>7 DEF Upload
      <4>3. r.path \in PathsOf(id)'
        BY <4>1, <4>2 DEF PathsOf
      <4> QED
        BY <1>6, <2>3, <3>1, <3>2, <3>3, <4>3
    <3>4. CASE d # c
      BY <1>6, <3>1, <3>2, <3>4
    <3> QED
      BY <3>3, <3>4
  <2>6. TakersKept(id)
    BY <1>6, <2>3 DEF TakersKept, Clears, Removes, Does, Cleared, Condemned
  <2> QED
    BY <1>5, <2>1, <2>5, <2>6, NoWorse
<1>8. CASE u \in Upload /\ r.id = u.id /\ r.does = "publish" /\ u.left = {}
           /\ r \in Publication /\ r.entries = u.entries
  <2>1. step = Nothing
    BY <1>8 DEF After
  <2>2. ~Does(c, "upload")' /\ ~Does(c, "clear")' /\ ~Does(c, "delete")'
    BY <1>6, <2>1 DEF Does
  <2>3. ~Uploads(c, id)' /\ ~Clears(c, id)' /\ ~Removes(c, id)'
    BY <2>2 DEF Uploads, Clears, Removes
  <2>4. CASE r.id # id
    <3>1. BucketKept(id)
      BY <1>2, <1>3, <1>4, <2>4, TakesElsewhere
    <3>2. CarriersKept(id) /\ TakersKept(id)
      BY <1>2, <2>3, <3>1, ClientKeeps
    <3> QED
      BY <1>5, <3>1, <3>2, NoWorse
  <2>5. CASE r.id = id
    <3>1. Uploads(c, id)
      BY <1>1, <1>8, <2>5 DEF Uploads, Does, Upload
    <3>2. Carried(id) /\ r.entries \subseteq PathsOf(id)
      BY <1>8, <3>1 DEF Carried, Sound, Stocked
    <3>3. \A d \in StoreClients : ~Uploads(d, id)'
      <4> SUFFICES ASSUME NEW d \in StoreClients, Uploads(d, id)', d # c PROVE FALSE
        BY <2>3
      <4>1. Uploads(d, id)
        BY <1>6 DEF Uploads, Does
      <4> QED
        BY <3>1, <4>1 DEF Sound, OneCarrier
    <3>4. \A s \in late' : ~LatePublish(s, id)
      BY <1>3, <3>1 DEF Sound, OneCarrier
    <3>5. \A d \in StoreClients :
              (Clears(d, id)' => Cleared(id)) /\ (Removes(d, id)' => Condemned(id))
      BY <1>6, <2>3 DEF Clears, Removes, Does, Cleared, Condemned
    <3> QED
      BY <1>2, <1>3, <1>8, <2>5, <3>2, <3>3, <3>4, <3>5, Arrives
  <2> QED
    BY <2>4, <2>5
<1>9. CASE u \in Deletion /\ r.does = "unpublish" /\ r \in Removal /\ r.id = u.id
  <2>1. step = [op |-> "clear", id |-> u.id, left |-> Nothing]
    BY <1>9 DEF After
  <2>2. step.op = "clear" /\ step.id = u.id
    BY <2>1
  <2>3. r.id = id => Condemned(id)
    BY <1>1, <1>9 DEF Condemned, Removes, Does, Deletion
  <2>4. BucketKept(id)
    BY <1>2, <1>3, <1>4, <1>9, <2>3, TakesElsewhere
  <2>5. Clears(c, id)' => Condemned(id) /\ metadata'[id] = Nothing
    <3> SUFFICES ASSUME Clears(c, id)' PROVE Condemned(id) /\ metadata'[id] = Nothing
      OBVIOUS
    <3>1. r.id = id
      BY <1>6, <1>9, <2>2 DEF Clears
    <3>2. metadata' = [metadata EXCEPT ![id] = Nothing]
      BY <1>2, <1>9, <3>1 DEF Takes
    <3> QED
      BY <2>3, <3>1, <3>2 DEF StoreTypeOK
  <2>6. ~Uploads(c, id)' /\ ~Removes(c, id)'
    BY <1>6, <2>2 DEF Uploads, Removes, Does
  <2>7. CarriersKept(id) /\ TakersKept(id)
    BY <1>2, <2>4, <2>5, <2>6, ClientKeeps
  <2> QED
    BY <1>5, <2>4, <2>7, NoWorse
<1>10. CASE u \in Clearing /\ r.does = "delete" /\ r.id = u.id
  <2>1. step = IF u.left = {r.path} THEN Nothing ELSE [u EXCEPT !.left = u.left \ {r.path}]
    BY <1>10 DEF After
  <2>2. step # Nothing => step.op = "clear" /\ step.id = u.id
    BY <1>10, <2>1 DEF Clearing
  <2>3. r.id = id => Cleared(id)
    BY <1>1, <1>10 DEF Cleared, Clears, Does, Clearing
  <2>4. BucketKept(id)
    BY <1>2, <1>3, <1>4, <1>10, <2>3, TakesElsewhere
  <2>5. Clears(c, id)' => Cleared(id)
    BY <1>6, <1>10, <2>2, <2>3 DEF Clears, Does
  <2>6. ~Uploads(c, id)' /\ ~Removes(c, id)'
    BY <1>6, <2>2 DEF Uploads, Removes, Does
  <2>7. CarriersKept(id) /\ TakersKept(id)
    BY <1>2, <2>4, <2>5, <2>6, ClientKeeps
  <2> QED
    BY <1>5, <2>4, <2>7, NoWorse
<1> QED
  BY <1>1, <1>7, <1>8, <1>9, <1>10, RequestsTyped

\* A request whose client gives up goes on; it is now what carries, clears or
\* condemns its snapshot.
LEMMA SendTimesOutSound ==
    ASSUME StoreTypeOK, NEW id \in StoreIds, Sound(id), NEW c \in StoreClients,
           SendTimesOut(c)
    PROVE  Sound(id)'
<1>1. command[c] # Nothing
  BY DEF SendTimesOut
<1>2. PICK r \in RequestsOf(command[c]) : late' = late \cup {r}
  BY DEF SendTimesOut
<1> DEFINE u == command[c]
<1>3. metadata' = metadata /\ objects' = objects /\ drawn' = drawn /\ Goes(c, Nothing)
  BY DEF SendTimesOut
<1>4. command'[c] = Nothing /\ \A d \in StoreClients : d # c => command'[d] = command[d]
  BY <1>3, OnlyOne
<1>5. ~Uploads(c, id)' /\ ~Clears(c, id)' /\ ~Removes(c, id)'
  BY <1>4 DEF Uploads, Clears, Removes, Does
<1>6. BucketKept(id)
  BY <1>3 DEF BucketKept, PathsOf
<1>7. CarriersKept(id) /\ TakersKept(id)
  BY <1>3, <1>5, <1>6, ClientKeeps
<1>8. CASE LateKept(id)
  BY <1>6, <1>7, <1>8, NoWorse
<1>9. CASE r.id # id \/ r.does = "put"
  BY <1>2, <1>8, <1>9 DEF LateKept
<1>10. CASE u \in Deletion /\ r.does = "unpublish" /\ r.id = u.id /\ r.id = id
  <2>1. Condemned(id)
    BY <1>1, <1>10 DEF Condemned, Removes, Does, Deletion
  <2> QED
    BY <1>2, <1>8, <1>10, <2>1 DEF LateKept
<1>11. CASE u \in Clearing /\ r.does = "delete" /\ r.id = u.id /\ r.id = id
  <2>1. Cleared(id)
    BY <1>1, <1>11 DEF Cleared, Clears, Does, Clearing
  <2> QED
    BY <1>2, <1>8, <1>11, <2>1 DEF LateKept
<1>12. CASE u \in Upload /\ r.does = "publish" /\ u.left = {} /\ r.id = u.id /\ r.id = id
            /\ r.entries = u.entries
  <2>1. Uploads(c, id)
    BY <1>1, <1>12 DEF Uploads, Does, Upload
  <2>2. Carried(id) /\ r.entries \subseteq PathsOf(id)
    BY <1>12, <2>1 DEF Carried, Sound, Stocked
  <2>3. \A d \in StoreClients : ~Uploads(d, id)'
    <3> SUFFICES ASSUME NEW d \in StoreClients, Uploads(d, id)', d # c PROVE FALSE
      BY <1>5
    <3>1. Uploads(d, id)
      BY <1>4 DEF Uploads, Does
    <3> QED
      BY <2>1, <3>1 DEF Sound, OneCarrier
  <2>4. \A s \in late' : LatePublish(s, id)' => s = r
    BY <1>2, <2>1 DEF LatePublish, Sound, OneCarrier
  <2>5. OneCarrier(id)'
    BY <2>3, <2>4 DEF OneCarrier
  <2>6. ~Cleared(id) /\ ~Condemned(id) /\ id \notin Published /\ id \in drawn
    BY <2>2 DEF Sound, Apart
  <2>7. ~Cleared(id)'
    <3>1. \A d \in StoreClients : ~Clears(d, id)'
      BY <1>4, <1>5, <2>6 DEF Clears, Does, Cleared
    <3>2. \A s \in late' : ~LateDelete(s, id)'
      BY <1>2, <1>12, <2>6 DEF LateDelete, Cleared
    <3> QED
      BY <3>1, <3>2 DEF Cleared
  <2>8. ~Condemned(id)'
    <3>1. \A d \in StoreClients : ~Removes(d, id)'
      BY <1>4, <1>5, <2>6 DEF Removes, Does, Condemned
    <3>2. \A s \in late' : ~LateRemoval(s, id)'
      BY <1>2, <1>12, <2>6 DEF LateRemoval, Condemned
    <3> QED
      BY <3>1, <3>2 DEF Condemned
  <2>9. id \notin Published'
    BY <1>3, <2>6 DEF Published
  <2>10. Apart(id)'
    BY <1>3, <2>6, <2>7, <2>8, <2>9 DEF Apart
  <2>11. PathsOf(id)' = PathsOf(id)
    BY <1>3 DEF PathsOf
  <2>12. Stocked(id)'
    BY <2>2, <2>3, <2>4, <2>9, <2>11 DEF Stocked
  <2> QED
    BY <2>5, <2>10, <2>12 DEF Sound
<1> QED
  BY <1>1, <1>9, <1>10, <1>11, <1>12, RequestsTyped

\* A request arrives that nobody waits for.
LEMMA LateArrivesSound ==
    ASSUME StoreTypeOK, NEW id \in StoreIds, Sound(id), LateArrives
    PROVE  Sound(id)'
<1>1. PICK r \in late : Takes(r) /\ late' = late \ {r}
  BY DEF LateArrives
<1>2. command' = command /\ drawn' = drawn
  BY DEF LateArrives
<1>3. r \in StoreRequest
  BY DEF StoreTypeOK
<1>4. \A d \in StoreClients : /\ Uploads(d, id)' <=> Uploads(d, id)
                              /\ Clears(d, id)' <=> Clears(d, id)
                              /\ Removes(d, id)' <=> Removes(d, id)
  BY <1>2 DEF Uploads, Clears, Removes, Does
<1>5. CASE r \in Publication /\ r.id = id
  <2>1. LatePublish(r, id)
    BY <1>5 DEF LatePublish, Publication
  <2>2. Carried(id) /\ r.entries \subseteq PathsOf(id)
    BY <2>1 DEF Carried, Sound, Stocked
  <2>3. \A d \in StoreClients : ~Uploads(d, id)'
    BY <1>4, <2>1 DEF Sound, OneCarrier
  <2>4. \A s \in late' : ~LatePublish(s, id)
    BY <1>1, <2>1 DEF Sound, OneCarrier
  <2>5. \A d \in StoreClients :
            (Clears(d, id)' => Cleared(id)) /\ (Removes(d, id)' => Condemned(id))
    BY <1>4 DEF Cleared, Condemned
  <2> QED
    BY <1>1, <1>2, <1>5, <2>2, <2>3, <2>4, <2>5, Arrives
<1>6. CASE r.id # id \/ r \in ObjectRequest \/ r \in Removal
  <2>1. r.does = "delete" /\ r.id = id => Cleared(id)
    BY DEF Cleared, LateDelete
  <2>2. r.does = "unpublish" /\ r.id = id => Condemned(id)
    BY DEF Condemned, LateRemoval
  <2>3. BucketKept(id)
    BY <1>1, <1>2, <1>3, <1>6, <2>1, <2>2, TakesElsewhere DEF ObjectRequest, Removal
  <2>4. LateKept(id)
    BY <1>1 DEF LateKept
  <2>5. CarriersKept(id)
    <3> SUFFICES ASSUME NEW d \in StoreClients, Uploads(d, id)
                 PROVE  command[d].entries \ command[d].left \subseteq PathsOf(id)'
      BY <1>2, <1>4 DEF CarriersKept
    <3> QED
      BY <2>3 DEF Sound, Stocked, BucketKept, Carried
  <2>6. TakersKept(id)
    BY <1>4 DEF TakersKept, Cleared, Condemned
  <2> QED
    BY <2>3, <2>4, <2>5, <2>6, NoWorse
<1> QED
  BY <1>3, <1>5, <1>6 DEF StoreRequest

-----------------------------------------------------------------------------
(* All steps keep the types *)

\* A step of one client that leaves the bucket alone.
LEMMA QuietTyped ==
    ASSUME StoreTypeOK, NEW c \in StoreClients, NEW step \in Command \cup {Nothing},
           Goes(c, step), UNCHANGED <<metadata, objects, late>>, drawn' \subseteq StoreIds,
           ClockTypeOK'
    PROVE  StoreTypeOK'
BY GoesTyped DEF StoreTypeOK

\* Every request of a caller leaves a clock and a counter behind.
LEMMA RequestTyped == ASSUME ClockTypeOK, Request PROVE ClockTypeOK'
BY DEF ClockTypeOK, Request

\* Operations begin with what their type says.
LEMMA BeginTyped ==
    ASSUME StoreTypeOK, NEW c \in StoreClients,
           \/ \E id \in StoreIds :
                 \/ \E entries \in EntrySets : BeginUpload(c, id, entries)
                 \/ BeginDelete(c, id)
                 \/ BeginRestore(c, id)
           \/ BeginLatest(c)
    PROVE  StoreTypeOK'
<1>1. ASSUME NEW id \in StoreIds, NEW entries \in EntrySets, BeginUpload(c, id, entries)
      PROVE  StoreTypeOK'
  <2>1. [op |-> "upload", id |-> id, entries |-> entries, left |-> entries] \in Command
    BY StoreAssumption DEF Command, Upload
  <2> QED
    BY <1>1, <2>1, QuietTyped, RequestTyped DEF BeginUpload, StoreTypeOK
<1>2. ASSUME NEW id \in StoreIds, BeginDelete(c, id) PROVE StoreTypeOK'
  <2>1. [op |-> "delete", id |-> id] \in Command
    BY DEF Command, Deletion
  <2> QED
    BY <1>2, <2>1, QuietTyped, RequestTyped DEF BeginDelete, StoreTypeOK
<1>3. ASSUME NEW id \in StoreIds, BeginRestore(c, id) PROVE StoreTypeOK'
  <2>1. metadata[id] \in EntrySets
    BY <1>3 DEF BeginRestore, Published, StoreTypeOK
  <2>2. [op |-> "restore", id |-> id, left |-> metadata[id]] \in Command
    BY <2>1, StoreAssumption DEF Command, Retrieval
  <2> QED
    BY <1>3, <2>2, QuietTyped, RequestTyped DEF BeginRestore, StoreTypeOK
<1>4. CASE BeginLatest(c)
  <2>1. ListedIds \subseteq StoreIds /\ Published \subseteq StoreIds
    BY PageOfKeys DEF ListedIds, Published
  <2>2. [op |-> "latest", left |-> ListedIds, got |-> {}, then |-> Published] \in Command
    BY <2>1 DEF Command, Lookup
  <2> QED
    BY <1>4, <2>2, QuietTyped, RequestTyped DEF BeginLatest, StoreTypeOK
<1> QED
  BY <1>1, <1>2, <1>3, <1>4

\* They go on with what their type says.
LEMMA ContinueTyped ==
    ASSUME StoreTypeOK, NEW c \in StoreClients,
           \/ ListData(c) \/ OperationFails(c) \/ FetchMetadata(c)
           \/ LatestFound(c) \/ FetchObject(c)
    PROVE  StoreTypeOK'
<1>0. /\ command[c] \in Command \cup {Nothing}
      /\ drawn \subseteq StoreIds
      /\ ClockTypeOK
  BY DEF StoreTypeOK
<1>1. /\ UNCHANGED <<metadata, objects, late>>
      /\ drawn' \subseteq StoreIds
      /\ ClockTypeOK'
  BY <1>0 DEF ListData, OperationFails, FetchMetadata, LatestFound, FetchObject,
              ClockTypeOK, clockVars
<1> SUFFICES \E step \in Command \cup {Nothing} : Goes(c, step)
  BY <1>1, QuietTyped
<1>2. CASE ListData(c)
  <2>1. command[c] \in Clearing
    BY <1>0, <1>2 DEF ListData, Does, Command, Upload, Deletion, Retrieval, Lookup
  <2> DEFINE keys == FirstPage(PathsOf(command[c].id))
             step == IF keys = {} THEN Nothing ELSE [command[c] EXCEPT !.left = keys]
  <2>2. keys \subseteq EntryPaths
    BY PageOfKeys, PathsArePaths
  <2>3. step \in Clearing \cup {Nothing}
    <3> HIDE DEF keys
    <3> QED
      BY <2>1, <2>2 DEF Clearing
  <2>4. Goes(c, step)
    BY <1>2 DEF ListData
  <2> HIDE DEF step
  <2> QED
    BY <2>3, <2>4 DEF Command
<1>3. CASE OperationFails(c) \/ LatestFound(c)
  BY <1>3 DEF OperationFails, LatestFound
<1>4. CASE FetchMetadata(c)
  <2>1. command[c] \in Lookup
    BY <1>0, <1>4 DEF FetchMetadata, Does, Command, Upload, Deletion, Clearing, Retrieval
  <2>2. PICK id \in command[c].left :
           Goes(c, IF id \in Published
                   THEN [command[c] EXCEPT !.left = @ \ {id}, !.got = @ \cup {id}]
                   ELSE Nothing)
    BY <1>4 DEF FetchMetadata
  <2>3. id \in Published => [command[c] EXCEPT !.left = @ \ {id}, !.got = @ \cup {id}] \in Lookup
    BY <2>1 DEF Lookup, Published
  <2> QED
    BY <2>2, <2>3 DEF Command
<1>5. CASE FetchObject(c)
  <2>1. command[c] \in Retrieval
    BY <1>0, <1>5 DEF FetchObject, Does, Command, Upload, Deletion, Clearing, Lookup
  <2>2. \A p : [command[c] EXCEPT !.left = @ \ {p}] \in Command
    BY <2>1 DEF Retrieval, Command
  <2> QED
    BY <1>5, <2>2 DEF FetchObject
<1> QED
  BY <1>2, <1>3, <1>4, <1>5

\* Requests are sent, time out and arrive with what their type says.
LEMMA RequestsKeepTypes ==
    ASSUME StoreTypeOK,
           \/ \E c \in StoreClients : SendSucceeds(c) \/ SendTimesOut(c)
           \/ LateArrives
    PROVE  StoreTypeOK'
<1>1. ASSUME NEW c \in StoreClients, SendSucceeds(c) PROVE StoreTypeOK'
  <2>1. command[c] # Nothing /\ UNCHANGED <<clockVars, drawn, late>>
    BY <1>1 DEF SendSucceeds
  <2>2. PICK r \in RequestsOf(command[c]) : Takes(r) /\ Goes(c, After(command[c], r))
    BY <1>1 DEF SendSucceeds
  <2>3. r \in StoreRequest /\ After(command[c], r) \in Command \cup {Nothing}
    BY <2>1, RequestsTyped, AfterTyped
  <2>4. command' \in [StoreClients -> Command \cup {Nothing}]
    BY <2>2, <2>3, GoesTyped
  <2>5. /\ metadata' \in [StoreIds -> EntrySets \cup {Nothing}]
        /\ objects' \subseteq StoreIds \X EntryPaths
    BY <2>2, <2>3, TakesTyped
  <2> QED
    BY <2>1, <2>4, <2>5 DEF StoreTypeOK, ClockTypeOK, clockVars
<1>2. ASSUME NEW c \in StoreClients, SendTimesOut(c) PROVE StoreTypeOK'
  <2>1. command[c] # Nothing /\ UNCHANGED <<clockVars, metadata, objects, drawn>>
    BY <1>2 DEF SendTimesOut
  <2>2. PICK r \in RequestsOf(command[c]) : late' = late \cup {r}
    BY <1>2 DEF SendTimesOut
  <2>3. r \in StoreRequest
    BY <2>1, RequestsTyped
  <2>4. command' \in [StoreClients -> Command \cup {Nothing}]
    BY <1>2, GoesTyped DEF SendTimesOut
  <2> QED
    BY <2>1, <2>2, <2>3, <2>4 DEF StoreTypeOK, ClockTypeOK, clockVars
<1>3. CASE LateArrives
  <2>1. PICK r \in late : Takes(r) /\ late' = late \ {r}
    BY <1>3 DEF LateArrives
  <2>2. UNCHANGED <<clockVars, drawn, command>>
    BY <1>3 DEF LateArrives
  <2>3. r \in StoreRequest
    BY DEF StoreTypeOK
  <2>4. /\ metadata' \in [StoreIds -> EntrySets \cup {Nothing}]
        /\ objects' \subseteq StoreIds \X EntryPaths
    BY <2>1, <2>3, TakesTyped
  <2> QED
    BY <2>1, <2>2, <2>4 DEF StoreTypeOK, ClockTypeOK, clockVars
<1> QED
  BY <1>1, <1>2, <1>3

-----------------------------------------------------------------------------
(* The theorems *)

\* In the empty bucket every id is sound.
LEMMA InitSound == ClockInit /\ StoreInit => \A id \in StoreIds : Sound(id)
BY DEF StoreInit, Sound, OneCarrier, Apart, Stocked, Carried, Cleared, Condemned,
       Uploads, Clears, Removes, Does, Published

\* Every step keeps the invariant.
LEMMA NextSound ==
    ASSUME StoreInv, StoreNext
    PROVE  StoreInv'
<1>1. StoreTypeOK /\ \A id \in StoreIds : Sound(id)
  BY DEF StoreInv, Sound
<1>2. StoreTypeOK'
  BY <1>1, BeginTyped, ContinueTyped, RequestsKeepTypes DEF StoreNext
<1>3. ASSUME NEW id \in StoreIds PROVE Sound(id)'
  <2>1. Sound(id)
    BY <1>1
  <2>2. CASE LateArrives
    BY <1>1, <2>1, <2>2, LateArrivesSound
  <2>3. ASSUME NEW c \in StoreClients, NEW of \in StoreIds, NEW entries \in EntrySets,
               BeginUpload(c, of, entries)
        PROVE  Sound(id)'
    BY <1>1, <2>1, <2>3, BeginUploadSound
  <2>4. ASSUME NEW c \in StoreClients, NEW of \in StoreIds, BeginDelete(c, of)
        PROVE  Sound(id)'
    BY <1>1, <2>1, <2>4, BeginDeleteSound
  <2>5. ASSUME NEW c \in StoreClients,
               \/ BeginLatest(c) \/ FetchMetadata(c) \/ LatestFound(c) \/ FetchObject(c)
               \/ \E of \in StoreIds : BeginRestore(c, of)
        PROVE  Sound(id)'
    BY <1>1, <2>1, <2>5, ReadersSound
  <2>6. ASSUME NEW c \in StoreClients, ListData(c) \/ OperationFails(c) PROVE Sound(id)'
    BY <1>1, <2>1, <2>6, ListDataSound
  <2>7. ASSUME NEW c \in StoreClients, SendSucceeds(c) PROVE Sound(id)'
    BY <1>1, <2>1, <2>7, SendSucceedsSound
  <2>8. ASSUME NEW c \in StoreClients, SendTimesOut(c) PROVE Sound(id)'
    BY <1>1, <2>1, <2>8, SendTimesOutSound
  <2> QED
    BY <2>2, <2>3, <2>4, <2>5, <2>6, <2>7, <2>8 DEF StoreNext
<1> QED
  BY <1>2, <1>3 DEF StoreInv, Sound

\* So does a step in which nothing happens.
LEMMA StutterSound ==
    ASSUME StoreInv, UNCHANGED <<clockVars, storeVars>>
    PROVE  StoreInv'
<1>1. UNCHANGED <<clock, served, metadata, objects, drawn, late, command>>
  BY DEF clockVars, storeVars
<1>2. StoreTypeOK'
  BY <1>1 DEF StoreInv, StoreTypeOK, ClockTypeOK
<1>3. ASSUME NEW id \in StoreIds PROVE OneCarrier(id)' /\ Apart(id)' /\ Stocked(id)'
  BY <1>1 DEF StoreInv, OneCarrier, Apart, Stocked, Carried, Cleared, Condemned, Uploads,
              Clears, Removes, Does, LatePublish, LateRemoval, LateDelete, Published, PathsOf
<1> QED
  BY <1>2, <1>3 DEF StoreInv

\* The invariant of the bucket and of everything on its way to it: uploads and
\* late publications are alone with their snapshot, and complete.
THEOREM BucketSound == StoreSpec => []StoreInv
<1>1. ClockInit /\ StoreInit => StoreInv
  BY InitTypes, InitSound DEF StoreInv, Sound
<1>2. StoreInv /\ [StoreNext]_<<clockVars, storeVars>> => StoreInv'
  BY NextSound, StutterSound
<1> QED
  BY <1>1, <1>2, PTL DEF StoreSpec

\* Clients, requests and objects keep their types: PutObject, PutMetadata and
\* the deletions are only ever sent for ids and paths of the bucket.
THEOREM BucketTypes == StoreSpec => []StoreTypeOK
<1>1. StoreInv => StoreTypeOK
  BY DEF StoreInv
<1> QED
  BY <1>1, BucketSound, PTL

\* A listed snapshot has all of its objects, for any number of clients that
\* upload and delete at once, and with requests that arrive after their timeout.
THEOREM ListedIsComplete == StoreSpec => []PublishedComplete
<1>1. StoreInv => PublishedComplete
  BY DEF StoreInv, Stocked, PublishedComplete, Published
<1> QED
  BY <1>1, BucketSound, PTL


-----------------------------------------------------------------------------
(* What latest_snapshot answers.                                           *)

\* Any non-empty set of natural numbers has a least member.
LEMMA LeastNatural ==
    ASSUME NEW T, T \subseteq Nat, T # {}
    PROVE  \E n \in T : \A m \in T : n <= m
<1> DEFINE R == OpToRel(<,Nat)
<1>1. IsWellFoundedOn(R, Nat)
  BY NatLessThanWellFounded, Zenon
<1>2. R = {ss \in Nat \X Nat : ss[1] < ss[2]}
  BY Zenon DEF OpToRel
<1>3. \A x, y \in Nat : y < x => <<y, x>> \in R
  BY <1>2
<1> HIDE DEF R
<1>4. \E x \in T : \A y \in T : ~ (<<y, x>> \in R)
  BY <1>1, WFMin, Zenon
<1>5. PICK n \in T : \A m \in T : ~ (<<m, n>> \in R)
  BY <1>4, Zenon
<1>6. \A m \in T : ~ (m < n)
  BY <1>3, <1>5, Zenon
<1> QED
  BY <1>6

\* The newest of some ids, where no id is newer than a given one.
LEMMA NewestIsLast ==
    ASSUME NEW ids, ids \subseteq Nat, ids # {}, NEW m \in Nat, \A id \in ids : id <= m
    PROVE  Newest(ids) \in ids /\ \A other \in ids : other <= Newest(ids)
<1> DEFINE T == {m - id : id \in ids}
<1>1. T \subseteq Nat /\ T # {}
  <2>1. T \subseteq Nat
    <3> SUFFICES ASSUME NEW id \in ids PROVE m - id \in Nat
      OBVIOUS
    <3> QED
      OBVIOUS
  <2>2. PICK id : id \in ids
    OBVIOUS
  <2>3. m - id \in T
    BY <2>2
  <2> QED
    BY <2>1, <2>3
<1>2. PICK n \in T : \A k \in T : n <= k
  BY <1>1, LeastNatural
<1>3. PICK id \in ids : n = m - id
  BY <1>2, Zenon
<1>4. \A other \in ids : other <= id
  <2>1. \A other \in ids : m - other \in T
    OBVIOUS
  <2>2. \A other \in ids : n <= m - other
    BY <1>2, <2>1
  <2> QED
    BY <1>3, <2>2
<1>5. \E last \in ids : \A other \in ids : other <= last
  BY <1>4
<1> QED
  BY <1>5, Zenon DEF Newest

\* A listing that fits into a page is all there is.
LEMMA PageHoldsAll ==
    ASSUME NEW keys, keys \subseteq Nat, IsFiniteSet(keys), Cardinality(keys) <= PageKeys
    PROVE  FirstPage(keys) = keys
<1> SUFFICES ASSUME NEW k \in keys
             PROVE  Cardinality({l \in keys : l < k}) < PageKeys
  BY DEF FirstPage
<1> DEFINE Before == {l \in keys : l < k}
<1>1. Before \in SUBSET keys /\ k \notin Before
  OBVIOUS
<1>2. Cardinality(Before) <= Cardinality(keys) /\ Cardinality(Before) # Cardinality(keys)
  BY <1>1, FS_Subset
<1>3. Cardinality(Before) \in Nat /\ Cardinality(keys) \in Nat
  BY <1>1, FS_Subset, FS_CardinalityType
<1> QED
  BY <1>2, <1>3, StoreAssumption

\* Ids are drawn upwards, a lookup under way has, of what was published when it began
\* and fitted into a page, everything it has not still to fetch, and the last answer
\* was right.
Looking(u) ==
    /\ u.left \cup u.got \subseteq drawn
    /\ u.then \subseteq drawn
    /\ Cardinality(u.then) <= PageKeys => u.then \subseteq u.left \cup u.got

LookupInv ==
    /\ \E m \in Nat : \A id \in drawn : id <= m
    /\ \A c \in StoreClients : Does(c, "latest") => Looking(command[c])
    /\ LookupSeesNewest

\* Everything that was published has been drawn.
LEMMA PublishedDrawn == ASSUME StoreInv PROVE Published \subseteq drawn
BY DEF StoreInv, Apart, Published

\* A step that neither draws an id nor looks anything up.
LEMMA NoLookup ==
    ASSUME StoreInv, LookupInv, UNCHANGED <<drawn, found>>, NEW c \in StoreClients, NEW step,
           Goes(c, step), step = Nothing \/ step.op # "latest" \/ Looking(step)
    PROVE  LookupInv'
<1>1. /\ command'[c] = step
      /\ \A d \in StoreClients : d # c => command'[d] = command[d]
  BY OnlyOne DEF StoreInv
<1>2. \A d \in StoreClients : Does(d, "latest")' => Looking(command'[d])
  BY <1>1 DEF LookupInv, Does
<1> QED
  BY <1>2 DEF LookupInv, LookupSeesNewest, Looking

\* A new upload draws the highest id.
LEMMA BeginUploadLooks ==
    ASSUME StoreInv, LookupInv, NEW c \in StoreClients, NEW id \in StoreIds,
           NEW entries \in EntrySets, BeginUpload(c, id, entries)
    PROVE  LookupInv'
<1> DEFINE step == [op |-> "upload", id |-> id, entries |-> entries, left |-> entries]
<1>1. /\ drawn' = drawn \cup {id} /\ UNCHANGED found /\ Goes(c, step)
      /\ \A used \in drawn : used < id
  BY DEF BeginUpload
<1>2. step.op = "upload"
  OBVIOUS
<1> HIDE DEF step
<1>3. /\ command'[c] = step
      /\ \A d \in StoreClients : d # c => command'[d] = command[d]
  BY <1>1, OnlyOne DEF StoreInv
<1>4. id \in Nat /\ drawn \subseteq Nat
  BY StoreAssumption DEF StoreInv, StoreTypeOK
<1>5. \A used \in drawn' : used <= id
  BY <1>1, <1>4
<1>6. \A d \in StoreClients : Does(d, "latest")' => Looking(command[d])' /\ command'[d] = command[d]
  BY <1>1, <1>2, <1>3 DEF LookupInv, Does, Looking
<1> QED
  BY <1>1, <1>4, <1>5, <1>6 DEF LookupInv, LookupSeesNewest

\* A lookup begins with the listing of what is published.
LEMMA BeginLatestLooks ==
    ASSUME StoreInv, LookupInv, NEW c \in StoreClients, BeginLatest(c)
    PROVE  LookupInv'
<1> DEFINE step == [op |-> "latest", left |-> ListedIds, got |-> {}, then |-> Published]
<1>1. Goes(c, step) /\ UNCHANGED <<drawn, found>>
  BY DEF BeginLatest
<1>2. PICK m \in Nat : \A id \in drawn : id <= m
  BY DEF LookupInv
<1>3. Published \subseteq drawn /\ drawn \subseteq Nat
  BY PublishedDrawn, StoreAssumption DEF StoreInv, StoreTypeOK
<1>4. IsFiniteSet(Published) /\ Published \subseteq Nat
  BY <1>2, <1>3, FS_BoundedSetOfNaturals
<1>5. Cardinality(Published) <= PageKeys => ListedIds = Published
  BY <1>4, PageHoldsAll DEF ListedIds
<1>6. ListedIds \subseteq Published
  BY PageOfKeys DEF ListedIds
<1>7. Looking(step)
  BY <1>3, <1>5, <1>6 DEF Looking
<1> HIDE DEF step
<1> QED
  BY <1>1, <1>7, NoLookup

\* The metadata of one id is fetched.
LEMMA FetchMetadataLooks ==
    ASSUME StoreInv, LookupInv, NEW c \in StoreClients, FetchMetadata(c)
    PROVE  LookupInv'
<1>1. command[c] \in Lookup /\ Looking(command[c]) /\ UNCHANGED <<drawn, found>>
  <2>1. command[c] \in Command
    BY DEF FetchMetadata, Does, StoreInv, StoreTypeOK
  <2> QED
    BY <2>1 DEF FetchMetadata, Does, Command, Upload, Deletion, Clearing, Retrieval, LookupInv
<1>2. PICK id \in command[c].left :
         Goes(c, IF id \in Published
                 THEN [command[c] EXCEPT !.left = @ \ {id}, !.got = @ \cup {id}]
                 ELSE Nothing)
  BY DEF FetchMetadata
<1> DEFINE next == [command[c] EXCEPT !.left = @ \ {id}, !.got = @ \cup {id}]
<1>3. /\ next.left = command[c].left \ {id} /\ next.got = command[c].got \cup {id}
      /\ next.then = command[c].then
  BY <1>1 DEF Lookup
<1> HIDE DEF next
<1>4. Looking(next)
  BY <1>1, <1>3 DEF Looking
<1>5. Goes(c, next) \/ Goes(c, Nothing)
  BY <1>2 DEF next
<1> QED
  BY <1>1, <1>4, <1>5, NoLookup

\* The newest of the fetched is the answer.
LEMMA LatestFoundLooks ==
    ASSUME StoreInv, LookupInv, NEW c \in StoreClients, LatestFound(c)
    PROVE  LookupInv'
<1> DEFINE u == command[c]
           answer == [id |-> Newest(u.got), then |-> u.then, still |-> u.then \cap Published]
<1>1. /\ Looking(u) /\ u.left = {} /\ UNCHANGED drawn
      /\ found' = answer /\ Goes(c, Nothing)
  BY DEF LatestFound, LookupInv
<1>2. /\ command'[c] = Nothing
      /\ \A d \in StoreClients : d # c => command'[d] = command[d]
  BY <1>1, OnlyOne DEF StoreInv
<1>3. \A d \in StoreClients : Does(d, "latest")' => Looking(command[d])' /\ command'[d] = command[d]
  BY <1>1, <1>2 DEF LookupInv, Does, Looking
<1>4. answer.id = Newest(u.got) /\ answer.then = u.then /\ answer.still \subseteq u.then
  OBVIOUS
<1>5. PICK m \in Nat : \A id \in drawn : id <= m
  BY DEF LookupInv
<1>6. drawn \subseteq StoreIds /\ StoreIds \subseteq Nat /\ Nothing \notin StoreIds
  BY StoreAssumption DEF StoreInv, StoreTypeOK
<1> HIDE DEF answer
<1>7. ASSUME Cardinality(answer.then) <= PageKeys, NEW id \in answer.still
      PROVE  answer.id # Nothing /\ answer.id >= id
  <2>1. id \in u.got /\ u.got \subseteq drawn
    BY <1>1, <1>4, <1>7 DEF Looking
  <2>2. Newest(u.got) \in u.got /\ id <= Newest(u.got)
    BY <1>5, <1>6, <2>1, NewestIsLast
  <2> QED
    BY <1>4, <1>6, <2>1, <2>2
<1>8. LookupSeesNewest'
  BY <1>1, <1>7 DEF LookupSeesNewest
<1> QED
  BY <1>1, <1>3, <1>5, <1>8 DEF LookupInv

\* Every other step of a client leaves the lookups alone.
LEMMA OthersLook ==
    ASSUME StoreInv, LookupInv, NEW c \in StoreClients,
           \/ \E id \in StoreIds : BeginDelete(c, id) \/ BeginRestore(c, id)
           \/ SendSucceeds(c) \/ SendTimesOut(c) \/ ListData(c)
           \/ OperationFails(c) \/ FetchObject(c)
    PROVE  LookupInv'
<1>0. command[c] \in Command \cup {Nothing} /\ StoreTypeOK
  BY DEF StoreInv, StoreTypeOK
<1>1. UNCHANGED <<drawn, found>>
  BY DEF BeginDelete, BeginRestore, SendSucceeds, SendTimesOut, ListData, OperationFails,
         FetchObject
<1> SUFFICES \E step : Goes(c, step) /\ (step = Nothing \/ step.op # "latest")
  BY <1>1, NoLookup
<1>2. ASSUME NEW id \in StoreIds, BeginDelete(c, id) \/ BeginRestore(c, id)
      PROVE  \E step : Goes(c, step) /\ (step = Nothing \/ step.op # "latest")
  BY <1>2 DEF BeginDelete, BeginRestore
<1>3. CASE SendSucceeds(c)
  <2>1. PICK r \in RequestsOf(command[c]) : Goes(c, After(command[c], r)) /\ command[c] # Nothing
    BY <1>3 DEF SendSucceeds
  <2>2. CASE command[c] \in Upload /\ r.does = "put"
    BY <2>1, <2>2 DEF After, Upload
  <2>3. CASE r.does = "publish"
    BY <2>1, <2>3 DEF After
  <2>4. CASE r.does = "unpublish"
    BY <2>1, <2>4 DEF After
  <2>5. CASE command[c] \in Clearing /\ r.does = "delete"
    BY <2>1, <2>5 DEF After, Clearing
  <2> QED
    BY <1>0, <2>1, <2>2, <2>3, <2>4, <2>5, RequestsTyped
<1>4. CASE SendTimesOut(c) \/ OperationFails(c)
  BY <1>4 DEF SendTimesOut, OperationFails
<1>5. CASE ListData(c)
  <2>1. command[c] \in Clearing
    BY <1>0, <1>5 DEF ListData, Does, Command, Upload, Deletion, Retrieval, Lookup
  <2> DEFINE keys == FirstPage(PathsOf(command[c].id))
             next == [command[c] EXCEPT !.left = keys]
  <2>2. next.op = "clear"
    BY <2>1 DEF Clearing
  <2>3. Goes(c, next) \/ Goes(c, Nothing)
    BY <1>5 DEF ListData
  <2> QED
    BY <2>2, <2>3
<1>6. CASE FetchObject(c)
  <2>1. command[c] \in Retrieval
    BY <1>0, <1>6 DEF FetchObject, Does, Command, Upload, Deletion, Clearing, Lookup
  <2>2. ASSUME NEW p PROVE [command[c] EXCEPT !.left = @ \ {p}].op = "restore"
    BY <2>1 DEF Retrieval
  <2> QED
    BY <1>6, <2>2 DEF FetchObject
<1> QED
  BY <1>2, <1>3, <1>4, <1>5, <1>6

\* latest_snapshot answers with a snapshot at least as new as every one that was there
\* throughout the lookup, as long as one page of the listing holds them all, whatever
\* other clients upload and delete meanwhile.
THEOREM LookupIsRight == StoreSpec => []LookupSeesNewest
<1>1. ClockInit /\ StoreInit => LookupInv
  <2> SUFFICES ASSUME StoreInit PROVE LookupInv
    OBVIOUS
  <2>1. \A id \in drawn : id <= 0
    BY DEF StoreInit
  <2> QED
    BY <2>1 DEF StoreInit, LookupInv, LookupSeesNewest, Does
<1>2. StoreInv /\ LookupInv /\ [StoreNext]_<<clockVars, storeVars>> => LookupInv'
  <2> SUFFICES ASSUME StoreInv, LookupInv, [StoreNext]_<<clockVars, storeVars>>
               PROVE  LookupInv'
    OBVIOUS
  <2>1. CASE LateArrives \/ UNCHANGED <<clockVars, storeVars>>
    BY <2>1 DEF LateArrives, storeVars, LookupInv, LookupSeesNewest, Does, Looking
  <2> QED
    BY <2>1, BeginUploadLooks, BeginLatestLooks, FetchMetadataLooks, LatestFoundLooks, OthersLook
       DEF StoreNext
<1>3. LookupInv => LookupSeesNewest
  BY DEF LookupInv
<1> QED
  BY <1>1, <1>2, <1>3, BucketSound, PTL DEF StoreSpec

=============================================================================
