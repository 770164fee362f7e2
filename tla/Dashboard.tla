------------------------------ MODULE Dashboard ------------------------------
(***************************************************************************)
(* The data behind the web dashboard: files, alerts and counters, each     *)
(* under a lock of its own, and an overview that takes the locks one after *)
(* the other.                                                              *)
(***************************************************************************)
EXTENDS ServerClock, Integers, FiniteSets, SequencesExt, Selection

CONSTANTS FileIds,   \* ids of dashboard files
          FileSizes, \* their sizes
          Healths,   \* their states of health
          Viewers,   \* users of the dashboard
          PageFiles  \* files per page of a listing


FileHealth == {"healthy", "degraded", "at_risk", "lost"}

ASSUME DashboardAssumption ==
    /\ FileSizes \subseteq Nat
    /\ Healths \subseteq FileHealth
    /\ PageFiles \in Nat \ {0}
    /\ Nothing \notin [size : FileSizes, health : Healths]

VARIABLES files,       \* DashboardInner.files
          order,       \* the order its HashMap yields them in
          replicaList, \* DashboardInner.replicas: how many a file has
          alerts,      \* DashboardInner.alerts: whether each is acknowledged
          policyCount, \* policies_count
          storageUsed, \* storage_used
          activeCount, \* active_backups
          view,        \* the overview each viewer is putting together
          overview,    \* the last overview returned
          browse,      \* the listing each viewer pages through
          browsed      \* the last one read to its end

counters == <<replicaList, alerts, policyCount, storageUsed, activeCount>>
listings == <<browse, browsed>>
dashboardVars == <<files, order, counters, view, overview, listings>>

DashboardFile == [size : FileSizes, health : Healths]

\* The types of the dashboard's data.
DashboardTypeOK ==
    /\ ClockTypeOK
    /\ files \in [FileIds -> DashboardFile \cup {Nothing}]
    /\ replicaList \in [FileIds -> Nat]
    /\ alerts \in Seq(BOOLEAN)
    /\ order \in Seq(FileIds)
    /\ policyCount \in Nat
    /\ storageUsed \in Nat
    /\ activeCount \in Nat

DashboardInit ==
    /\ files = [f \in FileIds |-> Nothing]
    /\ replicaList = [f \in FileIds |-> 0]
    /\ alerts = <<>>
    /\ policyCount = 0
    /\ storageUsed = 0
    /\ activeCount = 0
    /\ view = [v \in Viewers |-> Nothing]
    /\ overview = Nothing
    /\ order = <<>>
    /\ browse = [v \in Viewers |-> Nothing]
    /\ browsed = Nothing

Listed == {f \in FileIds : files[f] # Nothing}

SizeOf(S) == FoldSet(LAMBDA f, sum : sum + files[f].size, 0, S)

-----------------------------------------------------------------------------

\* A new key may change the order of all; another value under a known one not.
\* A listing in progress is no longer one of an unchanged map.
Stored(f, file) ==
    /\ files' = [files EXCEPT ![f] = file]
    /\ order' \in IF files[f] = Nothing THEN SetToSeqs(Listed \cup {f}) ELSE {order}
    /\ browse' = [v \in Viewers |-> IF browse[v] = Nothing THEN Nothing
                                    ELSE [browse[v] EXCEPT !.unchanged = FALSE]]

\* add_file holds both locks: the counter grows by the size, also when the file
\* replaces one of the same id.
AddFile(f, file) ==
    /\ Request
    /\ storageUsed' = storageUsed + file.size
    /\ Stored(f, file)
    /\ UNCHANGED <<replicaList, alerts, policyCount, activeCount, view, overview, browsed>>

AddReplica(f) ==
    /\ Request
    /\ replicaList' = [replicaList EXCEPT ![f] = @ + 1]
    /\ UNCHANGED <<files, order, alerts, policyCount, storageUsed, activeCount, view,
                   overview, listings>>

AddAlert(acknowledged) ==
    /\ Request
    /\ alerts' = Append(alerts, acknowledged)
    /\ UNCHANGED <<files, order, replicaList, policyCount, storageUsed, activeCount, view,
                   overview, listings>>

\* create_policy counts the request and keeps nothing else of it.
CreateDashboardPolicy ==
    /\ Request
    /\ policyCount' = policyCount + 1
    /\ UNCHANGED <<files, order, replicaList, alerts, storageUsed, activeCount, view,
                   overview, listings>>

SetActiveBackups(count) ==
    /\ Request
    /\ activeCount' = count
    /\ UNCHANGED <<files, order, replicaList, alerts, policyCount, storageUsed, view,
                   overview, listings>>

\* The overview, lock by lock.  With the counts goes the size of what was
\* counted, which the code does not return.
OverviewReadsFiles(v) ==
    /\ Request
    /\ view[v] = Nothing
    /\ view' = [view EXCEPT ![v] =
           [files |-> Cardinality(Listed),
            healthy |-> Cardinality({f \in Listed : files[f].health = "healthy"}),
            counted |-> SizeOf(Listed), used |-> Nothing]]
    /\ UNCHANGED <<files, order, counters, overview, listings>>

OverviewReadsStorage(v) ==
    /\ view[v] # Nothing
    /\ view[v].used = Nothing
    /\ view' = [view EXCEPT ![v].used = storageUsed]
    /\ UNCHANGED <<clockVars, files, order, counters, overview, listings>>

\* The health rate in per cent, 100 for an empty dashboard.
HealthRate(healthy, total) == IF total > 0 THEN (100 * healthy) \div total ELSE 100

OverviewReadsRest(v) ==
    /\ view[v] # Nothing
    /\ view[v].used # Nothing
    /\ overview' = [files |-> view[v].files, counted |-> view[v].counted,
                    rate |-> HealthRate(view[v].healthy, view[v].files),
                    used |-> view[v].used, policies |-> policyCount,
                    active |-> activeCount,
                    alerts |-> Cardinality({i \in DOMAIN alerts : ~alerts[i]})]
    /\ view' = [view EXCEPT ![v] = Nothing]
    /\ UNCHANGED <<clockVars, files, order, counters, listings>>

-----------------------------------------------------------------------------
(* Listings *)

\* Mutant: pages are taken to count from 0.
PageFromZero(filtered, page) ==
    SubSeq(filtered, page * PageFiles + 1,
           IF (page + 1) * PageFiles < Len(filtered) THEN (page + 1) * PageFiles
           ELSE Len(filtered))

\* Pages count from 1, and page 0 is the first one too.
PageOfFiles(filtered, page) ==
    LET skip == (IF page = 0 THEN 0 ELSE page - 1) * PageFiles
    IN  SubSeq(filtered, skip + 1, IF skip + PageFiles < Len(filtered)
                                   THEN skip + PageFiles ELSE Len(filtered))

\* A viewer asks for the files of some states of health, a page at a time ...
BeginListing(v, healths) ==
    /\ Request
    /\ browse[v] = Nothing
    /\ browse' = [browse EXCEPT ![v] =
           [healths |-> healths, page |-> 1, seen |-> <<>>, unchanged |-> TRUE]]
    /\ UNCHANGED <<files, order, counters, view, overview, browsed>>

\* ... until one is empty.  list_files does not sort.
ListFiles(v) ==
    LET filtered == Picked(order, {i \in DOMAIN order :
                                       files[order[i]].health \in browse[v].healths})
        items == PageOfFiles(filtered, browse[v].page)
    IN  /\ browse[v] # Nothing
        /\ IF items = <<>>
           THEN /\ browsed' = [healths |-> browse[v].healths, seen |-> browse[v].seen,
                               unchanged |-> browse[v].unchanged,
                               expected |-> ToSet(filtered)]
                /\ browse' = [browse EXCEPT ![v] = Nothing]
           ELSE /\ browse' = [browse EXCEPT ![v].page = @ + 1, ![v].seen = @ \o items]
                /\ UNCHANGED browsed
        /\ UNCHANGED <<clockVars, files, order, counters, view, overview>>

DashboardNext ==
    \/ \E f \in FileIds :
          \/ \E file \in DashboardFile : AddFile(f, file)
          \/ AddReplica(f)
    \/ \E acknowledged \in BOOLEAN : AddAlert(acknowledged)
    \/ CreateDashboardPolicy
    \/ \E count \in 0..1 : SetActiveBackups(count)
    \/ \E v \in Viewers :
          \/ OverviewReadsFiles(v)
          \/ OverviewReadsStorage(v)
          \/ OverviewReadsRest(v)
          \/ \E healths \in {{"healthy"}, Healths} : BeginListing(v, healths)
          \/ ListFiles(v)
    \/ Passes /\ UNCHANGED dashboardVars

DashboardSpec ==
    ClockInit /\ DashboardInit /\ [][DashboardNext]_<<clockVars, dashboardVars>>

-----------------------------------------------------------------------------
(* Properties *)

\* The overview is not one instant, but its order of reads keeps it plausible:
\* the storage it states covers the files it counts, and its rate is a rate.
OverviewCoversFiles ==
    overview # Nothing =>
        /\ overview.used >= overview.counted
        /\ overview.rate \in 0..100

\* Without a sort the pages still partition the files that match, each file on
\* one page, if no file was added meanwhile; with additions in between there is
\* no such promise, as the HashMap may change its order.
PagesPartition ==
    browsed # Nothing /\ browsed.unchanged =>
        /\ ToSet(browsed.seen) = browsed.expected
        /\ IsInjective(browsed.seen)

\* What a viewer gets together from several reads fits together.
ViewsCoherent == OverviewCoversFiles /\ PagesPartition

=============================================================================
