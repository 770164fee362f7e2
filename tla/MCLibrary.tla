------------------------------ MODULE MCLibrary ------------------------------
(***************************************************************************)
(* The audit log and the smaller parts of the library, one at a time: they *)
(* share no state, so that the part chosen in the initial state is the     *)
(* only one that moves, and the states of the parts add up instead of      *)
(* multiplying.                                                            *)
(***************************************************************************)
EXTENDS AuditQuery, Notifications, Tenants, Compliance, Webhook, Scheduler, Anomaly,
        Classifier, Transport, Routing, DataLayers, StreamCrypto, IntegrityCheck,
        FileSearch, ObjectStore, Chunker, TLC

VARIABLE part

CONSTANTS backedUp, failed,   \* notification types
          inApp, webhook,     \* channels
          t1, t2,             \* tenants
          eu, us,             \* regions
          k1, k2,             \* keys
          word, other         \* keywords

-----------------------------------------------------------------------------
(* Rules of the services *)

MCDefaultRule ==
    [id |-> 0, enabled |-> TRUE, min |-> 1, topics |-> {}, window |-> 0,
     channels |-> {inApp}]

\* Two rules with windows, of other severities and topics, and the default
\* rule switched off.
MCRules ==
    {MCDefaultRule,
     [MCDefaultRule EXCEPT !.enabled = FALSE],
     [id |-> 1, enabled |-> TRUE, min |-> 2, topics |-> {}, window |-> 2,
      channels |-> {webhook}],
     [id |-> 2, enabled |-> TRUE, min |-> 1, topics |-> {failed}, window |-> 1,
      channels |-> {inApp}]}

\* /data, which is no tenant's, /tenants/t1/data, and /data/tenants/t1/data, which
\* begins with the first.
MCTenantPath(name, owner, within, under) ==
    [name |-> name, owner |-> owner, within |-> within, under |-> under]
MCTenantPaths ==
    {MCTenantPath("data", Nothing, FALSE, {"data"}),
     MCTenantPath("own", t1, TRUE, {"own"}),
     MCTenantPath("copy", Nothing, TRUE, {"data", "copy"})}

\* A public path in one region, and a confidential one in two.
MCDataPaths == {[class |-> 0, regions |-> {us}], [class |-> 2, regions |-> {eu, us}]}

MCRuleSet ==
    {[id |-> 0, enabled |-> TRUE, patterns |-> {}, regions |-> {eu}, class |-> 1,
      retention |-> [kind |-> "years", years |-> 1]],
     [id |-> 1, enabled |-> TRUE, patterns |-> {}, regions |-> {}, class |-> 0,
      retention |-> [kind |-> "until", date |-> 1]],
     [id |-> 2, enabled |-> TRUE, patterns |-> {[class |-> 2, regions |-> {eu, us}]},
      regions |-> {}, class |-> 0, retention |-> [kind |-> "years", years |-> 2]],
     [id |-> 3, enabled |-> FALSE, patterns |-> {}, regions |-> {}, class |-> 0,
      retention |-> [kind |-> "unparsed"]],
     [id |-> 4, enabled |-> TRUE, patterns |-> {}, regions |-> {}, class |-> 0,
      retention |-> [kind |-> "all"]]}

MCWebhookConfigs ==
    {[enabled |-> TRUE, events |-> {"backup_failed"}, url |-> TRUE],
     [enabled |-> FALSE, events |-> {}, url |-> FALSE]}

-----------------------------------------------------------------------------
(* Readers of the audit log *)

\* Two of the three bodies have the same characters, with another division into
\* fields.
MCCharacters == [a |-> 1, b |-> 1, c |-> 2]
MCBodies == DOMAIN MCCharacters

MCFilters == {[body |-> body, start_day |-> 0, end_day |-> 1] :
                  body \in {AnyBody, CHOOSE b \in Bodies : TRUE}}

-----------------------------------------------------------------------------
(* Analysis and transport *)

\* An urgent task of a device that is away, one over a network below the least
\* score, and two of one rank.
MCTask(id, priority, online, bandwidth) ==
    [id |-> id, priority |-> priority, online |-> online, bandwidth |-> bandwidth,
     latency |-> 500, loss |-> 0]
MCTasks ==
    {MCTask(1, 3, FALSE, 100), MCTask(2, 2, TRUE, 0), MCTask(3, 1, TRUE, 50),
     MCTask(4, 1, TRUE, 50)}

\* Days of three hours, and a window that passes midnight: open in hours 2 and 0.
MCWindow == [start |-> 2, end |-> 1, days |-> {0, 1}]

MCCheckpoint(files, errors, duration, passed) ==
    [files |-> files, errors |-> errors, duration |-> duration, passed |-> passed]
MCCheckpoints ==
    {MCCheckpoint(10, 0, 10, TRUE), MCCheckpoint(10, 1, 10, TRUE),
     MCCheckpoint(10, 3, 30, FALSE), MCCheckpoint(0, 0, 0, FALSE)}

MCFilePath(inTemp, built, extension, logName) ==
    [inTemp |-> inTemp, built |-> built, extension |-> extension, logName |-> logName]
MCFilePaths ==
    {MCFilePath(FALSE, FALSE, "rs", FALSE), MCFilePath(FALSE, TRUE, "rs", FALSE),
     MCFilePath(FALSE, FALSE, "none", TRUE), MCFilePath(TRUE, FALSE, "log", TRUE)}
MCExtensionClass == [temporary |-> "temp", log |-> "log", rs |-> "code", pdf |-> "document"]

MCRule(name, enabled, valid, paths, category) ==
    [name |-> name, enabled |-> enabled, valid |-> valid, paths |-> paths,
     category |-> category, priority |-> 1]
MCCustomRules ==
    {MCRule("broken", TRUE, FALSE, {}, "data"), MCRule("off", FALSE, TRUE, MCFilePaths, "video"),
     MCRule("all", TRUE, TRUE, MCFilePaths, "document"),
     MCRule("built", TRUE, TRUE, {p \in MCFilePaths : p.built}, "image")}

-----------------------------------------------------------------------------
(* Data *)

MCLayerConfigs ==
    [compression : {"none", "zstd", "lz4"}, encryption : BOOLEAN, key : {k1, k2, Nothing},
     outer : {"compress", "encrypt"}]

MCVersions == {[size |-> 1, sum |-> 1], [size |-> 1, sum |-> 2], [size |-> 2, sum |-> 3]}

MCIndexEntries ==
    {[inPath |-> {word}, inName |-> {word}, inTags |-> {}, inSummary |-> {other}],
     [inPath |-> {word}, inName |-> {}, inTags |-> {other}, inSummary |-> {}],
     [inPath |-> {}, inName |-> {}, inTags |-> {word}, inSummary |-> {word}]}

-----------------------------------------------------------------------------

services == <<notifyVars, tenantVars, complianceVars, webhookVars>>
analysis == <<scheduleVars, anomalyVars, classifierVars, transportVars, route>>
data == <<layerVars, streamVars, integrityVars, searchVars>>
stores == <<storeVars, chunkerVars>>
parts == <<clockVars, vars, queryVars, services, analysis, data, stores, part>>

\* The parts that only have a state when they are the chosen one.
LayersIdle == settings = Nothing /\ disk = Nothing /\ contents = Nothing /\ retrieved = Nothing
IntegrityIdle ==
    /\ storage = Nothing /\ listed = <<>> /\ done = 0 /\ sized = Nothing
    /\ checks = [ok |-> 0, failed |-> 0, bytes |-> 0, list |-> <<>>]
    /\ tampered = {} /\ unreadable = {}
ChunkerIdle == file = <<>> /\ previous = <<>> /\ edits = 0

MCInit ==
    /\ part \in {"audit", "notifications", "tenants", "compliance", "webhook",
                 "scheduler", "anomaly", "classifier", "transport", "routing", "layers",
                 "stream", "integrity", "search", "query", "objects", "chunker"}
    /\ ClockInit /\ Init /\ QueryInit
    /\ NotifyInit /\ TenantInit /\ ComplianceInit /\ WebhookInit
    /\ SchedulerInit /\ AnomalyInit /\ ClassifierInit /\ TransportInit /\ RoutingInit
    /\ StreamInit /\ SearchInit /\ StoreInit
    /\ part = "transport" \/ client
    /\ IF part = "layers" THEN LayerInit ELSE LayersIdle
    /\ IF part = "integrity" THEN IntegrityInit ELSE IntegrityIdle
    /\ IF part = "chunker" THEN ChunkerInit ELSE ChunkerIdle

Services ==
    /\ UNCHANGED <<vars, queryVars, analysis, data, stores>>
    /\ \/ /\ part = "notifications" /\ NotifyNext
          /\ UNCHANGED <<tenantVars, complianceVars, webhookVars>>
       \/ /\ part = "tenants" /\ TenantNext
          /\ UNCHANGED <<notifyVars, complianceVars, webhookVars>>
       \/ /\ part = "compliance" /\ ComplianceNext
          /\ UNCHANGED <<notifyVars, tenantVars, webhookVars>>
       \/ /\ part = "webhook" /\ WebhookNext
          /\ UNCHANGED <<notifyVars, tenantVars, complianceVars>>

Analysis ==
    /\ UNCHANGED <<vars, queryVars, services, data, stores>>
    /\ \/ /\ part = "scheduler" /\ SchedulerNext
          /\ UNCHANGED <<anomalyVars, classifierVars, transportVars, route>>
       \/ /\ part = "anomaly" /\ AnomalyNext
          /\ UNCHANGED <<scheduleVars, classifierVars, transportVars, route>>
       \/ /\ part = "classifier" /\ ClassifierNext
          /\ UNCHANGED <<scheduleVars, anomalyVars, transportVars, route>>
       \/ /\ part = "transport" /\ TransportNext
          /\ UNCHANGED <<scheduleVars, anomalyVars, classifierVars, route>>
       \/ /\ part = "routing" /\ RoutingNext
          /\ UNCHANGED <<scheduleVars, anomalyVars, classifierVars, transportVars>>

Data ==
    /\ UNCHANGED <<vars, queryVars, services, analysis, stores>>
    /\ \/ /\ part = "layers" /\ LayerNext
          /\ UNCHANGED <<streamVars, integrityVars, searchVars>>
       \/ /\ part = "stream" /\ StreamNext
          /\ UNCHANGED <<layerVars, integrityVars, searchVars>>
       \/ /\ part = "integrity" /\ IntegrityNext
          /\ UNCHANGED <<layerVars, streamVars, searchVars>>
       \/ /\ part = "search" /\ SearchNext
          /\ UNCHANGED <<layerVars, streamVars, integrityVars>>

\* The log is read while up to four entries are appended on one day and none is
\* altered.
Audit ==
    /\ UNCHANGED <<clockVars, services, analysis, data, stores>>
    /\ \/ part = "audit" /\ Next /\ UNCHANGED queryVars
       \/ /\ part = "query" /\ QueryNext
          /\ entries' = entries \/ next_seq' # next_seq
          /\ today' = 0 /\ next_seq' <= 5

Stores ==
    /\ UNCHANGED <<vars, queryVars, services, analysis, data>>
    /\ \/ part = "objects" /\ StoreNext /\ UNCHANGED chunkerVars
       \/ part = "chunker" /\ ChunkerNext /\ UNCHANGED <<clockVars, storeVars>>

MCNext ==
    /\ UNCHANGED part
    /\ \/ Audit
       \/ Services
       \/ Analysis
       \/ Data
       \/ Stores

MCSpec ==
    /\ MCInit
    /\ [][MCNext]_parts
    /\ WebhookFairness
    /\ TransportFairness

=============================================================================
