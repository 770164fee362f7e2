SPECIFICATION MCSpec
CONSTANTS
    Bodies <- MCBodies
    Characters <- MCCharacters
    MaxEntries = 3
    MaxAppends = 6
    MaxDays = 1
    Alterable = TRUE
    Nothing = Nothing
    MaxTime = 3
    MaxRequests = 4
    backedUp = backedUp  failed = failed  inApp = inApp  webhook = webhook
    t1 = t1  t2 = t2  eu = eu  us = us  k1 = k1  k2 = k2  word = word  other = other
    Topics = {backedUp, failed}
    Titles = {h1}
    Severities = {1, 3}
    Rules <- MCRules
    DefaultRule <- MCDefaultRule
    TenantIds = {t1, t2}
    Users = {u1}
    Amounts = {0, 2}
    TenantPaths <- MCTenantPaths
    DataPaths <- MCDataPaths
    RuleSet <- MCRuleSet
    DaysPerYear = 1
    Retentions = {1, 2}
    Callers = {r1, r2}
    WebhookConfigs <- MCWebhookConfigs
    ScheduleTasks <- MCTasks
    Window <- MCWindow
    MinScore = 4000
    HoursPerDay = 3
    CheckpointKinds <- MCCheckpoints
    MaxCheckpoints = 4
    DurationMedium = 30  DurationHigh = 80  ErrorMedium = 5  ErrorHigh = 15
    CriticalFailures = 3
    FilePaths <- MCFilePaths
    CustomRules <- MCCustomRules
    ExtensionClass <- MCExtensionClass
    Peers = {u1, u2}
    RemoteFiles = {f1}
    Bytes = {x, y}
    LocalMode = FALSE
    Regions = {eu, us}
    DataSizes = {0, 1073741823, 1073741824}
    PreferDirect = TRUE
    PrimaryStorage = "local"
    BandwidthLimit = 1048576
    LayerFiles = {f1}
    Plain = {x}
    SealKeys = {k1, k2}
    LayerConfigs <- MCLayerConfigs
    Units = {x, y}
    ChunkUnits = 4
    NonceUnits = 1
    TagUnits = 2
    MaxStream = 5
    CheckedFiles = {f1, f2}
    Versions <- MCVersions
    MaxTampers = 2
    IndexPaths = {f1, f2, f3}
    Keywords = {word, other}
    IndexEntries <- MCIndexEntries
    ResultLimit = 1
    Readers = {r1}
    PerPage = 1
    AnyBody = AnyBody
    Filters <- MCFilters
    StoreIds = {1, 2, 3}
    EntryPaths = {1, 2}
    EntrySets = {{1, 2}}
    StoreClients = {c1, c2}
    PageKeys = 2
    ByteValues = {0, 1}
    MinChunk = 1
    MaxChunk = 5
    Mask = 3
    HashWindow = 3
    HashRange = 8
    FileLength = 8
    MaxChanges = 1
INVARIANTS OneChain VerificationJudges PagesMissNothing DedupAcrossRules CompliantDeletions
INVARIANTS NextTaskRight BackendRecovers BrokenRulesHarmless AcknowledgedIsStored
INVARIANTS RetrievedIsStored StreamFaithful ReportTrue BestMatches PublishedComplete LookupSeesNewest TailChunksShared
PROPERTIES ConfigureCompletes AttemptSettles
CHECK_DEADLOCK FALSE
