\* Each component of the platform in turn.
CONSTANTS
  None = None
  Gone = Gone
  Torn = Torn
  Pipelines = {1, 2}
  Names = {"n1", "n2"}
  MaxVersion = 3
  Codes = {"c0", "c1"}
  Handlers = {"h1", "h2"}
  Cli = "cli"
  MaxRequests = 3
  PgRequests = {1, 2, 3, 4}
  UniqueKeys = {"k1", "k2"}
  SourceRows <- SnapshotRows
  MaxMerges = 3
  MaxRuns = 2
  PipelineNodes = {"a", "b"}
  EndOfTime = 0
  ScanLimit = 2
  MaxAge = 1
  WarnAt = 0
  OverviewWindow = 1
  CacheTtl = 1
  FileOf <- CatalogFiles
  Strays = {"g"}
  BindingSets <- CatalogBindings
  Observed <- CatalogObserved
  SchemaOf <- CatalogSchemas
  FinishedAt <- CatalogRuns
  Bodies <- CatalogBodies
  HandWritten <- CatalogEdits
  CatHandlers = {"h1", "h2"}
  CatCli = "cli"
  MaxWrites = 3
  CutShort = CutShort
  Pids = {1, 2}
  Ports = {8080, 8081}
  MaxEvents = 5
  FanRuns = {1, 2}
  Asked = {{1}, {2}}
  Capacity = 3
  MaxRecent = 1
  SecretNames = {"n"}
  Scopes = {""}
  SecretTexts <- SecretValues
  Letters = {"a", "b"}
  Passwords = {"p", "q"}
  Configs = {}
  AutoLock = 2
  AttemptWindow = 2
  MaxAttempts = 2
  MaxNow = 3
  MaxSecretWrites = 5
  SinkKeys = {"1", "2"}
  SinkLoads <- LoadsOfSinks
  MaxSinkWrites = 2
SPECIFICATION Spec
INVARIANTS
  SnapshotMatchesFile
  CacheFollowsSaves
  RowVersionBacked
  HistoryAnswers
  ReceiptIsReal
  FinishedRunsAreComplete
  HealthIsReal
  LineageAnswers
  CatalogAnswers
  SinksKeepRows
  AccessHolds
  OneInstance
  EventsArrive
  SecretsAreSafe
  DefinitionsHold
CHECK_DEADLOCK FALSE
