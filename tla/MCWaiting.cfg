SPECIFICATION FairSpec
CONSTANTS
  Parts = {"process", "limits", "insisting", "impatient", "answer"}
  Null = Null
  AtRest = AtRest
  CollectionLastId = 3
  CollectionMaxCalls = 2
  CollectionMaxBatch = 2
  CollectionPageSize = 1
  CollectionMaxPages = 2
  ProcessRequests = {"r1", "r2"}
  ProcessPersonas = {"exec", "dm"}
  ProcessExec = "exec"
  ProcessDenied = {"dm"}
  FleetInstances = {"i1", "i2"}
  FleetUploads = {"u1", "u2", "u3"}
  FleetLastMs = 1
  FleetMaxStarts = 3
  LimitsCallers = {"c1", "c2"}
  LimitsPersonas = {"exec"}
  LimitsPersonaOf <- OnePersona
  LimitsWindow = 3
  LimitsWithCode = {"c1"}
  LimitsMaxCalls = 2
  LimitsMaxUploads = 1
  LimitsMaxReads = 2
  ApiActors = {"ada", "ben"}
  ApiRole <- RoleOf
  ApiScope <- ScopeOf
  ApiRequests = {1}
  ApiRoutes <- RouteTable
  ApiReaders <- ReadersOf
  ApiSensitive = {"margin"}
  ApiProjects = {"p1", "p2"}
  ApiIdle = 2
  ApiAbsolute = 3
  ApiMaxTime = 4
  ApiMaxSessions = 1
  TabPages = {"assistant", "sources"}
  TabBaseCount = 2
  TabMaxExpiries = 2
  TrailCallers = {"a", "b"}
  TrailActors = {1, 2}
  TrailActorOf <- SignedFor
  TrailDigests = {"x", "y"}
  TrailLastMs = 2
  TrailMaxAsked = 4
  TrailReadLimit = 3
  TrailShown = 2
  TrailListCap = 3
  UploadFiles = {"ledger", "plan"}
  UploadHeaders <- HeadersOf
  UploadSuggestion <- SuggestionOf
  UploadIdLike = {"ref"}
  UploadConcepts = {"financialPeriod", "actualCost"}
  UploadCalls <- SurfaceCalls
  FilterProjects = {"p1", "p2", "p3", "p4"}
  FilterRegion <- RegionShown
  FilterBand <- BandShown
  FilterCarries <- DriversShown
  FilterLens <- QuickViews
  FilterPages = {"home", "projects"}
  FilterMaxHistory = 2
  DocumentsContents = {"c1", "c2"}
  DocumentsWords = {"w1", "w2"}
  DocumentsProjects = {"p1"}
  DocumentsChunksOf <- TwoContents
  DocumentsLastMs = 2
  DocumentsMaxUploads = 3
  DocumentsMaxCrashes = 2
  SheetIdentities = {"a", "alias", "b"}
  SheetBlank = "blank"
  SheetResolution <- HubSays
  SheetProjects = {"p1"}
  SheetPeriods = {"2026-07", "2026-08"}
  SheetNotADate = "13/14"
  SheetEffective = "2026-08"
  SheetColumns <- OneColumn
  SheetConcepts = {"c1", "c2"}
  SheetSafeId <- AsItIs
  SheetMaxRows = 2
  HubSystems = {"s1", "s2"}
  HubSpellings = {"prj-1", "PRJ-1", "prj-2", " "}
  HubKey <- Folded
  HubProjects = {"p1", "p2"}
  HubMaxDeclarations = 4
  AuthoritySystems = {"erp", "psa"}
  AuthorityUploads = {"upload-a", "upload-b"}
  AuthorityConcepts = {"cost"}
  AuthorityValues = {400, 402, 405}
  AuthoritySourceOrder <- SourcesByName
  AuthorityMaxGrants = 3
  AuthorityMaxObservations = 3
  ConnectorNames = {"n1", "n2"}
  ConnectorVersions = {"v1", "v2"}
  ConnectorDates = {1, 2}
  ConnectorMaxRecords = 3
  ConnectorMaxSyncs = 3
  ChatProjects = {1, 2, 3, 4}
  ChatRegion <- RegionOf
  ChatBand <- BandOf
  ChatQuestions <- TheQuestions
  ChatScopes = {{1, 2, 3, 4}, {2, 3}}
  ChatMany = 4
  ChatMaxValues = 3
  ChatMaxAsks = 3
  ChatMaxOpen = 2
  AnswerClasses = {"DELIVERY_SENSITIVE", "SOW", "OTHER"}
  AnswerPermitted = {"DELIVERY_SENSITIVE", "SOW"}
  AnswerDeclared = {"DELIVERY_SENSITIVE"}
PROPERTIES
  WaitingEnds
  EveryQuestionEnds
CHECK_DEADLOCK FALSE
