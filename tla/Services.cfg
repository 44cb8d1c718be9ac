SPECIFICATION ServicesSpec
CONSTANTS
  s1 = s1 s2 = s2 g1 = g1 g2 = g2 d1 = d1
  SignIns = {s1, s2}
  Grants = {g1, g2}
  Devices = {d1}
  MaxPassword = 2
  FailureLimit = 2
  LevelLimit = 2
  MaxFailures = 4

  anna = anna boris = boris east = east west = west
  menu = menu ledger = ledger photo = photo
  Employees = {anna, boris}
  Clearances <- MCClearances
  Stores = {east, west}
  Values = {}
  Evidence = {menu}
  Ledgers = {ledger}
  Photos = {photo}
  EvidenceCategory = evidence
  LedgerCategory = ledgers
  PhotoCategory = photos
  Group = group
  Nothing = Nothing
  GrantChoices <- MCGrantChoices
  MaxWrites = 2
  MaxUploads = 1

  i1 = i1 i2 = i2 north = north south = south
  Identities = {i1, i2}
  StoreOf <- MCStoreOf
  MomentOf <- MCMomentOf
  FeedbackIds = {"f1"}
  Patches <- MCPatches
  MaxBatch = 2
  ReviewIds = {1, 2, 3}
  Staff = {"ann"}
  Filters <- MCFilters
  PageLimit = 2
  PageBudget = 3
  MaxRevisions = 3

  q1 = q1 q2 = q2
  Sources = {q1, q2}
  Fields <- MCFields
  RowsOf <- MCRowsOf
  QueryRequests <- MCQueryRequests
  FilterNodes <- MCFilterNodes
  Callers = {"ann"}
  LevelOf <- MCLevelOf
  ClearanceOf <- MCClearanceOf
  Limits <- MCLimits
  MaxVersions = 4

  e1 = e1 e2 = e2
  Docs = {e1, e2}
  Parsed <- MCParsed
  Configs = {"v1", "v2"}
  Pruning = {"v2"}
  Hybrid <- MCHybrid
  Relevance <- MCRelevance
  SearchRequests <- MCSearchRequests
  AccessGrants <- MCAccessGrants
  MaxChunkChars = 5
  MaxDocumentChars = 20
  MaxChunksPerDocument = 4
  CandidateWindow = 3
  QueryTokens = 1
  InputBudget = 5
  RequestBudget = 12
  MinScore = 1
  MinGap = 2
  LowCluster = 5
  MaxLimit = 4
  MaxFilterIds = 1
  MaxChanges = 2

  Partitions = {1, 2}
  MaxVersion = 2
  Bundle <- MCBundle
  LastPart = 3
  PageSize = 1
  UploadConcurrency = 2
  DownloadConcurrency = 2
  MaxTries = 2
  MaxTroubles = 2

  Connections = {1, 2}
  MaxConcurrent = 1
  MaxUploadBytes = 4
  EnvelopeOverhead = 12
  EnvelopeBytes = 10
  Arrivals <- MCArrivals

  StoreNames = {"East", "east", "West"}
  StoreKey <- MCStoreKey
  OrderFiles <- MCOrderFiles
  Administrators = {"ann"}
  ScopeSelections = {{"East", "West"}}
  MaxPreviews = 2
  MaxScopeUploads = 2
  PreviewLimit = 1
  Historic <- MCHistoric

  ExportSources <- MCExportSources
  LowerCase <- MCLowerCase
  HeaderScanRows = 2
  HeaderBytes = 2
  FlushThreshold = 4
  MaxOpenFiles = 2
  MaxRows = 4
  MaxFiles = 3
  MaxCanonicalBytes = 10
CONSTRAINT Bounded
CHECK_DEADLOCK FALSE
INVARIANTS
  BrowserSessionsAreCurrent
  EnabledIsClassified
  ReviewsAgree
  PagesAreOneList
  ReadsAreOneAnswer
  ChunksAreTheDocument
  PagesAreOneRanking
  FinishedTransfers
  SlotsAreReturned
  AnswersAreTrue
  ExportIsTheSource
PROPERTIES
  ApprovalCoversSelection
  LinksAreCurrent
  ScopeIsConfirmed
