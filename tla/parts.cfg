SPECIFICATION Spec
CHECK_DEADLOCK FALSE
CONSTANTS
  Mutations = {m1, m2, m3}  MaxFrames = 2  MaxDiskFaults = 3
  Clients = {"r1", "r2"}  RemoteOps <- SomeRemoteOps  LeaseMs = 2  MaxServerTime = 3  MaxOverlap = 2  MaxRevisions = 2  MaxRemoteFaults = 1
  Envelopes = {o1, o2}  Poison = {o2}  Operations = {b1, b2}  Workers = {a1, a2}  Copies = {1, 2, 3}  MaxQueueFaults = 2
  CacheKeys = {b1, b2}  CacheCapacity = 1  CacheTtl = 2  RefreshTtl = 1  StaleTtl = 1
  Readers = {a1, a2}  RefreshJobs = {j1, j2}  MaxJobs = 1  MaxFlights = 1  MaxWaiters = 1  MaxCacheTime = 2  ReadKeys = {b1}  MaxCacheOps = 2
  TicketKeys = {1, 2, 3, 4}  Generations = {1, 2}  Work <- SomeWork  TotalKeys = 3  TotalBytes = 4  BackgroundKeys = 2
  BackgroundBytes = 3  BatchKeys = 2  BatchCharge = 2  ActiveBatches = 2  Collection = 1  Consumers = {a1, a2}
  MaxTicketTime = 2  MaxTicketOps = 3
  Walkers = {a1, a2}  GateIds = {1, 2, 3}  Skew = 1  Fallback = 2  StaticTtl = 3  Lifetimes = {0, 1, 3}  MaxCredTime = 2  MaxWalks = 2
  DrainTimes = {1, 2}  FlushesBetween = TRUE  Periodic = TRUE  MaxTriggers = 4
  RequestOf <- InOrder  Attempts <- SomeAttempts  Calls = {1, 2, 3}  PhaseTicks = 1  MaxLambdaTime = 1
  Notices = {b1, b2}  SpotWaiters = {a1, a2}  PollInterval = 1  TokenAge = 2  MaxSpotTime = 2  MaxSpotEvents = 3
  CronTicks = {1, 2, 3, 4}  MisfirePolicies <- Policies  ForbidOverlap = TRUE  Budgets <- SomeBudgets
  OccurrenceScan = 3  MaxScheduleTime = 4  MaxScheduleOps = 3  MaxIdle = 2
  MaxRetries = 1  RetryNonIdempotent = FALSE  BaseDelay = 1  MaxDelay = 2  AllowedDomains <- Domains  MaxRedirects = 1
  MaxAddresses = 1  AllowLoopback = FALSE  BodyLimit = 1  Hosts <- SomeHosts  Addresses <- SomeAddresses  Chunks = {1, 2}
  AuthzConfig <- SomeConfiguration  SnapshotAge = 0  FutureSkew = 0  HostSkew = 1  Assignments <- SomeAssignments  Places <- SomePlaces  Subjects <- SomeSubjects
  Actions = {"read", "edit", "share"}  SessionContexts <- SomeSessions  Tokens <- SomeTokens
  JwtContexts <- SomeJwtContexts  RequestsAsked <- SomeRequests  MaxAuthzTime = 3  MaxStoreChanges = 2  Unset = Unset
  Models <- SomeModels  SliceLimit = 4  MaxSlices = 5  MaxSchemas = 2  BundleLimit = 10  Runtimes = {a1}  MaxPublications = 2
  Tasks = {a1, a2}  Deliveries = {b1}  DrainingTasks = {a2}  SafetyWake = 2  RecoveryWake = 3  Heartbeat = 1  VisibilityTime = 2
  MaxHostTime = 3
  PolicyInputs <- SomePolicyInputs  JobRequests <- SomeJobRequests  InlineBytes = 3  HeaderLimit = 5  BatchItems = {b1, b2}
  MaxAttempts = 2  MaxHttpTime = 1
  CostRequests = {j1}  CostIdOf <- SharedId  NoId = Unset  CostTasks = {b1, b2}  MaxActiveRequests = 1  MaxBreakdown = 1
  SettleLimit = 1  IdleWindow = 1  MaxCostTime = 1  MaxCalls = 2
  GaugeThreads = {a1, a2}  Observers = {b1}  MaxMetricKeys = 3  MaxHandles = 2  MaxEvents = 2
  Issuers = {"i1", "i2"}  Verifiers = {a1}  Invalidators = {b1}  Entrances <- SomeEntrances  TokensSeen <- SomeTokensSeen  PolicyBuilders <- SomeBuilders
  KeyDocuments <- SomeDocuments  StaticKeys <- StaticDocument  LocalKey <- LocalSecret  AllowedAlgs = {"ES256", "RS256"}  SymmetricAllowed = FALSE
  StaleOnFetchError = TRUE  MaxGenerations = 1  MaxCooldowns = 1  Cooldown = 1  MaxSeconds = 9  DefaultLeeway = 1  DpopLeeway = 2  MaxKeys = 3
  MaxTokenTime = 1  MaxVerifications = 2  MaxInvalidations = 3  MaxLoads = 2
  Bases <- SomeBases  RequestUris <- SomeUris  ProofKeys = {"x1", "x2"}  AccessTokens = {"t1", "t2", "t3"}
  Confirmations <- SomeConfirmations  Methods <- SomeMethods  TokenForms <- SomeForms  ProofLimits <- SomeProofLimits
  ProofStamps <- SomeStamps  ProofAge = 1  ProofSkew = 1
  LastSecond = 30  CurveOrder = 13  MaxProofTime = 2
  Spellings <- SomeSpellings  DraftEntries <- SomeEntries  FirstDraft <- SomeDraft  Limit <- SomeLimits  NoneSet = Unset  MaxEdits = 3  MaxAdoptions = 2
  TextBytes <- SomeTextBytes  WordsOf <- SomeWords  OddTexts = {" "}  SetLimits <- SomeSetLimits
  MappingSpecs <- SomeMappings  RegexTable <- SomeRegexTable  NoCapture = Missing  KeyOrder <- SomeKeys  SourceTrees <- SomeTrees  SetContents <- SomeSetContents
  SetIds = {"s1", "s2"}  Protocols = {"oauth", "saml"}  TokenInputs <- SomeTokenInputs  ClaimDepth = 3  ClaimMembers = 25  StringBytes = 4  CustomLimit = 4  CustomBytes = 24
  CustomTotal = 40  MappingLimit = 3  NodeLimit = 4  PathBytes = 6  PatternTokens = {"(?:", ")", "]", "+", "["}  MaxPattern = 7  PatternLimit = 11  RegexRefused <- SomeRefused  GroupDepth = 2  QuantifierLimit = 2
  ScopeParts <- SomeScopeParts  ScopeLimits <- SomeScopeLimits  NoneOf = Unset  MaxRevision = 2
INVARIANT OccurrencesAccounted
INVARIANT ExchangeWithinPolicy
INVARIANT DecisionsSound
INVARIANT ServesItsConfiguration
INVARIANT ReplaySafe
INVARIANT CacheSound
INVARIANT TicketsSound
INVARIANT ChainSound
INVARIANT ShutdownTruthful
INVARIANT InvocationsTruthful
INVARIANT NoticeKept
INVARIANT HttpJobsExact
INVARIANT SettledIsComplete
INVARIANT GaugesTruthful
INVARIANT InvalidationHolds
INVARIANT HonestProofAccepted
INVARIANT ValidatedIsStable
INVARIANT IssuedReadsBack
 
PROPERTY DiskIsRegister
PROPERTY RemotePairSafe
PROPERTY HostsSafe
