SPECIFICATION Spec
CONSTANTS
  Order <- PlatformOrder
  Lines = {"l1", "l2"}
  FlatMods = {0, 1, 2}
  MaxInstalls = 3
  MaxFailures = 1
  Editors = {e1}
  Blocks = {"skins", "sink"}
  Adapters = {"a1", "a2"}
  Default <- SmallDefaults
  WithSecret = {"a1", "a2"}
  Required = {"a2"}
  MaxStaged = 1
  MaxSaved = 2
  Requests = {c1, c2}
  TokenIds = {k1, k2}
  Secrets = {s1, s2, s3}
  RecheckInterval = 1
  TokenTTL = 2
  LinkTTL = 1
  ConsoleTTL = 1
  IdleTimeout = 1
  MaxTerminals = 1
  MaxControlClock = 3
  Pushers = {c1, c2}
  Digests = {"x", "y"}
  Content <- SmallContent
  Drafts <- SmallDrafts
  UploadLimit = 2
  MaxPushes = 3
  MaxUploadTrouble = 2
  BackupTasks = {c1, c2}
  SourceOrder <- SourcesListed
  Databases = {"db"}
  Targets = {"t"}
  MaxFilePages = 1
  MaxPages = 2
  MaxPageWrites = 2
  MaxBackups = 3
  Processes = {c1, c2}
  MaxStarts = 3
  MaxKills = 2
  ConsoleBuilds = {b1}
  MinecraftVersions = {"m1", "m2"}
  LoaderNames = {"forge"}
  LoaderVersions <- SmallLoaders
  Recipes <- SmallRecipes
  PlayerRows <- SmallRows
  SecretCommands = {"secret"}
  OpenCommands = {"open"}
  GamePlatforms = {"w"}
  MaxRequests = 3
  MaxPending = 2
  MaxExecuting = 1
  ModuleFiles <- TwoModules
  Gives <- TwoGive
  Builtin <- OwnProviders
  Configured <- WantedProviders
  Publishers = {c1, c2}
  QueueSize = 1
  MaxEvents = 2
  Loggers = {c1, c2}
  Followers = {f1}
  RingSize = 2
  ChannelSize = 1
  Backscroll = 2
  FileLines = 1
  Keep = 1
  MaxAge = 1
  MaxLines = 4
  MaxStamp = 2
  MaxDiskErrors = 1
  Updaters = {c1, c2}
  Releasers = {p1}
  Readers = {r1, r2}
  MaxVersion = 2
  MaxTrouble = 2
  MediaCalls = {c1, c2}
  URLs = {ua, ub}
  Pictures = {1, 2}
  Bytes <- PictureSizes
  MirrorTotal = 2
  MirrorURLs = 1
  MirrorTTL = 1
  NewsTTL = 1
  AnswerTime = 1
  MaxMediaClock = 3
  MaxChanges = 1
  MaxOutages = 1
SYMMETRY Permuted
CHECK_DEADLOCK FALSE
INVARIANTS PlatformsWhole SecretsStay ShutOut FilesWhole ServerReachable ModulesHeard LinesReach UpdatesSafe
PROPERTIES ConsoleFaithful MediaHonest
