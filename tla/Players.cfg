SPECIFICATION Spec
CONSTANTS
  SessionCalls = {c1, c2}
  Sids = {s1}
  MaxPair = 3
  AccessTTL = 1
  RefreshTTL = 2
  SubjectTTL = 1
  MaxCachedTokens = 1
  CallTime = 1
  MaxClock = 3
  SignCalls = {c1, c2}
  Addresses = {a1}
  Users = {u1}
  LoginLimit = 2
  AccountLimit = 1
  WindowLength = 1
  MaxCount = 4
  MaxTick = 2
  CodeUsers = {u1, u2}
  CodeUses = 2
  MaxPeriod = 3
  AccessCalls = {c1, c2}
  AccessPlayers = {u1}
  Rules <- SmallRules
  CacheTTL = 1
  ErrorTTL = 1
  FileStatInterval = 2
  FetchTime = 1
  MaxCachedEntries = 1
  MaxEdits = 2
  MaxAccessClock = 3
  Checks = {c1, c2}
  Commands = {o1}
  Subjects = {u1}
  Reports <- SmallReports
  MinScore = 45
  MinKinds = 2
  ClusterScore = 25
  FanOutLimit = 25
  MaxClusterSize = 1
  ConfirmThreshold = 0
  MaxMachines = 2
  MaxBans = 1
  GameCalls = {c1, c2}
  GamePlayers = {u1}
  GameServers = {g1}
  GameTTL = 1
  JoinTTL = 1
  MaxLiveRecords = 1
  MaxGameToken = 3
  MaxGameClock = 2
  Tasks = {c1, c2}
  Names = {u1, u2}
  Passwords = {1}
  MaxWrites = 2
  TicketCalls = {c1, c2}
  TicketUsers = {u1, u2}
  ChallengeTTL = 2
  TicketTTL = 1
  MaxChallenges = 1
  SecretOnDisk = TRUE
  MaxNonces = 2
  MaxSecrets = 2
  MaxTicketClock = 2
  CrashCalls = {r1}
  CrashPlayers = {u1}
  CrashAddresses = {a1}
  Safe <- SafeName
  Hour = 3
  MaxPerHour = 2
  AnonymousPerHour = 1
  AcceptsAnonymous = TRUE
  RemoteSinks = 1
  MaxReports = 5
  MaxCrashClock = 4
SYMMETRY Permuted
CHECK_DEADLOCK FALSE
INVARIANTS TokensSound RemovedLosesAccess MachinesHold SignOutFinal CommandKeepsTheRest EntryTraced LimitsHold
PROPERTIES NoOlderCode
