SPECIFICATION MCSpec
CONSTANTS
  root = root
  desktop = desktop
  cli = cli
  claimDesktop = claimDesktop
  claimCli = claimCli
  Files = {f1}
  Claims = {claimDesktop, claimCli}
  Roots = {root}
  Agents = {desktop, cli}
  CallIds = {k1}
  Kinds <- MCKinds
  FileRoot <- MCFileRoot
  FileAgent <- MCFileAgent
  ClaimRoot <- MCClaimRoot
  ClaimAgent <- MCClaimAgent
  NoAgent = NoAgent
  NoFile = NoFile
  MaxLines = 4
  MaxCrashes = 1
  MaxFails = 1
  MaxReplaces = 0
  AuditFiles = {a1}
  AuditClaims = {mate, guest}
  AuditDirs = {d1}
  AuditDirOf <- MCAuditDirOf
  AuditEntries <- MCAuditEntries
  Unnamed = "unnamed"
  NoAudit = NoAudit
  MaxAuditLines = 2
  MaxAuditSwaps = 1
  MaxAuditFaults = 1
  CoworkLogs = {w1}
  Installs = {store, classic}
  Profiles = {p1}
  ProfileOf <- MCProfileOf
  CoworkEntries <- MCCoworkEntries
  NoLog = NoLog
  MaxCoworkLines = 2
  MaxCoworkSwaps = 1
  MaxLives = 2
  MaxCoworkFaults = 1
INVARIANTS
  OnlyTheFilesAgent
  
  NothingSkipped
  OncePerRun
  EventsAreReported
  TranscriptIsTold
PROPERTIES
  NoHistory
  AuditImplementsTail
  OnlyWatchedLines
