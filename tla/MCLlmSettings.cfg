SPECIFICATION Spec
CONSTANTS
  shared = shared
  Providers = {p, q}
  Keys = {k}
  NoKey = NoKey
  NoProfile = NoProfile
  Installs = {cli}
  Default = Default
  NoInstall = NoInstall
  NoPage = NoPage
  Configs = {shared}
  ConfigOf <- MCConfigOf
  code = code
  Agents = {code}
  AgentOf <- MCAgentOf
  Pages = {g1}
  Hookers = {h1}
  MaxFails = 2
  MaxCrashes = 1
SYMMETRY MCSymmetry
INVARIANTS
  TypeOK
  MemoryIsSaved
  ActiveProvidersExist
  SwitchesAreRecorded
PROPERTY
  KeysKept
