SPECIFICATION MCSpec
CONSTANTS
  openclawJson = openclawJson
  handler = handler
  hookDir = hookDir
  Targets = {t1, t2}
  Files = {openclawJson, handler}
  Owned = {handler}
  Dirs = {hookDir}
  NoDir = NoDir
  InDir <- MCInDir
  HookDir <- MCHookDir
  Layout <- MCLayout
  NoTarget = NoTarget
  MaxMishaps = 2
  Documents <- MCDocuments
  Paragraphs <- MCParagraphs
  Relays <- MCRelays
  Missing = Missing
  MaxOutside = 1
  MaxFaults = 1
  HermesDocuments <- MCHermesDocuments
  YamlNames <- MCYamlNames
  MaxRewrites = 1
  MaxHermesFaults = 2
  HookEvents = {"PreToolUse", "Stop"}
  UserNames = {"a", "b", "c"}
  HookFiles <- MCHookFiles
  MaxHandEdits = 1
  MaxTroubles = 2
SYMMETRY MCSymmetry
CHECK_DEADLOCK FALSE
INVARIANTS
  CopiesOutliveManifest
  RestoredExactly
  PatchEndsWhole
  CodexTypeOK
  OperatorLinesStay
  LastSwitchHolds
  
  
  
PROPERTIES
  SwitchSettles
  UserHandlersStay
