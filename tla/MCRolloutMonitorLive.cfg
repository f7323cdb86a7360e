SPECIFICATION FairSpec
CONSTANTS
  root = root
  desktop = desktop
  cli = cli
  claimDesktop = claimDesktop
  claimCli = claimCli
  Files = {f1}
  Claims = {claimDesktop, claimCli}
  Roots = {root}
  Agents = {desktop, cli}
  CallIds = {k1}
  Kinds <- MCTurnKinds
  FileRoot <- MCFileRoot
  FileAgent <- MCFileAgent
  ClaimRoot <- MCClaimRoot
  ClaimAgent <- MCClaimAgent
  NoAgent = NoAgent
  NoFile = NoFile
  MaxLines = 3
  MaxCrashes = 1
  MaxFails = 1
  MaxReplaces = 1
PROPERTIES
  ImplementsTail
  ActivityIsRead
