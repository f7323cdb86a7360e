SPECIFICATION MCSpec
CONSTANTS
  QueueDepth = 2
  Guarded = FALSE
  MaxMessages = 3
  Ruled = {r1}
  Logged = {r2}
  Operators = {u1, u2}
  Requests = {q1, q2, q3}
  EmployeeSets = {s1}
  NoSet = NoSet
  MaxMisses = 1
  Connections = {c1, c2}
  NoConnection = NoConnection
  MaxSaves = 2
  MaxOutages = 2
  p1 = p1
  p2 = p2
  k2 = k2
  NoPdp = NoPdp
  Clients = {k1, k2}
  Posters = {o1, o2}
  Intents <- MCIntents
  Policies <- MCPolicies
  Intercepts <- MCIntercepts
  MaxRevisions = 2
  MaxUpsets = 1
CHECK_DEADLOCK FALSE
INVARIANTS
  McpTypeOK
  
  LessonsAgree
  LoginIsCurrent
  VerdictHasGrounds
  PolicyIsSaved
PROPERTIES
  SessionGoesOn
  LoginReturns
  ConnectionTakesEffect
