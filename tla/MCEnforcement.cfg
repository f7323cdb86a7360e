SPECIFICATION MCSpec
CONSTANTS
  denyA = denyA
  allowA = allowA
  broken = broken
  a = a
  b = b
  op = op
  t2 = t2
  Sets <- MCSets
  Texts <- MCTexts
  Broken = {broken}
  Subject <- MCSubject
  Denies <- MCDenies
  Agents = {a, b}
  Operations = {op}
  SetAgent <- MCSetAgent
  Supported <- MCSets
  NoText = NoText
  NoSet = NoSet
  Requests = {r1}
  Toggles = {t1, t2}
  MaxEdits = 1
  MaxCrashes = 2
  MaxFails = 1
CHECK_DEADLOCK FALSE
INVARIANTS
  TypeOK
  DenyIsJustified
  GuardHolds
  SavedWhenApart
