SPECIFICATION Spec
CONSTANTS
  denyA = denyA
  allowA = allowA
  broken = broken
  a = a
  b = b
  op = op
  Sets <- MCSets
  Texts <- MCTexts
  Broken = {broken}
  Subject <- MCSubject
  Denies <- MCDenies
  Agents = {a}
  Operations = {op}
  SetAgent <- MCSetAgent
  Supported <- MCSets
  NoText = NoText
  NoSet = NoSet
  Requests = {r1}
  Toggles = {t1, t2}
  MaxEdits = 0
  MaxCrashes = 0
  MaxFails = 0
INVARIANT
  ToggleSurvivesRestart
