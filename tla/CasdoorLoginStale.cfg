SPECIFICATION LoginSpec
CONSTANTS
  Connections = {c1, c2}
  NoConnection = NoConnection
  MaxSaves = 1
  MaxOutages = 1
CHECK_DEADLOCK FALSE
INVARIANT
  NoStaleSettings
