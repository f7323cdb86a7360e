SPECIFICATION CodexSpec
CONSTANTS
  Documents <- MCDocuments
  Paragraphs <- MCRemarks
  Relays <- MCRelays
  Missing = Missing
  MaxOutside = 1
  MaxFaults = 1
CHECK_DEADLOCK FALSE
INVARIANT
  EveryCommentStays
