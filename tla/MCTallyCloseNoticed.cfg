\* A light that closes its connection is never declared dead.
CONSTANTS
  NBoxes = 2
  NStates = 2
  Devices = {"d1", "d2"}
  Names <- MCNames
  NoName = ""
  Junk = "?"
  EepromName <- MCEepromName
  InitLabel <- MCInitLabel
  InitBoxName <- MCInitBoxName
  TypedPlaces = {}
  TypedNames = {}
  AcceptErrors = FALSE
  MaxConn = 2
  MaxFaults = 1
  MaxClicks = 0
  MaxEntries = 0
  MaxActs = 2
  Mixed = TRUE
SPECIFICATION FairSpec
CHECK_DEADLOCK FALSE
PROPERTIES
  CloseNoticed
