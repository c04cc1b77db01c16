\* A light that dies during its first heartbeat is placed unmarked.
CONSTANTS
  NBoxes = 2
  NStates = 2
  Devices = {"d1", "d2"}
  Names <- MCNames
  NoName = ""
  Junk = "?"
  EepromName <- MCEepromName
  InitLabel <- MCInitLabel
  InitBoxName <- MCInitBoxName
  TypedPlaces = {}
  TypedNames = {}
  AcceptErrors = FALSE
  MaxConn = 3
  MaxFaults = 1
  MaxClicks = 0
  MaxEntries = 0
  MaxActs = 2
  Mixed = TRUE
SPECIFICATION Spec
CHECK_DEADLOCK FALSE
INVARIANTS
  DeadIsMarked
