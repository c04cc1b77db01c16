\* A click during a handshake: the light gets the new state, then the old.
CONSTANTS
  NBoxes = 2
  NStates = 2
  Devices = {"d1", "d2"}
  Names <- MCNames
  NoName = ""
  Junk = "?"
  EepromName <- MCEepromName
  InitLabel <- MCInitLabel
  InitBoxName <- MCInitBoxName
  TypedPlaces = {}
  TypedNames = {}
  AcceptErrors = FALSE
  MaxConn = 3
  MaxFaults = 1
  MaxClicks = 1
  MaxEntries = 0
  MaxActs = 2
  Mixed = TRUE
SPECIFICATION Spec
CHECK_DEADLOCK FALSE
INVARIANTS
  ShowsCurrent
