\* Liveness: two lights, two connections, one name typed, and either a fault or
\* up to two clicks.
CONSTANTS
  NBoxes = 2
  NStates = 2
  Devices = {"d1", "d2"}
  Names <- MCNames
  NoName = ""
  Junk = "?"
  EepromName <- MCEepromName
  InitLabel <- MCInitLabel
  InitBoxName <- MCInitBoxName
  TypedPlaces = {"cam 2"}
  TypedNames = {"cam1"}
  AcceptErrors = FALSE
  MaxConn = 2
  MaxFaults = 1
  MaxClicks = 2
  MaxEntries = 1
  MaxActs = 3
  Mixed = FALSE
SPECIFICATION FairSpec
CHECK_DEADLOCK FALSE
PROPERTIES
  LossNoticed
  Greeted
  RenameReturns
  DisplacedTold
