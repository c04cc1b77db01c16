\* Safety with everything on: two lights that may fail once, three
\* connections, a click or a new light placed by the user, accepting that may
\* fail.
CONSTANTS
  NBoxes = 2
  NStates = 2
  Devices = {"d1", "d2"}
  Names <- MCNames
  NoName = ""
  Junk = "?"
  EepromName <- MCEepromName
  InitLabel <- MCInitLabel
  InitBoxName <- MCInitBoxName
  TypedPlaces = {"cam 2"}
  TypedNames = {"alex", "cam1"}
  AcceptErrors = TRUE
  MaxConn = 3
  MaxFaults = 1
  MaxClicks = 1
  MaxEntries = 1
  MaxActs = 1
  Mixed = TRUE
SPECIFICATION Spec
CHECK_DEADLOCK FALSE
INVARIANTS
  TallyInv
  LookupsSafe
  OwnLines
  MarkTrue
  LinkedByName
PROPERTIES
  ImplementsRegistry
