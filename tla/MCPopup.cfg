\* 'q' ends the program: CHECK_DEADLOCK FALSE.
CONSTANTS
  NBoxes = 2
  Chars = {112}
  InitLabel <- MCInitLabel
  InitName <- MCInitName
  LightNames <- MCLightNames
  MaxKeys = 4
  MaxWaiting = 1
  MaxLights = 2
SPECIFICATION Spec
CHECK_DEADLOCK FALSE
INVARIANTS
  TypeOK
  SelectedIsRed
  TextAsTyped
  DialogForOneLight
