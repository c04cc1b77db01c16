\* The terminal after q: it no longer echoes what is typed.
CONSTANTS
  Input = Input
  Main = Main
  Threads = {Input, Main}
  Items = {65, 97, 91, 77, 32, 35, 67, 34, 113}
  NoItem = 0
  MaxPushed = 0
  Keys = {97, 113}
  OtherKeys <- MCOtherKeys
  EscapeKey = TRUE
  Buttons = {32, 35, 67}
  Positions <- MCPositions
  MaxEvents = 1
SPECIFICATION Spec
CHECK_DEADLOCK FALSE
INVARIANTS
  TerminalRestored
