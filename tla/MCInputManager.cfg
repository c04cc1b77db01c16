\* 'q' ends the program: CHECK_DEADLOCK FALSE.  The escape key may be pressed,
\* so any byte may end up in the queue.
CONSTANTS
  Input = Input
  Main = Main
  Threads = {Input, Main}
  Items = {65, 97, 91, 77, 32, 35, 67, 34, 113}
  NoItem = 0
  MaxPushed = 0
  Keys = {97, 113}
  OtherKeys <- MCOtherKeys
  EscapeKey = TRUE
  Buttons = {32, 35, 67}
  Positions <- MCPositions
  MaxEvents = 3
SPECIFICATION FairSpec
CHECK_DEADLOCK FALSE
INVARIANTS
  TypeOK
  TickNeverThrows
  KeysInOrder
  ReportWhole
  QuitTidies
PROPERTIES
  KeysSeen
  MouseSettles
