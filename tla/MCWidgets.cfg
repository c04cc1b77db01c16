\* Every sheet of up to two rules, or three of a few.  A sheet that throws ends the program:
\* CHECK_DEADLOCK FALSE.
CONSTANTS
  Ids <- MCIds
  Words <- MCWords
  Hash <- MCHash
  Within <- MCWithin
  Props = {"width", "height", "background-color"}
  Declares <- MCDecl
  Unreadable = {"background-color: red"}
  Screen = "win"
  Order <- MCOrder
  Buttons = {"btn"}
  Sheets <- MCSheets
  Unset <- MCUnset
  Terminals <- MCTerminals
SPECIFICATION Spec
CHECK_DEADLOCK FALSE
INVARIANTS
  TypeOK
  StyleAsWritten
  BackToNormal
  NeverAborts
