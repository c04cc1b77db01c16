\* Three checkboxes with the three states of main.cpp.
CONSTANTS
  NBoxes = 3
  NStates = 3
  Hits <- MCHits
  HoverRules <- MCHoverRules
  ActiveRules <- MCActiveRules
SPECIFICATION FairSpec
INVARIANTS
  TypeOK
  ExclusiveStates
  FrameSettled
  StyleShowsState
PROPERTIES
  StateHandedOver
  ChangesReported
  QuietMouseQuietGroup
