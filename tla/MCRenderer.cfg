\* The terminal is resized, and every element changes, at any time.
CONSTANTS
  Sizes <- MCSizes
  Looks = {off, live}
  TextLen = 1
SPECIFICATION Spec
SYMMETRY LooksAlike
INVARIANTS
  TypeOK
  CamerasTile
  ShowsFrame
