SPECIFICATION Spec
CONSTANTS
  Keys = {a, b, c}
  None = none
  Pages = {1, 2}
  AWAKE_READERS = 1
  MaxUnderWay = 2
  MaxOpening = 1
  MaxTouched = 1
  LateFailures = FALSE
  SlowCloses = TRUE
  StrayDocuments = FALSE
SYMMETRY KeySymmetry
PROPERTY SettledBeforeClosed
CHECK_DEADLOCK FALSE
