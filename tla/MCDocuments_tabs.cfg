SPECIFICATION Spec
CONSTANTS
  Keys = {a, b, c}
  None = none
  Pages = {1, 2}
  AWAKE_READERS = 1
  MaxUnderWay = 2
  MaxOpening = 1
  MaxTouched = 1
  LateFailures = FALSE
  SlowCloses = FALSE
  StrayDocuments = FALSE
SYMMETRY KeySymmetry
INVARIANTS TabsSound
PROPERTIES FocusKeptShown SettledBeforeClosed SleepsWhereItWas
CHECK_DEADLOCK FALSE
