SPECIFICATION Spec
CONSTANTS
  Docs = {"p", "q"}
  None = none
  Tools = {"highlight", "pen"}
  PdfPages = {1}
  Annotations = {"high", "ink", "link"}
  AnnotationOf <- Boxes
  Points <- Places
  Nib = 1
  Scale = 12
  SessionPages = {1, 2}
  IdleTime = 3
  MinPageTime = 2
  MaxTime = 6
  MaxPosts = 2
  Pages = {1, 2, 3}
  Corners = {1, 2}
  MaxKept = 3
INVARIANTS PointerSettles TimeExact
PROPERTIES EraserExact ReportsGrow WalksAsBrowser
CHECK_DEADLOCK FALSE
