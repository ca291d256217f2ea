SPECIFICATION Spec
CONSTANTS
  Items = {"a", "b"}
  Tags = {"t", "u"}
  Topics = {"u"}
  Cap = 5
  Facts <- PaperFacts
  None = None
  w1 = w1
  w2 = w2
  Windows = {w1, w2}
  Searches <- MCSearches
  StartMade = 3
  MaxAsks = 2
  MaxFaults = 1
  MaxFocus = 1
  FormItems = {"a", "b"}
  TypesWhileSaving = FALSE
  MaxActs = 6
  MaxDialogs = 2
  Columns <- TableColumns
  Shown = {"title", "authors"}
  LockedColumn = "title"
  Keys = {"ctrl+f", "ctrl+w", "ctrl+tab", "ctrl+enter", "ctrl+delete", "enter"}
  Bound <- KeyOf
  OpenKeys = {"enter", "ctrl+enter"}
  DeleteKeys = {"ctrl+delete"}
  Recordable = {"ctrl+f", "ctrl+w", "ctrl+tab", "ctrl+enter", "ctrl+delete"}
  MergeGap = 2
  NoAction = NoAction
  Nothing = Nothing
INVARIANTS FilingSound StaleIsTold RequestsAccount ViewsExact
PROPERTIES NeverBack SelectionsExact UnsavedKept
SYMMETRY Perms
CHECK_DEADLOCK FALSE
