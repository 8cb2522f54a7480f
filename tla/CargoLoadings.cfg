SPECIFICATION Spec
CONSTANTS
  None = None
  Loadings = {l1, l2}
  Workers = {w1, w2}
  Quantities = {1}
  Updates <- Steps
  Stuffings <- Saves
  Edits = {"Scheduled", "Executed"}
  Asked = {"createLoading", "updateLoadingStatus", "saveStuffingExecution", "update", "ensureExecutionRecords"}
  MaxCrashes = 0
SYMMETRY Symmetry
INVARIANTS
  RowsSound
PROPERTIES
  UpdatesFit
  StatusInOrder
