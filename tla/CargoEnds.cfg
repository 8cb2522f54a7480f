SPECIFICATION FairSpec
CONSTANTS
  None = None
  Loadings = {l1, l2}
  Workers = {w1, w2}
  Quantities = {1}
  Updates <- OneStep
  Stuffings <- OneJob
  Edits = {"Executed"}
  Asked = {"createLoading", "updateLoadingStatus", "saveStuffingExecution", "syncExecutedShipmentLoadings"}
  MaxCrashes = 1
PROPERTIES
  RequestsEnd
