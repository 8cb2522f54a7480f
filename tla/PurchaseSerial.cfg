SPECIFICATION Spec
CONSTANTS
  None = None
  Keep = Keep
  MaxPurchases = 2
  MaxShipments = 2
  SalesQuantities = {1, 2}
  Ready = {1}
  Headers <- ChangedHeader
  Asked = {"Draft", "In Progress", "Cancelled"}
  Patched = {}
  Delivery = {"Scheduled"}
  FromEnquiry = FALSE
  Workers = {w1}
INVARIANTS
  RecordsSound
PROPERTIES
  NeverOverbooks
