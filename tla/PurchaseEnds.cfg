SPECIFICATION FairSpec
CONSTANTS
  None = None
  Keep = Keep
  MaxPurchases = 1
  MaxShipments = 1
  SalesQuantities = {1, 2}
  Ready = {1}
  Headers <- PlainHeaders
  Asked = {"Cancelled"}
  Patched = {}
  Delivery = {}
  FromEnquiry = FALSE
  Workers = {w1, w2}
INVARIANTS
  EachWithinSales
PROPERTIES
  RequestsEnd
