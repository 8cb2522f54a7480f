SPECIFICATION FairSpec
CONSTANTS
  None = None
  Enquiries = {e1}
  Contracts = {c1}
  Purchases = {}
  Workers = {w1, w2}
PROPERTIES
  RequestsEnd
