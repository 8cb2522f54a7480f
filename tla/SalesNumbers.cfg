SPECIFICATION MCSpec
CONSTANTS
  None = None
  agri = agri
  b1 = b1
  Keep = Keep
  InitialSequence <- FirstSequences
  Workers = {w1, w2}
  Contracts = {c1, c2}
  Enquiries = {e1}
  AutoSellers = {agri}
  Initialled = {agri}
  Buyers = {b1, b2}
  Typed <- TypedAhead
  Changes <- SingleChanges
  Asked = {"Draft"}
SYMMETRY ContractSymmetry
INVARIANTS
  SequencesAdvance
  SequencesTold
