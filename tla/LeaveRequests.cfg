SPECIFICATION Spec
CONSTANTS
  None = None
  Requests = {r1, r2}
  Workers = {w1, w2}
  Days = {1, 2}
  Spans <- Two
  Allocations = {4, 2}
  Marks = {"ON_LEAVE", "PRESENT"}
  Asked = {"applyLeave", "approveLeave", "rejectLeave", "cancelLeave", "cancelApprovedLeave", "recalculateSingleLeave"}
  MaxEvents = 1
SYMMETRY Symmetry
INVARIANTS
  BalanceAccounted
  NeverOverdrawn
  NoOverlap
PROPERTIES
  ImplementsLedger
