SPECIFICATION FairSpec
CONSTANTS
  None = None
  Requests = {r1}
  Workers = {w1, w2}
  Days = {1}
  Spans <- One
  Allocations = {2}
  Marks = {"ON_LEAVE", "ABSENT"}
  Asked = {"applyLeave", "approveLeave", "recalculateSingleLeave", "manualAttendance", "checkIn"}
  MaxEvents = 1
PROPERTIES
  RequestsEnd
  DaysCatchUp
