SPECIFICATION RecordsSpec
CONSTANTS
  Carriers = {r1, r2}
  Charges = {7, 8}
  MaxEdits = 3
  Authors = {e1, e2}
  Summaries = {1, 2}
  Sections = {1, 2, 3}
  Columns = {1, 2, 3}
  SheetRows = {1, 2}
  Months = {1, 2}
  Forms = {"f", "g"}
  Figures = {5}
  MaxLists = 2
  Clerks = {k1, k2}
  Corrections = {1, 2}
  Unheld = Unheld
  Editors = {q1}
  Staff = {1, 2, 3}
  Units = {1, 2, 3}
  MaxDepth = 2
  NoOne = NoOne
  None = None
  MaxIds = 3
  MaxLength = 2
  TemporaryBase = 100
  CancelledBase = 90
  Workers = {w1}
  Sent <- IdOrNumber
  HeaderChanges = {TRUE}
  Referrers = {"cargo"}
  Runs = {run1}
  NoTime = NoTime
  BreakStart = 1
  BreakEnd = 2
  EndWindow = 1
  ShiftEnd = 3
  Threshold = 4
  Midnight = 5
  Day = 8
  LastInstant = 14
  NightRuns = {6, 14}
  MinAge = 1
  Stated = {2}
  NightAge = 5
  MaxBreaks = 4
  Handlers = {h1, h2}
  Shipments = {s1}
  Generated = {1, 2}
  Quotes = {1, 2}
  Amounts = {5, 6}
  NoId = NoId
  Users = {u1, u2}
  Tasks = {1, 2, 3}
  TemplateItems = {1}
  CodesSent <- FirstCode
  NoTask = NoTask
INVARIANTS
  AllRowsSound
  DayInOrder
  
  TreesOrdered
PROPERTIES
  WrittenAsMeant
CHECK_DEADLOCK FALSE
