-------------------------------- MODULE MCRecords --------------------------------
(***************************************************************************)
(* Instance for TLC: components that share no row, so that a behaviour    *)
(* exercises one of them while the others rest.  Where what holds depends  *)
(* on it, a behaviour has its requests one at a time ("serial") or lets    *)
(* them race.                                                              *)
(***************************************************************************)
EXTENDS ContractShipments, AttendanceDay, AttendanceCorrections, FreightQuotes,
        TaskWork, Organisation, StockReports, QuoteLines, TLC

VARIABLE part

recordVars == <<vars, dayVars, correctionVars, freightVars, taskVars, orgVars,
                stockVars, lineVars, part>>

Parts == {"shipments", "quotes", "moving", "generating", "lines", "day serial", "day racing",
          "tasks serial", "tasks moving", "tasks racing",
          "corrections serial", "corrections racing", "staff serial", "units serial",
          "sheets serial", "copies serial", "scopes racing", "sheets racing"}

\* Entries with an id or a number: the number of those with an id is the position in the list,
\* and so would be that of an entry with neither.
IdOrNumber == {e \in Entries : e.id = None <=> e.no # None}

\* Rows get their ids in the order in which they are inserted.
IdsInOrder(ids, given) == \A i \in ids, j \in given : i < j => i \in given

RecordsInit ==
    /\ part \in Parts
    /\ Init /\ (part # "shipments" => lastId = 0)
    /\ DayInit
    /\ FreightInit
    /\ TasksInit
    /\ CorrectionsInit
    /\ OrgInit
    /\ StockInit
    /\ LinesInit
    /\ head.charge = CHOOSE charge \in Charges : TRUE
    /\ part # "lines" => ~head.direct /\ entered[1].rated

\* No request arrives while a job or another request is in progress.
SerialShipments ==
    \/ (\A w \in Workers : pc[w] = "idle") /\ Next
    \/ \E w \in Workers : Proceed(w) \/ Crash(w)
SerialDay ==
    \/ (\A w \in Runs : run[w] = NotRunning) /\ DayNext
    \/ \E w \in Runs : RunStep(w) \/ RunStops(w)
SerialTasks ==
    \/ (\A u \in Users : request[u] = NoRequest) /\ TasksNext
    \/ \E u \in Users : Resume(u) \/ FailRequest(u)

\* What each quote asks while quotes are moved.
Prices == CHOOSE price \in [Quotes -> Amounts] : \A q, r \in Quotes : price[q] = price[r] => q = r

\* Several quotes are changed and selected at once, moved between shipments and selected at once,
\* or a shipment is generated while the one quote is changed.  What a quote of no shipment costs
\* is charged nowhere, and may be any one amount.
NoneGenerates == \A w \in Handlers : handler'[w].at # "generate"
RacingQuotes ==
    /\ EnterQuote \/ \E w \in Handlers : HandlesQuote(w)
    /\ moved' = {} /\ NoneGenerates
    /\ \A q \in Quotes : quotes'[q] # Free /\ quotes'[q].shipment = NoId =>
         quotes'[q].amount = CHOOSE a \in Amounts : TRUE
MovingQuotes ==
    /\ EnterQuote \/ \E w \in Handlers : HandlesQuote(w)
    /\ Cardinality(moved') <= 1 /\ NoneGenerates
    /\ \A w \in Handlers : handler'[w].at # "delete"
    /\ \A q \in Quotes : quotes'[q] # Free => quotes'[q].amount = Prices[q]
RacingGenerations ==
    /\ FreightNext
    /\ moved' = {}
    /\ \A q, r \in Quotes : quotes'[q] # Free /\ quotes'[r] # Free => q = r

\* Races: punches and entries without a check-out with the jobs; creations and deletions of tasks,
\* or creations and the update that makes a first task of one subtask.  One at a time, tasks that
\* depend on each other, or one subtask that an update moves.
RacingDay ==
    \/ Tick \/ CheckIn \/ CheckOut
    \/ ManualAttendance /\ record'.out = NoTime
    \/ \E w \in Runs : RunStep(w) \/ RunStops(w)
Requesting(kinds) == \E u \in Users : request'[u].at \in kinds
MovingTasks == SerialTasks /\ ~Requesting({"walk"}) /\ Cardinality(rewritten') <= 1
DependingTasks == SerialTasks /\ ~Requesting({"rewrite"})
RacingTasks ==
    /\ TasksNext /\ UNCHANGED depends /\ ~Requesting({"walk"})
    /\ Requesting({"rewrite"}) \/ rewritten' # {} =>
         /\ Found' = Made' /\ ~Requesting({"hide", "destroy"})
         /\ Cardinality(rewritten') <= 1 /\ \A t \in rewritten' : tasks'[t].parent = NoTask

\* The one code an update may carry is that of the first task.
FirstCode == {<<1>>}

SerialCorrections ==
    \/ (\A k \in Clerks : desk[k] = NoPaper) /\ CorrectionsNext
    \/ \E k \in Clerks : WorkOn(k) \/ AbandonPaper(k)
SerialStaff ==
    \/ (\A q \in Editors : edit[q] = NoEdit) /\ StaffNext
    \/ \E q \in Editors : WriteManager(q) \/ Hire(q) \/ DropEdit(q)
SerialUnits ==
    \/ (\A q \in Editors : edit[q] = NoEdit) /\ UnitsNext
    \/ \E q \in Editors : WriteUnit(q) \/ DropEdit(q)

\* One report of one section, edited and published; sections copied, where what is in use does
\* not change; and at once: reports created, changed and removed, and one section edited.
ReportsOf(month) == \A r \in Summaries : summaries'[r] # Missing => summaries'[r].month = month
OneReport == ReportsOf(1) /\ \A r, s \in Summaries : summaries'[r] # Missing /\ summaries'[s] # Missing => r = s
OneSection == \A s, t \in Sections : sections'[s] # Undrawn /\ sections'[t] # Undrawn => s = t
AllDrafts == \A r \in Summaries : summaries'[r] # Missing => summaries'[r].status = "Draft"
Plain(table) == \A i \in DOMAIN table : table[i] # Undrawn => table[i].form = CHOOSE form \in Forms : TRUE
PlainSheets == Plain(sections') /\ Plain(columns') /\ Plain(sheetRows')
KeepsRows(table, next) == \A i \in DOMAIN table : table[i] # Undrawn => next[i] = table[i]
FirstAuthor == CHOOSE k \in Authors : TRUE
Begins(k) == (author[k] = Unbusy) /\ (FindMonth(k) \/ AssertEditable(k))
SerialSheets ==
    /\ \/ Begins(FirstAuthor) \/ LoadToPublish(FirstAuthor)
       \/ author[FirstAuthor] # Unbusy /\ (Filing(FirstAuthor) \/ AssertEditable(FirstAuthor) \/ Drawing(FirstAuthor)
                                              \/ GiveUp(FirstAuthor))
    /\ author'[FirstAuthor].at # "copy"
    /\ OneReport /\ OneSection /\ PlainSheets
SerialCopies ==
    /\ \/ Begins(FirstAuthor)
       \/ Filing(FirstAuthor) \/ AddSection(FirstAuthor) \/ AddColumn(FirstAuthor) \/ SaveSection(FirstAuthor)
       \/ Duplicate(FirstAuthor) \/ Transcribing(FirstAuthor)
    /\ AllDrafts /\ KeepsRows(sections, sections') /\ KeepsRows(columns, columns') /\ KeepsRows(sheetRows, sheetRows')
    /\ Plain(sections') /\ Plain(sheetRows')
    /\ author'[FirstAuthor].at = "edit" => author'[FirstAuthor].summary = 1
    /\ Cardinality(strays') <= 1 /\ Cardinality(DOMAIN cells') <= 3
RacingScopes ==
    /\ \E k \in Authors : Turning(k) \/ Filing(k) \/ GiveUp(k)
    /\ AllDrafts
    /\ \A k \in Authors : author'[k].at = "update" => author'[k].summary = 1 /\ author'[k].status = "Draft"
RacingSheets ==
    /\ \E k \in Authors : Begins(k) \/ Filing(k) \/ AddSection(k) \/ ChangeColumn(k) \/ SaveSection(k)
    /\ OneReport /\ OneSection /\ AllDrafts /\ PlainSheets /\ Cardinality(FreeIds(columns)') >= 1
    /\ summaries = [r \in Summaries |-> Missing] => \A k \in Authors \ {FirstAuthor} : author'[k] = Unbusy

ShippingRests == UNCHANGED vars
AttendingRests == UNCHANGED <<dayVars, correctionVars>>
QuotingRests == UNCHANGED <<freightVars, lineVars>>
ReportsRest == UNCHANGED stockVars
OfficeRests == UNCHANGED <<taskVars, orgVars>>

Shipping(A) == A /\ AttendingRests /\ QuotingRests /\ ReportsRest /\ OfficeRests
Attending(A) == A /\ UNCHANGED correctionVars /\ ShippingRests /\ QuotingRests /\ ReportsRest /\ OfficeRests
Correcting(A) == A /\ UNCHANGED dayVars /\ ShippingRests /\ QuotingRests /\ ReportsRest /\ OfficeRests
                   /\ IdsInOrder(Corrections, {c \in Corrections : corrections'[c] # "unasked"})
Quoting(A) == A /\ UNCHANGED lineVars /\ ReportsRest /\ ShippingRests /\ AttendingRests /\ OfficeRests
                /\ IdsInOrder(Quotes, {q \in Quotes : quotes'[q] # Free})
                /\ IdsInOrder(Generated, DOMAIN generated')
Itemising(A) == A /\ UNCHANGED freightVars /\ ReportsRest /\ ShippingRests /\ AttendingRests /\ OfficeRests
InOffice(A) == A /\ ShippingRests /\ AttendingRests /\ QuotingRests /\ ReportsRest
Working(A) == InOffice(A) /\ UNCHANGED orgVars /\ IdsInOrder(Tasks, Made')
Organising(A) == InOffice(A) /\ UNCHANGED taskVars
Reporting(A) == A /\ ShippingRests /\ AttendingRests /\ QuotingRests /\ OfficeRests

RecordsNext ==
    /\ \/ part = "shipments" /\ Shipping(SerialShipments)
       \/ part = "quotes" /\ Quoting(RacingQuotes)
       \/ part = "moving" /\ Quoting(MovingQuotes)
       \/ part = "generating" /\ Quoting(RacingGenerations)
       \/ part = "lines" /\ Itemising(LinesNext)
       \/ part = "day serial" /\ Attending(SerialDay)
       \/ part = "day racing" /\ Attending(RacingDay)
       \/ part = "corrections serial" /\ Correcting(SerialCorrections)
       \/ part = "corrections racing" /\ Correcting(CorrectionsNext)
       \/ part = "tasks serial" /\ Working(DependingTasks)
       \/ part = "tasks moving" /\ Working(MovingTasks)
       \/ part = "tasks racing" /\ Working(RacingTasks)
       \/ part = "staff serial" /\ Organising(SerialStaff)
       \/ part = "units serial" /\ Organising(SerialUnits)
       \/ part = "sheets serial" /\ Reporting(SerialSheets)
       \/ part = "copies serial" /\ Reporting(SerialCopies)
       \/ part = "scopes racing" /\ Reporting(RacingScopes)
       \/ part = "sheets racing" /\ Reporting(RacingSheets)
    /\ UNCHANGED part

RecordsSpec == RecordsInit /\ [][RecordsNext]_recordVars

In(parts) == part \in parts

\* The types of all components, each where it is exercised, and what ContractShipments says of
\* its rows.
AllRowsSound ==
    /\ In({"shipments"}) => RowsSound
    /\ In({"quotes", "moving", "generating"}) => FreightTypeOK
    /\ In({"lines"}) => LinesTypeOK
    /\ In({"day serial", "day racing"}) => DayTypeOK
    /\ In({"corrections serial", "corrections racing"}) => CorrectionsTypeOK
    /\ In({"tasks serial", "tasks moving", "tasks racing"}) => TasksTypeOK
    /\ In({"staff serial", "units serial"}) => OrgTypeOK
    /\ In({"sheets serial", "copies serial", "scopes racing", "sheets racing"}) => StockTypeOK

\* A shipment has one preferred quote and its price, one shipment is generated, and a quote has
\* the lines of one edit, its own as far as requests about it do not meet; whoever races, a cell
\* of a stock report stands where a row meets a column of its section, and a report has
\* countries; serially it has them once, and a copied section is complete.
LogisticsSettled ==
    /\ In({"quotes", "moving", "generating"}) => OnePreferred /\ ChargedAsPreferred /\ GeneratedOnce
    /\ In({"lines"}) => HeadMatchesLines /\ LinesOfOneEdit
    /\ In({"sheets serial", "copies serial", "sheets racing"}) => CellsPlaced
    /\ In({"sheets serial", "copies serial", "scopes racing"}) => ScopeKept
    /\ In({"sheets serial", "copies serial"}) => ScopeOnce
    /\ In({"copies serial"}) => CopyComplete

\* An update of shipments writes its list and keeps the rows that are referred to.
WrittenAsMeant ==
    [][In({"shipments"}) => ReferencedKept /\ ListIsWritten]_recordVars

\* Whoever races, a closed day has its time, but for an entry, and an approved correction is
\* applied once; serially a day's session, times and breaks agree, and one correction is pending.
DayInOrder ==
    /\ In({"day serial", "day racing"}) => ClosedHasTime
    /\ In({"day serial"}) => Sessions
    /\ In({"corrections serial", "corrections racing"}) => AppliedOnce
    /\ In({"corrections serial"}) => OnePending

\* Sequence numbers of tasks are unique whoever races; serially codes are, nothing depends on
\* itself, nobody reports to himself and no unit is part of itself.
TreesOrdered ==
    /\ In({"tasks serial", "tasks moving", "tasks racing"}) => NumbersUnique
    /\ In({"tasks serial", "tasks moving"}) => CodesUnique
    /\ In({"tasks serial"}) => Acyclic
    /\ In({"staff serial"}) => ReportingEnds
    /\ In({"units serial"}) => UnitsEnd
=============================================================================
