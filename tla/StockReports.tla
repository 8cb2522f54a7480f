------------------------------- MODULE StockReports -------------------------------
(***************************************************************************)
(* Monthly stock summaries: a report per month, its sections, the columns  *)
(* and rows of a section, and the cells where they meet.  Drafts are       *)
(* edited, copied, published and deleted; a request that addresses a       *)
(* published report to edit it is refused.                                 *)
(*                                                                         *)
(* A request first loads the report and tests that it is a draft, then     *)
(* writes, mostly in statements of their own; a section is saved as a      *)
(* whole in one transaction.  Summaries, sections and rows are deleted     *)
(* softly, columns for good, and their cells with them.                    *)
(*                                                                         *)
(* Left out: titles, years, users, companies and the test for a second     *)
(* column of one name.  A name, an order or a layout is a form, and the    *)
(* countries of a report come as a list.  A section is added with one      *)
(* column, and a copied row with its cells, in one step.  What a page      *)
(* shows may be gone.  A save gives what it names one form, adds at most   *)
(* one row and one column, and fills at most one cell.                     *)
(***************************************************************************)
EXTENDS Naturals, FiniteSets, Functions

CONSTANTS Authors,    \* requests that may overlap
          Summaries, Sections, Columns, SheetRows,   \* their ids
          Months,
          Forms,      \* what else an editor can change of a section, column or row
          Figures,    \* values of cells
          MaxLists    \* bound on the lists of countries a report can collect

\* Ids are serial numbers, which start at 1.
ASSUME StockAssumption ==
  /\ Summaries \union Sections \union Columns \union SheetRows \subseteq Nat \ {0}
  /\ MaxLists \in Nat /\ Authors # {}

VARIABLES summaries, sections, columns, sheetRows,   \* the rows of the tables
          cells,      \* values of [row, column]
          scopes,     \* per summary, the lists of countries it has
          author,     \* per request: its next statement and what it has read
          cutOff,     \* history: summaries whose countries were not written
          strays      \* history: cells a save has put in a column of another section

stockVars == <<summaries, sections, columns, sheetRows, cells, scopes, author, cutOff, strays>>

Missing == [status |-> "missing"]
Summary == [status : {"Draft", "Published"}, month : Months, live : BOOLEAN]
Section == [of : Summaries, form : Forms, live : BOOLEAN]
SheetColumn == [of : Sections, form : Forms, live : BOOLEAN]   \* live: not deleted, so still a row
SheetRow == [of : Sections, form : Forms, live : BOOLEAN]
Undrawn == [of |-> 0, live |-> FALSE]

Filed == {r \in Summaries : summaries[r] # Missing /\ summaries[r].live}
Drafts == {r \in Filed : summaries[r].status = "Draft"}
MonthTaken(month) == \E r \in Filed : summaries[r].month = month
SectionsOf(r) == {s \in Sections : sections[s].of = r /\ sections[s].live}
ColumnsOf(s) == {c \in Columns : columns[c].of = s /\ columns[c].live}
RowsOf(s) == {w \in SheetRows : sheetRows[w].of = s /\ sheetRows[w].live}
CellsOf(s) == {p \in DOMAIN cells : p[1] \in RowsOf(s) /\ p[2] \in ColumnsOf(s)}

\* What a copy takes of a section that was loaded: no cell in a column of another one.
Loaded(s) == [form |-> sections[s].form,
              columns |-> [c \in ColumnsOf(s) |-> columns[c].form],
              rows |-> [w \in RowsOf(s) |-> sheetRows[w].form],
              cells |-> Restrict(cells, CellsOf(s))]

\* A request about to copy sections into report r, all loaded at once.
Copying(r, copied) ==
  [at |-> "copy", summary |-> r, todo |-> [s \in copied |-> Loaded(s)], to |-> 0,
   from |-> [columns |-> <<>>, rows |-> <<>>], columnMap |-> <<>>, rowMap |-> <<>>]

Unbusy == [at |-> "idle"]
Writes(k, next) == author' = [author EXCEPT ![k] = next]
Rests(k) == Writes(k, Unbusy)

\* Ids are given in order; a table that is full bounds the instance.
FreeIds(table) == {i \in DOMAIN table : table[i] \in {Missing, Undrawn}}
NextId(table) == CHOOSE i \in FreeIds(table) : \A j \in FreeIds(table) : i <= j

-----------------------------------------------------------------------------
\* The report: create, update, publish and remove.

FindMonth(k) ==
  /\ author[k] = Unbusy
  /\ \E month \in Months, source \in Filed \union {0} :
       ~MonthTaken(month) /\ Writes(k, [at |-> "insert", month |-> month, source |-> source])
  /\ UNCHANGED <<summaries, sections, columns, sheetRows, cells, scopes, cutOff, strays>>

\* A second report for the month violates the unique index.
InsertSummary(k) ==
  /\ author[k].at = "insert"
  /\ \/ MonthTaken(author[k].month) /\ Rests(k) /\ UNCHANGED summaries
     \/ /\ ~MonthTaken(author[k].month) /\ FreeIds(summaries) # {}
        /\ \E status \in {"Draft", "Published"} :
             summaries' = [summaries EXCEPT ![NextId(summaries)] =
                             [status |-> status, month |-> author[k].month, live |-> TRUE]]
        /\ Writes(k, [at |-> "countries", summary |-> NextId(summaries), source |-> author[k].source])
  /\ UNCHANGED <<sections, columns, sheetRows, cells, scopes, cutOff, strays>>

\* The countries; a new report may then become a copy of what another one holds now.
InsertCountries(k) ==
  /\ author[k].at = "countries"
  /\ LET r == author[k].summary
         source == author[k].source
         copied == IF source \in Filed THEN SectionsOf(source) ELSE {}
     IN /\ scopes[r] < MaxLists
        /\ scopes' = [scopes EXCEPT ![r] = @ + 1]
        /\ IF copied = {} THEN Rests(k) ELSE Writes(k, Copying(r, copied))
  /\ UNCHANGED <<summaries, sections, columns, sheetRows, cells, cutOff, strays>>

LoadSummary(k) ==
  /\ author[k] = Unbusy
  /\ \E r \in Drafts, month \in Months, status \in {"Draft", "Published"},
        countries \in {"kept", "none", "given"} :
       /\ month = summaries[r].month \/ ~MonthTaken(month)
       /\ Writes(k, [at |-> "update", summary |-> r, row |-> summaries[r],
                     month |-> month, status |-> status, countries |-> countries])
  /\ UNCHANGED <<summaries, sections, columns, sheetRows, cells, scopes, cutOff, strays>>

LoadToPublish(k) ==
  /\ author[k] = Unbusy
  /\ \E r \in Drafts :
       Writes(k, [at |-> "update", summary |-> r, row |-> summaries[r], month |-> summaries[r].month,
                  status |-> "Published", countries |-> "kept"])
  /\ UNCHANGED <<summaries, sections, columns, sheetRows, cells, scopes, cutOff, strays>>

\* Sequelize writes the columns that differ from the loaded row.  That no country was given is
\* found only after the report is saved.
SaveSummary(k) ==
  /\ author[k].at = "update"
  /\ LET d == author[k]
         now == summaries[d.summary]
         saved == [now EXCEPT !.month = IF d.month = d.row.month THEN @ ELSE d.month,
                              !.status = IF d.status = d.row.status THEN @ ELSE d.status]
     IN IF now.live /\ \E r \in Filed \ {d.summary} : summaries[r].month = saved.month
        THEN Rests(k) /\ UNCHANGED summaries
        ELSE /\ summaries' = [summaries EXCEPT ![d.summary] = saved]
             /\ IF d.countries = "given" THEN Writes(k, [at |-> "clear", summary |-> d.summary]) ELSE Rests(k)
  /\ UNCHANGED <<sections, columns, sheetRows, cells, scopes, cutOff, strays>>

ClearCountries(k) ==
  /\ author[k].at = "clear"
  /\ scopes' = [scopes EXCEPT ![author[k].summary] = 0]
  /\ Writes(k, [at |-> "countries", summary |-> author[k].summary, source |-> 0])
  /\ UNCHANGED <<summaries, sections, columns, sheetRows, cells, cutOff, strays>>

LoadToRemove(k) ==
  /\ author[k] = Unbusy
  /\ \E r \in Drafts : Writes(k, [at |-> "remove", summary |-> r])
  /\ UNCHANGED <<summaries, sections, columns, sheetRows, cells, scopes, cutOff, strays>>

RemoveSummary(k) ==
  /\ author[k].at = "remove"
  /\ summaries' = [summaries EXCEPT ![author[k].summary].live = FALSE]
  /\ Rests(k)
  /\ UNCHANGED <<sections, columns, sheetRows, cells, scopes, cutOff, strays>>

-----------------------------------------------------------------------------
\* Editing a section, its columns and its rows.

\* assertEditableSummary; saveReportData asks again before each section.
AssertEditable(k) ==
  /\ \/ author[k] = Unbusy /\ \E r \in Drafts : Writes(k, [at |-> "edit", summary |-> r])
     \/ author[k].at = "save all" /\ IF author[k].summary \in Drafts
                                     THEN Writes(k, [author[k] EXCEPT !.at = "save"])
                                     ELSE Rests(k)
  /\ UNCHANGED <<summaries, sections, columns, sheetRows, cells, scopes, cutOff, strays>>

Editing(k) == author[k].at = "edit"
Edited(k) == SectionsOf(author[k].summary)

AddSection(k) ==
  /\ Editing(k) /\ FreeIds(sections) # {} /\ FreeIds(columns) # {}
  /\ \E form \in Forms :
       /\ sections' = [sections EXCEPT ![NextId(sections)] = [of |-> author[k].summary, form |-> form, live |-> TRUE]]
       /\ columns' = [columns EXCEPT ![NextId(columns)] = [of |-> NextId(sections), form |-> form, live |-> TRUE]]
  /\ Rests(k)
  /\ UNCHANGED <<summaries, sheetRows, cells, scopes, cutOff, strays>>

ChangeSection(k) ==
  /\ Editing(k)
  /\ \E s \in Edited(k) :
       \/ \E form \in Forms : sections' = [sections EXCEPT ![s].form = form]
       \/ sections' = [sections EXCEPT ![s].live = FALSE]
  /\ Rests(k)
  /\ UNCHANGED <<summaries, columns, sheetRows, cells, scopes, cutOff, strays>>

\* A column is new, or like another one.  Only the report addressed is tested to be a draft, and
\* only the section named to hold what is changed: they need not belong together.
AddColumn(k) ==
  /\ Editing(k) /\ FreeIds(columns) # {}
  /\ \E s \in Sections, form \in Forms :
       /\ sections[s] # Undrawn
       /\ columns' = [columns EXCEPT ![NextId(columns)] = [of |-> s, form |-> form, live |-> TRUE]]
  /\ Rests(k)
  /\ UNCHANGED <<summaries, sections, sheetRows, cells, scopes, cutOff, strays>>

ChangeColumn(k) ==
  /\ Editing(k)
  /\ \E s \in Sections : \E c \in ColumnsOf(s) :
       \/ (\E form \in Forms : columns' = [columns EXCEPT ![c].form = form]) /\ UNCHANGED cells
       \/ /\ columns' = [columns EXCEPT ![c].live = FALSE]
          /\ cells' = Restrict(cells, {p \in DOMAIN cells : p[2] # c})
  /\ Rests(k)
  /\ UNCHANGED <<summaries, sections, sheetRows, scopes, cutOff, strays>>

\* A new row is tested to be of a section of the report.
AddRow(k) ==
  /\ Editing(k) /\ FreeIds(sheetRows) # {}
  /\ \E s \in Edited(k), form \in Forms :
       sheetRows' = [sheetRows EXCEPT ![NextId(sheetRows)] = [of |-> s, form |-> form, live |-> TRUE]]
  /\ Rests(k)
  /\ UNCHANGED <<summaries, sections, columns, cells, scopes, cutOff, strays>>

ChangeRow(k) ==
  /\ Editing(k)
  /\ \E s \in Sections : \E w \in RowsOf(s) :
       \/ \E form \in Forms : sheetRows' = [sheetRows EXCEPT ![w].form = form]
       \/ sheetRows' = [sheetRows EXCEPT ![w].live = FALSE]
  /\ Rests(k)
  /\ UNCHANGED <<summaries, sections, columns, cells, scopes, cutOff, strays>>

\* What a table holds after a save that names some of its rows of section s: the others are
\* deleted, if any is named by its id, and one may be added.
Synced(table, s, named, added, form) ==
  [i \in DOMAIN table |->
     CASE added /\ i = NextId(table) -> [of |-> s, form |-> form, live |-> TRUE]
       [] table[i].of = s /\ table[i].live /\ i \in named -> [table[i] EXCEPT !.form = form]
       [] table[i].of = s /\ named # {} /\ i \notin named -> [table[i] EXCEPT !.live = FALSE]
       [] OTHER -> table[i]]

\* The cells a save may fill, at most one: rows of the page and a new one meet a new column and
\* any other, whose section nobody tests.
Gone(pageRows) == {w \in pageRows : ~sheetRows[w].live}
Fillings(pageRows, addsRow, addsColumn) ==
  LET newRows == IF addsRow THEN {NextId(sheetRows)} ELSE {}
      newColumns == IF addsColumn THEN {NextId(columns)} ELSE {}
  IN {{}} \union {{p} : p \in ((pageRows \ Gone(pageRows)) \union newRows)
                               \X ({c \in Columns : columns[c] # Undrawn} \union newColumns)}

KnownIn(after) == {c \in Columns : after[c].live}
Elsewhere(s, after, filled) == {p \in filled : after[p[2]].of # s}
WriteCells(known, filled, figure) ==
  cells' = [p \in {q \in DOMAIN cells : q[2] \in known} \union filled |->
              IF p \in filled THEN figure ELSE cells[p]]

\* bulkSaveSection: a row the page still shows but that is gone is added anew, a column is not,
\* and a cell of a column that is gone undoes the transaction.
SavePage(k, s, form, pageColumns, pageRows, addsColumn, addsRow, filled, figure) ==
  LET after == Synced(columns, s, pageColumns, addsColumn, form)
  IN IF \E p \in filled : p[2] \notin KnownIn(after)
     THEN Rests(k) /\ UNCHANGED <<sections, columns, sheetRows, cells, strays>>
     ELSE /\ sections' = [sections EXCEPT ![s].form = form]
          /\ columns' = after
          /\ sheetRows' = Synced(sheetRows, s, pageRows, addsRow, form)
          /\ WriteCells(KnownIn(after), filled, figure)
          /\ strays' = strays \union Elsewhere(s, after, filled)
          /\ Rests(k) \/ Writes(k, [at |-> "save all", summary |-> author[k].summary])

SaveSection(k) ==
  /\ author[k].at \in {"edit", "save"}
  /\ \E s \in Edited(k), form \in Forms, figure \in Figures, addsRow \in BOOLEAN, addsColumn \in BOOLEAN :
     \E pageColumns \in SUBSET {c \in Columns : columns[c].of = s},
        pageRows \in SUBSET {w \in SheetRows : sheetRows[w].of = s} :
       /\ Cardinality(Gone(pageRows)) <= IF addsRow THEN 1 ELSE 0
       /\ addsRow => FreeIds(sheetRows) # {}
       /\ addsColumn => FreeIds(columns) # {}
       /\ \E filled \in Fillings(pageRows, addsRow, addsColumn) :
            SavePage(k, s, form, pageColumns, pageRows, addsColumn, addsRow, filled, figure)
  /\ UNCHANGED <<summaries, scopes, cutOff>>

-----------------------------------------------------------------------------
\* Copying: duplicateSection, and create with a source.

Duplicate(k) ==
  /\ Editing(k)
  /\ \E s \in Edited(k) : Writes(k, Copying(author[k].summary, {s}))
  /\ UNCHANGED <<summaries, sections, columns, sheetRows, cells, scopes, cutOff, strays>>

\* Columns and rows of the section at hand that are not copied yet.
LeftColumns(k) == DOMAIN author[k].from.columns \ DOMAIN author[k].columnMap
LeftRows(k) == DOMAIN author[k].from.rows \ DOMAIN author[k].rowMap
SectionCopied(k) == author[k].at = "copy" /\ LeftColumns(k) \union LeftRows(k) = {}

CopySection(k) ==
  /\ SectionCopied(k) /\ FreeIds(sections) # {}
  /\ \E s \in DOMAIN author[k].todo :
       LET from == author[k].todo[s]
       IN /\ sections' = [sections EXCEPT ![NextId(sections)] =
                            [of |-> author[k].summary, form |-> from.form, live |-> TRUE]]
          /\ Writes(k, [author[k] EXCEPT !.from = from, !.to = NextId(sections), !.columnMap = <<>>, !.rowMap = <<>>,
                                         !.todo = Restrict(@, DOMAIN @ \ {s})])
  /\ UNCHANGED <<summaries, columns, sheetRows, cells, scopes, cutOff, strays>>

CopyColumn(k) ==
  /\ author[k].at = "copy" /\ FreeIds(columns) # {}
  /\ \E c \in LeftColumns(k) :
       /\ columns' = [columns EXCEPT ![NextId(columns)] =
                        [of |-> author[k].to, form |-> author[k].from.columns[c], live |-> TRUE]]
       /\ Writes(k, [author[k] EXCEPT !.columnMap =
                       [d \in DOMAIN @ \union {c} |-> IF d = c THEN NextId(columns) ELSE @[d]]])
  /\ UNCHANGED <<summaries, sections, sheetRows, cells, scopes, cutOff, strays>>

\* The cells of a row to copy, and what they become in the new row.
OldCells(d, w) == {p \in DOMAIN d.from.cells : p[1] = w}
FreshCells(d, w, new) == {<<new, d.columnMap[p[2]]>> : p \in OldCells(d, w)}
SourceOf(d, w, p) == CHOOSE q \in OldCells(d, w) : d.columnMap[q[2]] = p[2]
CopyCells(d, w, new) ==
  cells' = [p \in (DOMAIN cells) \union FreshCells(d, w, new) |->
              IF p \in FreshCells(d, w, new) THEN d.from.cells[SourceOf(d, w, p)] ELSE cells[p]]

\* A row with its cells, which fail when a new column has been deleted meanwhile.
CopyRow(k) ==
  /\ author[k].at = "copy" /\ LeftColumns(k) = {} /\ FreeIds(sheetRows) # {}
  /\ \E w \in LeftRows(k) :
       LET d == author[k]
           new == NextId(sheetRows)
       IN /\ sheetRows' = [sheetRows EXCEPT ![new] = [of |-> d.to, form |-> d.from.rows[w], live |-> TRUE]]
          /\ IF \E p \in FreshCells(d, w, new) : ~columns[p[2]].live THEN Rests(k) /\ UNCHANGED cells
             ELSE /\ CopyCells(d, w, new)
                  /\ Writes(k, [d EXCEPT !.rowMap = [x \in DOMAIN @ \union {w} |-> IF x = w THEN new ELSE @[x]]])
  /\ UNCHANGED <<summaries, sections, columns, scopes, cutOff, strays>>

EndCopy(k) ==
  /\ SectionCopied(k) /\ author[k].todo = <<>>
  /\ Rests(k)
  /\ UNCHANGED <<summaries, sections, columns, sheetRows, cells, scopes, cutOff, strays>>

\* An error or a stopped process: what was written stays.
GiveUp(k) ==
  /\ author[k] # Unbusy
  /\ cutOff' = IF author[k].at = "countries" THEN cutOff \union {author[k].summary} ELSE cutOff
  /\ Rests(k)
  /\ UNCHANGED <<summaries, sections, columns, sheetRows, cells, scopes, strays>>

-----------------------------------------------------------------------------
Turning(k) == FindMonth(k) \/ LoadSummary(k) \/ LoadToPublish(k) \/ LoadToRemove(k)
Filing(k) == InsertSummary(k) \/ InsertCountries(k) \/ SaveSummary(k) \/ ClearCountries(k) \/ RemoveSummary(k)
Drawing(k) ==
  \/ AddSection(k) \/ ChangeSection(k) \/ AddColumn(k) \/ ChangeColumn(k) \/ AddRow(k) \/ ChangeRow(k)
  \/ SaveSection(k) \/ Duplicate(k)
Transcribing(k) == CopySection(k) \/ CopyColumn(k) \/ CopyRow(k) \/ EndCopy(k)

StockInit ==
  /\ summaries = [r \in Summaries |-> Missing]
  /\ sections = [s \in Sections |-> Undrawn]
  /\ columns = [c \in Columns |-> Undrawn]
  /\ sheetRows = [w \in SheetRows |-> Undrawn]
  /\ cells = <<>>
  /\ scopes = [r \in Summaries |-> 0]
  /\ author = [k \in Authors |-> Unbusy]
  /\ cutOff = {} /\ strays = {}

StockNext ==
  \E k \in Authors : Turning(k) \/ Filing(k) \/ AssertEditable(k) \/ Drawing(k) \/ Transcribing(k) \/ GiveUp(k)

StockSpec == StockInit /\ [][StockNext]_stockVars

-----------------------------------------------------------------------------
(* Properties *)

StockTypeOK ==
  /\ summaries \in [Summaries -> Summary \union {Missing}]
  /\ sections \in [Sections -> Section \union {Undrawn}]
  /\ columns \in [Columns -> SheetColumn \union {Undrawn}]
  /\ sheetRows \in [SheetRows -> SheetRow \union {Undrawn}]
  /\ DOMAIN cells \subseteq SheetRows \X Columns /\ \A p \in DOMAIN cells : cells[p] \in Figures
  /\ scopes \in [Summaries -> 0..MaxLists]
  /\ \A k \in Authors : author[k].at \in
       {"idle", "insert", "countries", "update", "clear", "remove", "edit", "save", "save all", "copy"}

\* Whoever races, and whatever is copied, a cell stands where a row meets a column of its own
\* section, but for those a save has put elsewhere itself.
CellsPlaced ==
  \A p \in (DOMAIN cells) \ strays : columns[p[2]].live /\ columns[p[2]].of = sheetRows[p[1]].of

\* Whoever races, a report has countries unless the request that writes them is at it or was cut off.
ScopeKept ==
  \A r \in Filed : scopes[r] = 0 =>
    r \in cutOff \/ \E k \in Authors : author[k].at = "countries" /\ author[k].summary = r

\* Serially a report has its countries once.
ScopeOnce == \A r \in Summaries : scopes[r] <= 1

\* Serially a copied section has the columns, rows and cells its source had, and no others.
CopyComplete ==
  \A k \in Authors : SectionCopied(k) /\ author[k].to # 0 =>
    LET from == author[k].from
        columnMap == author[k].columnMap
        rowMap == author[k].rowMap
        copy == Loaded(author[k].to)
    IN /\ DOMAIN copy.columns = Range(columnMap) /\ DOMAIN copy.rows = Range(rowMap)
       /\ \A c \in DOMAIN columnMap : copy.columns[columnMap[c]] = from.columns[c]
       /\ \A w \in DOMAIN rowMap : copy.rows[rowMap[w]] = from.rows[w]
       /\ \A w \in DOMAIN rowMap, c \in DOMAIN columnMap :
            LET new == <<rowMap[w], columnMap[c]>>
            IN IF <<w, c>> \in DOMAIN from.cells
               THEN new \in DOMAIN copy.cells /\ copy.cells[new] = from.cells[<<w, c>>]
               ELSE new \notin DOMAIN copy.cells
=============================================================================
