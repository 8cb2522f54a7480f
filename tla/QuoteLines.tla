-------------------------------- MODULE QuoteLines --------------------------------
(***************************************************************************)
(* One freight quote and the lines below it: the charges of a quote of a   *)
(* workspace, or the routes and rates of a direct quote.  An edit replaces *)
(* all lines in one transaction, and writes the columns of the quote that  *)
(* differ from the instance it loaded before.                              *)
(*                                                                         *)
(* The version always differs, so that an edit of a workspace's quote      *)
(* waits for the row of the quote before it touches a line.  An edit of a  *)
(* direct quote writes the version last, and its first statement only when *)
(* another column has changed.  A statement sees the lines committed when  *)
(* it starts, and waits for those another transaction is deleting.         *)
(***************************************************************************)
EXTENDS Naturals, FiniteSets

CONSTANTS Carriers,   \* request handlers that edit the quote
          Charges,    \* what a request enters
          MaxEdits    \* bound on the edits of a behaviour

ASSUME EditsAssumption == MaxEdits \in Nat \ {0}

VARIABLES head,      \* the quote: what its columns say, its version, is it deleted, is it direct
          entered,   \* by edit: what it enters, and whether its routes have rates
          lines,     \* edits whose lines are committed
          edits,     \* edits so far; the quote is created by the first
          editing,   \* per handler: its statement, what it loaded and what its statement sees
          applied,   \* history: edits committed, the creation included
          met        \* history: two requests had the quote loaded at once

lineVars == <<head, entered, lines, edits, editing, applied, met>>

NotEditing == [at |-> "idle"]

Entry == [charge : Charges, rated : BOOLEAN]

\* The rows a handler has written and not committed: the quote, and the lines of edits.
HoldsHead(w) == editing[w].at # "idle" /\ editing[w].holds
Deleting(w) == IF editing[w].at = "idle" THEN {} ELSE editing[w].deleted
HeadFree(w) == \A v \in Carriers \ {w} : ~HoldsHead(v)
LinesFree(w, S) == \A v \in Carriers \ {w} : S \cap Deleting(v) = {}

Becomes(w, r) == editing' = [editing EXCEPT ![w] = r]
Later == UNCHANGED <<head, entered, lines, edits, applied, met>>

-----------------------------------------------------------------------------
\* findOne, before the transaction; a deleted quote is not found.
LoadQuote(w, at, more) ==
  /\ editing[w] = NotEditing
  /\ ~head.deleted
  /\ Becomes(w, [at |-> at, edit |-> more, loaded |-> head, holds |-> FALSE, deleted |-> {}, sees |-> {}])
  /\ met' = (met \/ \E v \in Carriers : editing[v] # NotEditing)

LoadToRevise(w) ==
  /\ edits < MaxEdits
  /\ edits' = edits + 1
  /\ \E e \in Entry : entered' = [entered EXCEPT ![edits + 1] = e]
  /\ LoadQuote(w, "head", edits + 1)
  /\ UNCHANGED <<head, lines, applied>>

\* deleteDirectFreightQuote, deleteFreightQuote: the row is kept, marked as deleted.
LoadToWithdraw(w) ==
  /\ LoadQuote(w, "withdraw", 0)
  /\ UNCHANGED <<head, entered, lines, edits, applied>>

WithdrawQuote(w) ==
  /\ editing[w].at = "withdraw"
  /\ HeadFree(w)
  /\ head' = [head EXCEPT !.deleted = TRUE]
  /\ Becomes(w, NotEditing)
  /\ UNCHANGED <<entered, lines, edits, applied, met>>

-----------------------------------------------------------------------------
\* updateFreightQuote and updateDirectFreightQuote.

Charge(w) == entered[editing[w].edit].charge
Changes(w) == Charge(w) # editing[w].loaded.charge

\* The first UPDATE of the quote: always made for a workspace's, when a column has changed
\* for a direct one.
WriteHead(w) ==
  /\ editing[w].at = "head"
  /\ ~head.direct \/ Changes(w) => HeadFree(w)
  /\ Becomes(w, [editing[w] EXCEPT !.at = IF head.direct THEN "find" ELSE "lines",
                                   !.holds = ~head.direct \/ Changes(w)])
  /\ Later

\* A direct quote: the routes are read, then the rates of those found are deleted.
FindRoutes(w) ==
  /\ editing[w].at = "find"
  /\ Becomes(w, [editing[w] EXCEPT !.at = IF lines = {} THEN "insert" ELSE "rates", !.sees = lines])
  /\ Later

Rated(S) == {e \in S : entered[e].rated}

DeleteRates(w) ==
  /\ editing[w].at = "rates"
  /\ LinesFree(w, Rated(editing[w].sees))
  /\ Becomes(w, [editing[w] EXCEPT !.at = "lines", !.deleted = Rated(editing[w].sees) \cap lines])
  /\ Later

\* The DELETE of all lines of the quote: what it sees, ...
BeginDelete(w) ==
  /\ editing[w].at = "lines"
  /\ Becomes(w, [editing[w] EXCEPT !.at = "delete", !.sees = lines])
  /\ Later

\* ... and, when nobody else is deleting any of it, what is still there.
DeleteLines(w) ==
  /\ editing[w].at = "delete"
  /\ LinesFree(w, editing[w].sees)
  /\ Becomes(w, [editing[w] EXCEPT !.at = "insert", !.deleted = editing[w].sees \cap lines])
  /\ Later

\* The new lines, the version of a direct quote, and the commit.
CommitLines(w) ==
  /\ editing[w].at = "insert"
  /\ HeadFree(w)
  /\ lines' = (lines \ editing[w].deleted) \union {editing[w].edit}
  /\ head' = [head EXCEPT !.version = editing[w].loaded.version + 1,
                          !.charge = IF Changes(w) THEN Charge(w) ELSE @]
  /\ applied' = applied + 1
  /\ Becomes(w, NotEditing)
  /\ UNCHANGED <<entered, edits, met>>

\* Two edits wait for each other, for the quote and for lines.
Waits(w, v) ==
  \/ /\ editing[w].at \in {"head", "insert", "withdraw"} /\ HoldsHead(v)
     /\ editing[w].at = "head" => ~head.direct \/ Changes(w)
  \/ editing[w].at = "rates" /\ Rated(editing[w].sees) \cap Deleting(v) # {}
  \/ editing[w].at = "delete" /\ editing[w].sees \cap Deleting(v) # {}

\* PostgreSQL rolls one back; so it does when a handler stops.
RollBackEdit(w) ==
  /\ \E v \in Carriers \ {w} : Waits(w, v) /\ Waits(v, w)
  /\ Becomes(w, NotEditing)
  /\ Later

EditStops(w) ==
  /\ editing[w] # NotEditing
  /\ Becomes(w, NotEditing)
  /\ Later

-----------------------------------------------------------------------------
\* createFreightQuote and createDirectFreightQuote enter the quote and its lines at once.
LinesInit ==
  /\ \E direct \in BOOLEAN, e \in Entry :
       /\ head = [charge |-> e.charge, version |-> 1, deleted |-> FALSE, direct |-> direct]
       /\ entered = [i \in 1 .. MaxEdits |-> e]
  /\ lines = {1} /\ edits = 1 /\ applied = 1
  /\ editing = [w \in Carriers |-> NotEditing]
  /\ met = FALSE

LinesNext ==
  \E w \in Carriers :
    \/ LoadToRevise(w) \/ WriteHead(w) \/ FindRoutes(w) \/ DeleteRates(w)
    \/ BeginDelete(w) \/ DeleteLines(w) \/ CommitLines(w)
    \/ LoadToWithdraw(w) \/ WithdrawQuote(w)
    \/ RollBackEdit(w) \/ EditStops(w)

LinesSpec == LinesInit /\ [][LinesNext]_lineVars

-----------------------------------------------------------------------------
LinesTypeOK ==
  /\ head \in [charge : Charges, version : 1 .. MaxEdits, deleted : BOOLEAN, direct : BOOLEAN]
  /\ entered \in [1 .. MaxEdits -> Entry]
  /\ lines \subseteq 1 .. edits /\ edits \in 1 .. MaxEdits
  /\ \A w \in Carriers : editing[w].at \in
       {"idle", "head", "find", "rates", "lines", "delete", "insert", "withdraw"}
  /\ met \in BOOLEAN

\* A quote says what its lines say, and its version counts its edits, unless two requests
\* had it loaded at once.
HeadMatchesLines ==
  ~met => /\ \A e \in lines : entered[e].charge = head.charge
          /\ head.version = applied

\* Whoever edits at once, the quote of a workspace has the lines of one edit; a direct quote,
\* whose edits do not wait for its row, when no two requests had it loaded at once.
LinesOfOneEdit == ~head.direct \/ ~met => Cardinality(lines) = 1
=============================================================================
