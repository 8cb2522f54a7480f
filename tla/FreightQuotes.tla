------------------------------ MODULE FreightQuotes ------------------------------
(***************************************************************************)
(* The freight quotes of one logistics workspace: quotes are entered for   *)
(* its shipments, changed and deleted, one is selected per shipment and    *)
(* sets the shipment's freight, and a shipment is generated from the one   *)
(* selected.                                                               *)
(*                                                                         *)
(* A handler loads its quote or the workspace before it opens its          *)
(* transaction, and Sequelize then writes only the columns whose value     *)
(* differs from the one loaded.  `lock` holds the quotes whose rows a      *)
(* selection has updated and not committed; every other transaction is one *)
(* step.  A deleted quote keeps its row: finders and bulk updates pass it  *)
(* over, an instance loaded before still writes it.  Not kept: the status  *)
(* of the workspace, which no handler tests, the rejection mark, routes    *)
(* and the audit log.                                                      *)
(***************************************************************************)
EXTENDS Naturals, FiniteSets

CONSTANTS Handlers,     \* request handlers
          Shipments,    \* shipments of the contract
          Generated,    \* ids of shipments that generateShipment may insert
          Quotes,       \* ids of the quotes ever entered
          Amounts,      \* freight amounts
          NoId

ASSUME FreightAssumption ==
  IsFiniteSet(Shipments) /\ NoId \notin Handlers \union Shipments \union Quotes \union Amounts

VARIABLES quotes,     \* freight_quotes rows
          lock,       \* the selection that has updated the row, or NoId
          selected,   \* the workspace's selected_freight_id
          freights,   \* sales_contract_shipments: freight and link to the workspace
          generated,  \* the generated shipments that exist, with their numbers
          touched,    \* history: shipments with a quote changed or deleted, or charged otherwise
          moved,      \* history: quotes that an edit has moved to another shipment
          handler     \* per handler: its next statement and the rows it loaded

freightVars == <<quotes, lock, selected, freights, generated, touched, moved, handler>>

Scopes == Shipments \union {NoId}
Quote == [shipment : Scopes, amount : Amounts, preferred : BOOLEAN, deleted : BOOLEAN]
Free == [state |-> "free"]

Existing == {q \in Quotes : quotes[q] # Free /\ ~quotes[q].deleted}

NoFreight == [freight |-> NoId, linked |-> FALSE]
Resting == [at |-> "idle"]

Opens(w, loaded) ==
  /\ handler[w] = Resting
  /\ handler' = [handler EXCEPT ![w] = loaded]
  /\ UNCHANGED <<quotes, lock, selected, freights, generated, touched, moved>>
Closes(w) == handler' = [handler EXCEPT ![w] = Resting]

-----------------------------------------------------------------------------
\* createFreightQuote, updateFreightQuote, deleteFreightQuote.

EnterQuote ==
  /\ \E q \in Quotes, s \in Scopes, a \in Amounts :
       /\ quotes[q] = Free
       /\ quotes' = [quotes EXCEPT ![q] =
            [shipment |-> s, amount |-> a, preferred |-> FALSE, deleted |-> FALSE]]
  /\ UNCHANGED <<lock, selected, freights, generated, touched, moved, handler>>

LoadToEdit(w) ==
  \E q \in Existing :
    Opens(w, [at |-> "edit", quote |-> q, amount |-> quotes[q].amount, shipment |-> quotes[q].shipment])

Touch(shipments) == touched' = touched \union (shipments \ {NoId})

\* Another amount, another shipment, or both; a quote that is preferred takes its mark along.
EditQuote(w) ==
  /\ handler[w].at = "edit"
  /\ LET q == handler[w].quote IN
       /\ lock[q] = NoId
       /\ \E a \in Amounts, s \in Scopes :
            LET amount == IF a = handler[w].amount THEN quotes[q].amount ELSE a
                shipment == IF s = handler[w].shipment THEN quotes[q].shipment ELSE s
            IN /\ quotes' = [quotes EXCEPT ![q].amount = amount, ![q].shipment = shipment]
               /\ IF quotes' = quotes THEN UNCHANGED touched ELSE Touch({quotes[q].shipment, shipment})
               /\ moved' = IF shipment = quotes[q].shipment THEN moved ELSE moved \union {q}
  /\ Closes(w)
  /\ UNCHANGED <<lock, selected, freights, generated>>

\* A preferred quote may not be deleted: tested when it is loaded.
LoadToDelete(w) == \E q \in Existing : ~quotes[q].preferred /\ Opens(w, [at |-> "delete", quote |-> q])

\* The workspace keeps naming the quote, had a selection of it committed since.
DeleteQuote(w) ==
  /\ handler[w].at = "delete"
  /\ LET q == handler[w].quote IN
       /\ lock[q] = NoId
       /\ quotes' = [quotes EXCEPT ![q].deleted = TRUE]
       /\ IF q \in Existing THEN Touch({quotes[q].shipment}) ELSE UNCHANGED touched
  /\ Closes(w)
  /\ UNCHANGED <<lock, selected, freights, generated, moved>>

-----------------------------------------------------------------------------
\* setPreferredQuote.

LoadToSelect(w) ==
  \E q \in Existing : Opens(w, [at |-> "unmark", quote |-> q, row |-> quotes[q], selected |-> selected])

\* Every quote of the same shipment; a quote of no shipment stands against all.
Rivals(row) == {q \in Existing : row.shipment \in {NoId, quotes[q].shipment}}

\* (mutant) rows that another selection has written and not committed are passed over
UnmarkUnlocked(w) ==
  /\ handler[w].at = "unmark"
  /\ lock' = [q \in Quotes |-> IF q \in Rivals(handler[w].row) /\ lock[q] = NoId THEN w ELSE lock[q]]
  /\ handler' = [handler EXCEPT ![w].at = "mark"]
  /\ UNCHANGED <<quotes, selected, freights, generated, touched, moved>>

\* The first UPDATE of the transaction waits for the rows it is about to write.
UnmarkOthers(w) ==
  /\ handler[w].at = "unmark"
  /\ LET rivals == Rivals(handler[w].row) IN
       /\ \A q \in rivals : lock[q] = NoId
       /\ lock' = [q \in Quotes |-> IF q \in rivals THEN w ELSE lock[q]]
  /\ handler' = [handler EXCEPT ![w].at = "mark"]
  /\ UNCHANGED <<quotes, selected, freights, generated, touched, moved>>

\* The mark is written only when the row loaded did not have it, and by the id of the
\* quote, deleted or not.
MarkedAs(w, q) ==
  IF q = handler[w].quote /\ ~handler[w].row.preferred THEN [quotes[q] EXCEPT !.preferred = TRUE]
  ELSE IF lock[q] = w THEN [quotes[q] EXCEPT !.preferred = FALSE]
  ELSE quotes[q]

FreightOf(row) ==
  IF row.shipment = NoId THEN freights
  ELSE [freights EXCEPT ![row.shipment] = [freight |-> row.amount, linked |-> TRUE]]

Unlocked(w) == [q \in Quotes |-> IF lock[q] = w THEN NoId ELSE lock[q]]

\* The rest of the transaction and its commit.
Mark(w) ==
  /\ handler[w].at = "mark"
  /\ quotes' = [q \in Quotes |-> MarkedAs(w, q)]
  /\ freights' = FreightOf(handler[w].row)
  /\ selected' = IF handler[w].selected = handler[w].quote THEN selected ELSE handler[w].quote
  /\ lock' = Unlocked(w)
  /\ Closes(w)
  /\ UNCHANGED <<generated, touched, moved>>

\* An update of the sales contract writes what its shipments are charged, as the client says.
ChargeFreight ==
  /\ \E s \in Shipments, a \in Amounts \union {NoId} :
       freights' = [freights EXCEPT ![s].freight = a] /\ Touch({s})
  /\ UNCHANGED <<quotes, lock, selected, generated, moved, handler>>

-----------------------------------------------------------------------------
\* generateShipment.

NextNumber == Cardinality(Shipments) + Cardinality(DOMAIN generated) + 1

\* A shipment linked to the workspace counts as generated.
LoadToGenerate(w) ==
  /\ selected \in Existing
  /\ DOMAIN generated = {}
  /\ \A s \in Shipments : ~freights[s].linked
  /\ Opens(w, [at |-> "generate", no |-> NextNumber])

\* The unique index on contract and number refuses a number that is taken.
NumberTaken(no) == \E g \in DOMAIN generated : generated[g] = no

Generate(w) ==
  /\ handler[w].at = "generate"
  /\ IF NumberTaken(handler[w].no) \/ DOMAIN generated = Generated THEN UNCHANGED generated
     ELSE \E g \in Generated \ DOMAIN generated :
            generated' = [h \in (DOMAIN generated) \union {g} |-> IF h = g THEN handler[w].no ELSE generated[h]]
  /\ Closes(w)
  /\ UNCHANGED <<quotes, lock, selected, freights, touched, moved>>

\* The process stops: PostgreSQL undoes what was not committed.
HandlerStops(w) ==
  /\ handler[w] # Resting
  /\ lock' = Unlocked(w)
  /\ Closes(w)
  /\ UNCHANGED <<quotes, selected, freights, generated, touched, moved>>

-----------------------------------------------------------------------------
FreightInit ==
  /\ quotes = [q \in Quotes |-> Free]
  /\ lock = [q \in Quotes |-> NoId]
  /\ selected = NoId
  /\ freights = [s \in Shipments |-> NoFreight]
  /\ generated = [g \in {} |-> 0]
  /\ touched = {} /\ moved = {}
  /\ handler = [w \in Handlers |-> Resting]

HandlesQuote(w) ==
  \/ LoadToEdit(w) \/ EditQuote(w)
  \/ LoadToDelete(w) \/ DeleteQuote(w)
  \/ LoadToSelect(w) \/ UnmarkOthers(w) \/ Mark(w)
  \/ LoadToGenerate(w) \/ Generate(w)
  \/ HandlerStops(w)

FreightNext == EnterQuote \/ ChargeFreight \/ \E w \in Handlers : HandlesQuote(w)

FreightSpec == FreightInit /\ [][FreightNext]_freightVars

-----------------------------------------------------------------------------
FreightTypeOK ==
  /\ \A q \in Quotes : quotes[q] \in Quote \union {Free}
  /\ lock \in [Quotes -> Handlers \union {NoId}]
  /\ selected \in Quotes \union {NoId}
  /\ freights \in [Shipments -> [freight : Amounts \union {NoId}, linked : BOOLEAN]]
  /\ touched \subseteq Shipments /\ moved \subseteq Quotes
  /\ \A w \in Handlers : handler[w].at \in {"idle", "edit", "delete", "unmark", "mark", "generate"}

\* The quotes of the shipment they were entered for.
Settled == Existing \ moved

\* However selections, edits, moves and deletions interleave, of the quotes that were entered
\* for a shipment one is preferred at most: every selection rewrites the rows of all its rivals.
OnePreferred ==
  \A q, r \in Settled :
    quotes[q].preferred /\ quotes[r].preferred /\ quotes[q].shipment = quotes[r].shipment => q = r

\* A shipment is charged what its preferred quote asks, unless a quote of it, or its freight, was
\* changed: the later of two selections wins both the quote and the shipment.
ChargedAsPreferred ==
  \A q \in Settled :
    quotes[q].preferred /\ quotes[q].shipment \in Shipments \ touched
      => freights[quotes[q].shipment].freight = quotes[q].amount

\* The workspace generates one shipment, however many requests passed the test for it.
GeneratedOnce == Cardinality(DOMAIN generated) <= 1
=============================================================================
