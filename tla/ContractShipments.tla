---------------------------- MODULE ContractShipments ----------------------------
(***************************************************************************)
(* The shipments of one sales contract: SalesContractService.update, which *)
(* writes the list of shipments a user sends over the existing rows, and   *)
(* ShipmentService.update, which edits one.                                *)
(*                                                                         *)
(* update reads the rows and what refers to them, gives all rows temporary *)
(* numbers, matches the list with the rows it has read and writes, creates,*)
(* cancels or deletes them.  Sequelize writes an attribute only when it    *)
(* differs from the value the instance was read with.  From the temporary  *)
(* numbers to the commit the transaction holds the row locks, so that part *)
(* is one step; the reads before it are steps of their own.                *)
(*                                                                         *)
(* A shipment reference is modelled by the number it carries; dates,       *)
(* quantities, containers and freight are left out.                        *)
(***************************************************************************)
EXTENDS Integers, Sequences, FiniteSets, Functions

CONSTANTS MaxIds,        \* bound on shipments ever created
          MaxLength,     \* bound on the list a user sends
          Sent,          \* entries of such a list
          Referrers,     \* what may refer to a shipment
          HeaderChanges, \* may an update change the contract's own row, may it not?
          TemporaryBase, \* 100000 in the code
          CancelledBase, \* 90000 in the code
          Workers,
          None

ASSUME ShipmentAssumption ==
  /\ MaxIds \in Nat /\ MaxLength \in 0..MaxIds
  /\ TemporaryBase \in Nat /\ CancelledBase \in Nat
  /\ CancelledBase > MaxLength
  \* purchase contract links (ON DELETE RESTRICT), cargo allocations and loadings (CASCADE)
  /\ Referrers \subseteq {"purchase", "cargo"}
  /\ None \notin Workers /\ None \notin Int

Ids == 1..MaxIds

Numbers == 1..MaxLength

\* shipmentNo is optional and at least 1; id is that of a shipment the user has seen.
Entries == [id: Ids \union {None}, no: Numbers \union {None}]

ASSUME SentAssumption == Sent \subseteq Entries /\ HeaderChanges \subseteq BOOLEAN

Lists == UNION {[1..n -> Sent] : n \in 1..MaxLength}

VARIABLES rows,   \* sales_contract_shipments
          lastId,
          refs,   \* what refers to which shipment
          header, \* the transaction that has written the contract's row
          pc, job

vars == <<rows, lastId, refs, header, pc, job>>
data == <<rows, lastId, refs, header>>

Absent == [no |-> 0, ref |-> 0, status |-> "Absent"]

Present(table) == {s \in Ids : table[s] # Absent}

Temporary(s) == -(TemporaryBase + s)

Parked(s) == CancelledBase + s

NoJob == [list |-> <<>>, id |-> None, no |-> None, core |-> FALSE,
          seen |-> [s \in Ids |-> Absent], referenced |-> {}, negated |-> {}, match |-> <<>>]

Labels == {"idle", "read", "references", "negate", "write", "save"}

\* Every variable has its type.
TypeOK ==
  /\ rows \in [Ids -> [no: Int, ref: Int, status: {"Scheduled", "Cancelled"}] \union {Absent}]
  /\ lastId \in 0..MaxIds
  /\ refs \subseteq Referrers \X Ids
  /\ header \in Workers \union {None}
  /\ pc \in [Workers -> Labels]
  /\ \A w \in Workers : job[w].negated \subseteq Ids /\ job[w].referenced \subseteq Ids

Goto(w, label, j) ==
  /\ pc' = [pc EXCEPT ![w] = label]
  /\ job' = [job EXCEPT ![w] = j]

End(w) == /\ Goto(w, "idle", NoJob)
          /\ header' = IF header = w THEN None ELSE header

-----------------------------------------------------------------------------
(* SalesContractService.update *)

\* The header is written first; a header that does not change is not.
Update(w, list, changed) ==
  /\ pc[w] = "idle"
  /\ changed => header = None
  /\ header' = IF changed THEN w ELSE header
  /\ Goto(w, "read", [NoJob EXCEPT !.list = list])
  /\ UNCHANGED <<rows, lastId, refs>>

ReadShipments(w) ==
  /\ pc[w] = "read"
  /\ Goto(w, "references", [job[w] EXCEPT !.seen = rows])
  /\ UNCHANGED data

ReferencedAmong(seen) == {s \in Present(seen) : \E r \in Referrers : <<r, s>> \in refs}

ReadReferences(w) ==
  /\ pc[w] = "references"
  /\ Goto(w, "negate", [job[w] EXCEPT !.referenced = ReferencedAmong(job[w].seen)])
  /\ UNCHANGED data

NumberAt(list, i) == IF list[i].no = None THEN i ELSE list[i].no

\* existingShipments is ordered by number, then id.
First(seen, S) ==
  CHOOSE s \in S : \A t \in S : seen[s].no < seen[t].no \/ (seen[s].no = seen[t].no /\ s <= t)

\* (mutant) Rows that are matched already are matched again.
MatchAgain(j) ==
  [i \in DOMAIN j.list |->
     LET named == {s \in Present(j.seen) : s = j.list[i].id}
         numbered == {s \in Present(j.seen) : j.seen[s].no = NumberAt(j.list, i)}
     IN CASE named # {} -> First(j.seen, named)
          [] named = {} /\ numbered # {} -> First(j.seen, numbered)
          [] OTHER -> None]

\* matchedExisting: entry n takes the free row with its id, else the one with its number, else
\* one that is referenced, else any; None when no row is free.
Chosen(j, matched, n) ==
  LET free == Present(j.seen) \ Range(matched)
      choices == <<{s \in free : s = j.list[n].id},
                   {s \in free : j.seen[s].no = NumberAt(j.list, n)},
                   free \intersect j.referenced,
                   free>>
      best == CHOOSE k \in 1..5 : /\ k = 5 \/ choices[k] # {}
                                  /\ \A l \in 1..(k - 1) : choices[l] = {}
  IN IF best = 5 THEN None ELSE First(j.seen, choices[best])

\* The entries in turn.
Match(j) ==
  LET upTo[n \in 0..Len(j.list)] ==
        IF n = 0 THEN <<>> ELSE Append(upTo[n - 1], Chosen(j, upTo[n - 1], n))
  IN upTo[Len(j.list)]

\* The rows that the UPDATE with the temporary numbers sees; it waits for their locks.
Negate(w) ==
  /\ pc[w] = "negate"
  /\ Goto(w, "write", [job[w] EXCEPT !.negated = IF Present(job[w].seen) = {} THEN {} ELSE Present(rows),
                                     !.match = Match(job[w])])
  /\ UNCHANGED data

\* save() writes a value that differs from the one read, else leaves the one in the row.
Saved(new, read, stored) == IF new # read THEN new ELSE stored

\* (mutant) The reference is not written with the number.
NumberOnly(row, read, n) == [row EXCEPT !.no = Saved(n, read.no, @)]

Renumbered(row, read, n) ==
  [row EXCEPT !.no = Saved(n, read.no, @), !.ref = Saved(n, read.ref, @)]

Negated(j) ==
  [s \in Ids |-> IF s \in j.negated /\ rows[s] # Absent
                 THEN [rows[s] EXCEPT !.no = Temporary(s)] ELSE rows[s]]

Unused(j) == Present(j.seen) \ Range(j.match)

\* Entries without a row are created, with their own id when they have one.
Created(j) == {i \in DOMAIN j.list : j.match[i] = None}

NewId(j, i) ==
  IF j.list[i].id # None THEN j.list[i].id
  ELSE lastId + Cardinality({k \in Created(j) : k <= i /\ j.list[k].id = None})

Issued(j) == lastId + Cardinality({k \in Created(j) : j.list[k].id = None})

Fits(j) == Issued(j) <= MaxIds

\* A row that is not listed is cancelled when something refers to it, else deleted.
WithoutEntry(j, s, row) ==
  IF s \notin j.referenced THEN Absent
  ELSE [row EXCEPT !.no = Saved(Parked(s), j.seen[s].no, @), !.status = "Cancelled"]

\* The entry that has taken a row
EntryOf(j, s) == CHOOSE i \in DOMAIN j.match : j.match[i] = s

Written(j) ==
  LET table == Negated(j)
      Creates(s) == {i \in Created(j) : NewId(j, i) = s}
  IN [s \in Ids |->
        CASE Creates(s) # {} ->
               LET n == NumberAt(j.list, CHOOSE i \in Creates(s) : TRUE)
               IN [no |-> n, ref |-> n, status |-> "Scheduled"]
          [] Creates(s) = {} /\ table[s] = Absent -> Absent
          [] Creates(s) = {} /\ table[s] # Absent /\ s \in Range(j.match) ->
               Renumbered(table[s], j.seen[s], NumberAt(j.list, EntryOf(j, s)))
          [] Creates(s) = {} /\ table[s] # Absent /\ s \in Unused(j) -> WithoutEntry(j, s, table[s])
          [] OTHER -> table[s]]

Deleted(j) == {s \in Unused(j) : s \notin j.referenced /\ rows[s] # Absent}

\* idx_shipment_contract_no, the primary key, and links that restrict a deletion
Conflict(j) ==
  LET new == Written(j)
  IN \/ \E s, t \in Present(new) : s # t /\ new[s].no = new[t].no
     \/ \E i \in Created(j) : \/ rows[NewId(j, i)] # Absent
                              \/ \E k \in Created(j) \ {i} : NewId(j, k) = NewId(j, i)
     \/ \E s \in Deleted(j) : <<"purchase", s>> \in refs

Write(w) ==
  /\ pc[w] = "write"
  /\ Fits(job[w]) /\ ~Conflict(job[w])
  /\ rows' = Written(job[w])
  /\ lastId' = Issued(job[w])
  /\ refs' = {r \in refs : r[2] \notin Deleted(job[w])}
  /\ End(w)

-----------------------------------------------------------------------------
(* ShipmentService.update *)

\* core: does the request change the containers, the date or the quantity, on which the
\* reference depends as well?
Edit(w, s, n, core) ==
  /\ pc[w] = "idle"
  /\ rows[s] # Absent
  /\ Goto(w, "save", [NoJob EXCEPT !.id = s, !.no = n, !.core = core, !.seen = rows])
  /\ UNCHANGED data

EditedRow(j) ==
  LET read == j.seen[j.id]
      n == IF j.no = None THEN read.no ELSE j.no
  IN [rows[j.id] EXCEPT !.no = Saved(n, read.no, @),
                        !.ref = IF j.core \/ n # read.no THEN n ELSE @]

Taken(j) == \E s \in Present(rows) \ {j.id} : rows[s].no = EditedRow(j).no

Save(w) ==
  /\ pc[w] = "save"
  /\ ~Taken(job[w])
  /\ rows' = IF rows[job[w].id] = Absent THEN rows ELSE [rows EXCEPT ![job[w].id] = EditedRow(job[w])]
  /\ End(w)
  /\ UNCHANGED <<lastId, refs>>

(* Other services, failures *)

\* Purchase contracts and cargo refer to shipments, and cease to.
Refer(w, r, s) ==
  /\ pc[w] = "idle"
  /\ rows[s] # Absent
  /\ refs' = IF <<r, s>> \in refs THEN refs \ {<<r, s>>} ELSE refs \union {<<r, s>>}
  /\ UNCHANGED <<rows, lastId, header, pc, job>>

Throw(w) ==
  /\ \/ pc[w] = "write" /\ ~(Fits(job[w]) /\ ~Conflict(job[w]))
     \/ pc[w] = "save" /\ Taken(job[w])
  /\ End(w)
  /\ UNCHANGED <<rows, lastId, refs>>

Crash(w) == /\ pc[w] # "idle"
            /\ End(w)
            /\ UNCHANGED <<rows, lastId, refs>>

-----------------------------------------------------------------------------

\* create: shipments are numbered from 1.
Init ==
  /\ lastId \in 0..MaxLength
  /\ rows = [s \in Ids |-> IF s <= lastId THEN [no |-> s, ref |-> s, status |-> "Scheduled"] ELSE Absent]
  /\ refs = {}
  /\ header = None
  /\ pc = [w \in Workers |-> "idle"]
  /\ job = [w \in Workers |-> NoJob]

Request(w) ==
  \/ \E list \in Lists, changed \in HeaderChanges :
       /\ \A i \in DOMAIN list : list[i].id \in {None} \union 1..lastId
       /\ Update(w, list, changed)
  \/ \E s \in Ids :
       \/ \E n \in Numbers \union {None}, core \in BOOLEAN : Edit(w, s, n, core)
       \/ \E r \in Referrers : Refer(w, r, s)

Proceed(w) ==
  \/ ReadShipments(w) \/ ReadReferences(w) \/ Negate(w) \/ Write(w)
  \/ Save(w) \/ Throw(w)

Next == \E w \in Workers : Request(w) \/ Proceed(w) \/ Crash(w)

Spec == Init /\ [][Next]_vars

-----------------------------------------------------------------------------
(* Properties *)

\* "NEVER delete - soft cancel": a shipment something refers to is not deleted.
ReferencedKept == \A s \in Present(rows) : (\E r \in Referrers : <<r, s>> \in refs) => rows'[s] # Absent

\* Number and reference stay in step: a shipment has the number its reference carries, its
\* temporary one, or the one it was cancelled with.
NumbersMatchReferences ==
  \A s \in Present(rows) : rows[s].no \in {rows[s].ref, Temporary(s), Parked(s)}

\* Both together: rows are of their type and keep number and reference in step.
RowsSound == TypeOK /\ NumbersMatchReferences

\* After an update every entry of the list has a row of its own, with its reference, and
\* all other rows are cancelled and referred to.
ListIsWritten ==
  \A w \in Workers :
    pc[w] = "write" /\ rows' # rows =>
      LET list == job[w].list
      IN \E row \in Injection(DOMAIN list, Ids) :
           /\ \A i \in DOMAIN list : rows'[row[i]].ref = NumberAt(list, i)
           /\ \A s \in Present(rows') \ Range(row) :
                rows'[s].status = "Cancelled" /\ \E r \in Referrers : <<r, s>> \in refs'

\* Both together: an update writes its list, and keeps the rows that are referred to.
ListsKept == [][ReferencedKept /\ ListIsWritten]_vars

\* The negative numbers are temporary: no committed row has one.
NumbersArePositive == \A s \in Present(rows) : rows[s].no > 0

=============================================================================
