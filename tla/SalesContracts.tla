----------------------------- MODULE SalesContracts -----------------------------
(***************************************************************************)
(* The life of a sales contract in SalesContractService: create (with the  *)
(* automatic contract number of contract-number.util), update,             *)
(* updateStatus and remove, by concurrent request handlers.                *)
(*                                                                         *)
(* The sequence inside an automatic number runs per seller, whatever the   *)
(* buyer: it is read from the committed contracts of the seller with       *)
(* SELECT ... FOR UPDATE, at READ COMMITTED.  The statement fixes its      *)
(* snapshot first and waits for the row locks after, so the rows it waited *)
(* for are re-read and the rows inserted meanwhile are not seen.           *)
(*                                                                         *)
(* A write and the commit of its transaction are one step: until then no   *)
(* other handler sees the write, and the locks taken before are held.      *)
(* The financial year is fixed.  Business references are the subject of    *)
(* module BusinessReference.                                               *)
(***************************************************************************)
EXTENDS Integers, FiniteSetsExt

CONSTANTS Contracts,   \* contract ids
          Enquiries,
          AutoSellers, \* sellers with an automatic number
          Initialled,  \* the automatic sellers whose numbers start with the buyer's initial
          Buyers,      \* one per initial
          Typed,       \* numbers a user may type, as the parser sees them
          Asked,       \* statuses requests ask for
          Changes,     \* what edits write: each field a new value or Keep
          Workers,
          None,
          Keep,        \* a field the DTO leaves out
          InitialSequence  \* per automatic seller

ASSUME SalesAssumption ==
  /\ Initialled \subseteq AutoSellers
  /\ None \notin Contracts \union Enquiries \union AutoSellers \union Buyers
  /\ InitialSequence \in [AutoSellers -> Nat \ {0}]
  /\ Asked \subseteq {"Draft", "Active", "Cancelled", "Closed"}
  /\ IsFiniteSet(Contracts)

VARIABLES contract,  \* committed rows, Absent before their INSERT commits
          issued,    \* history: every sequence ever carried by a seller's contracts
          moved,     \* history: contracts that an edit has given to another seller
          locked,    \* rows locked by each worker's SELECT ... FOR UPDATE
          pc, job

vars == <<contract, issued, moved, locked, pc, job>>

Sellers == AutoSellers \union {None}   \* None: a seller without automatic number
Statuses == {"Draft", "Active", "Cancelled", "Closed"}
\* A number as parseSequenceFromContractNumber sees it: the seller whose pattern it
\* matches (None when it has another form), the buyer's initial and the sequence.  The parser
\* ignores case and a missing dot, the unique index does not: a user may spell a number in
\* another way than it is generated.
Numbers == [seller: Sellers, initial: Buyers \union {None}, seq: Nat,
            spelling: {"generated", "other"}]

ASSUME TypedAssumption == Typed \subseteq Numbers

\* The DTO of an update carries any field of a create's: an edit may give the contract to
\* another seller or buyer, and its number stays.
ASSUME ChangesAssumption ==
  Changes \subseteq [status: Asked \union {Keep}, number: Typed \union {Keep},
                     enquiry: Enquiries \union {None, Keep}, seller: Sellers \union {Keep},
                     buyer: Buyers \union {Keep}]

Absent == [status |-> "Absent"]

Rows == [status: Statuses, number: Numbers, enquiry: Enquiries \union {None},
         seller: Sellers, buyer: Buyers]

Labels == {"idle", "check", "snapshot", "lock", "insert", "save"}

NoJob == [op |-> "none"]

\* Every variable has its type.
TypeOK ==
  /\ contract \in [Contracts -> Rows \union {Absent}]
  /\ issued \subseteq AutoSellers \X Nat
  /\ moved \subseteq Contracts
  /\ locked \in [Workers -> SUBSET Contracts]
  /\ pc \in [Workers -> Labels]
  /\ \A w \in Workers :
       /\ job[w].op \in {"none", "create", "update", "status", "remove"}
       /\ pc[w] # "idle" => job[w].id \in Contracts

-----------------------------------------------------------------------------
(* Contract numbers *)

Existing == {c \in Contracts : contract[c] # Absent}

\* Contracts whose number has another form have no sequence.
Numbered == {c \in Existing : contract[c].number.seller # None}

OfSeller(s) == {c \in Existing : contract[c].seller = s}

Sequences(s, C) == {contract[c].number.seq : c \in {d \in C \intersect Numbered : contract[d].number.seller = s}}

\* (mutant) The sequence advances by one.
NextSequenceByOne(s, C) ==
  IF Sequences(s, C) = {} THEN InitialSequence[s] ELSE Max(Sequences(s, C)) + 1

NextSequence(s, C) ==
  IF Sequences(s, C) = {} THEN InitialSequence[s] ELSE Max(Sequences(s, C)) + 4

ContractNumber(s, b, n) ==
  [seller |-> s, initial |-> IF s \in Initialled THEN b ELSE None, seq |-> n,
   spelling |-> "generated"]

\* (mutant) No unique index.
TakenNever(number) == FALSE

Taken(number) == \E c \in Existing : contract[c].number = number

-----------------------------------------------------------------------------

Start(w, label, j) ==
  /\ pc[w] = "idle"
  /\ job' = [job EXCEPT ![w] = j]
  /\ pc' = [pc EXCEPT ![w] = label]
  /\ UNCHANGED <<contract, issued, moved, locked>>

Goto(w, label, j) ==
  /\ job' = [job EXCEPT ![w] = j]
  /\ pc' = [pc EXCEPT ![w] = label]

\* The request ends, by its commit or by an exception.
End(w) ==
  /\ locked' = [locked EXCEPT ![w] = {}]
  /\ Goto(w, "idle", NoJob)

Unlocked(w, C) == \A v \in Workers \ {w} : locked[v] \intersect C = {}

(* create *)

\* A typed number is looked up first; an automatic seller's is ignored.
Create(w, c, e, s, b, number, status) ==
  /\ contract[c] = Absent
  /\ \A v \in Workers : job[v].op = "create" => job[v].id # c
  /\ s = None => ~Taken(number)
  /\ Start(w, "check", [op |-> "create", id |-> c, seen |-> {},
                        row |-> [status |-> status, number |-> number, enquiry |-> e,
                                 seller |-> s, buyer |-> b]])

\* Has the order been converted already?
Converted(e) == e # None /\ \E c \in Existing : contract[c].enquiry = e

CheckConverted(w) ==
  /\ pc[w] = "check"
  /\ LET row == job[w].row
     IN /\ ~Converted(row.enquiry)
        /\ Goto(w, IF row.seller = None THEN "insert" ELSE "snapshot", job[w])
  /\ UNCHANGED <<contract, issued, moved, locked>>

\* generateNextContractNumber: the snapshot of SELECT ... FOR UPDATE ...
TakeSnapshot(w) ==
  /\ pc[w] = "snapshot"
  /\ Goto(w, "lock", [job[w] EXCEPT !.seen = OfSeller(job[w].row.seller)])
  /\ UNCHANGED <<contract, issued, moved, locked>>

\* ... its row locks, and the next sequence after the newest version of those rows.
LockAndNumber(w) ==
  /\ pc[w] = "lock"
  /\ Unlocked(w, job[w].seen)
  /\ LET j == job[w]
         rows == j.seen \intersect OfSeller(j.row.seller)
         number == ContractNumber(j.row.seller, j.row.buyer, NextSequence(j.row.seller, rows))
     IN /\ locked' = [locked EXCEPT ![w] = rows]
        /\ Goto(w, "insert", [j EXCEPT !.row.number = number])
  /\ UNCHANGED <<contract, issued, moved>>

\* The double check, the INSERT (refused by the unique index) and the commit.
Carries(row) == IF row.number.seller # None THEN {<<row.number.seller, row.number.seq>>} ELSE {}

Insert(w) ==
  /\ pc[w] = "insert"
  /\ ~Taken(job[w].row.number)
  /\ contract' = [contract EXCEPT ![job[w].id] = job[w].row]
  /\ issued' = issued \union Carries(job[w].row)
  /\ UNCHANGED moved
  /\ End(w)

\* Does the request write another number than it loaded?
Renumbers(w) == job[w].new.number \notin {Keep, job[w].was.number}

\* A check or the unique index refuses the request.
Refuse(w) ==
  /\ \/ /\ pc[w] = "check"
        /\ Converted(job[w].row.enquiry)
     \/ /\ pc[w] = "insert"
        /\ Taken(job[w].row.number)
     \/ /\ pc[w] = "save"
        /\ Renumbers(w)
        /\ Taken(job[w].new.number)
  /\ End(w)
  /\ UNCHANGED <<contract, issued, moved>>

(* update, updateStatus, remove: the instance is loaded before the transaction.  A request
   that changes no field writes nothing and is left out. *)

NoChange == [status |-> Keep, number |-> Keep, enquiry |-> Keep, seller |-> Keep, buyer |-> Keep]

Load(w, c, op, new) ==
  /\ c \in Existing
  /\ \E f \in DOMAIN new : new[f] \notin {Keep, contract[c][f]}
  /\ Start(w, "save", [op |-> op, id |-> c, was |-> contract[c], new |-> new])

Update(w, c, new) == Load(w, c, "update", new)

Written(status) == [NoChange EXCEPT !.status = status]

UpdateStatus(w, c, status) == Load(w, c, "status", Written(status))

\* Only a draft or a cancelled contract may be deleted; the row stays, as Cancelled.
Remove(w, c) ==
  /\ c \in Existing
  /\ contract[c].status \in {"Draft", "Cancelled"}
  /\ Load(w, c, "remove", Written("Cancelled"))

\* instance.update: only the fields that differ from the instance loaded before are written.
Field(new, was, now) == IF new \in {Keep, was} THEN now ELSE new

Saved(w) ==
  LET j == job[w] now == contract[j.id]
  IN [status  |-> Field(j.new.status, j.was.status, now.status),
      number  |-> Field(j.new.number, j.was.number, now.number),
      enquiry |-> Field(j.new.enquiry, j.was.enquiry, now.enquiry),
      seller  |-> Field(j.new.seller, j.was.seller, now.seller),
      buyer   |-> Field(j.new.buyer, j.was.buyer, now.buyer)]

Moves(w) == IF Saved(w).seller # contract[job[w].id].seller THEN {job[w].id} ELSE {}

Save(w) ==
  /\ pc[w] = "save"
  /\ Unlocked(w, {job[w].id})
  /\ Renumbers(w) => ~Taken(job[w].new.number)
  /\ contract' = [contract EXCEPT ![job[w].id] = Saved(w)]
  /\ issued' = issued \union Carries(Saved(w))
  /\ moved' = moved \union Moves(w)
  /\ End(w)

\* The connection is lost before the commit.
Crash(w) ==
  /\ pc[w] # "idle"
  /\ End(w)
  /\ UNCHANGED <<contract, issued, moved>>

-----------------------------------------------------------------------------

Init ==
  /\ contract = [c \in Contracts |-> Absent]
  /\ issued = {}
  /\ moved = {}
  /\ locked = [w \in Workers |-> {}]
  /\ pc = [w \in Workers |-> "idle"]
  /\ job = [w \in Workers |-> NoJob]

Request(w) ==
  \E c \in Contracts :
    \/ \E e \in Enquiries \union {None}, b \in Buyers, status \in Asked :
         \/ \E s \in AutoSellers : Create(w, c, e, s, b, None, status)
         \/ \E number \in Typed : Create(w, c, e, None, b, number, status)
    \/ \E new \in Changes : Update(w, c, new)
    \/ \E status \in Asked : UpdateStatus(w, c, status)
    \/ Remove(w, c)

Proceed(w) ==
  \/ CheckConverted(w) \/ TakeSnapshot(w) \/ LockAndNumber(w) \/ Insert(w)
  \/ Save(w) \/ Refuse(w)

Next == \E w \in Workers : Request(w) \/ Proceed(w) \/ Crash(w)

Spec == Init /\ [][Next]_vars

\* A waiter for row locks is served in turn; a client may never send a request.
FairSpec == Spec /\ \A w \in Workers : SF_vars(Proceed(w))

-----------------------------------------------------------------------------
(* Properties *)

Issuing(w) == pc[w] = "insert" /\ job[w].row.seller # None

TypedSequences == {<<n.seller, n.seq>> : n \in Typed}

\* A create that fails, or is refused, leaves no gap: every sequence the service
\* generates is the seller's first or follows another one by 4.
NoSequenceSkipped ==
  \A p \in issued \ TypedSequences : p[2] = InitialSequence[p[1]] \/ <<p[1], p[2] - 4>> \in issued

\* A number about to be inserted exceeds the sequence of every contract committed
\* before its statement began, unless an edit moved that one to another seller: the row
\* locks keep those numbers from changing.
NumberExceedsSeen ==
  \A w \in Workers : Issuing(w) =>
    \A n \in Sequences(job[w].row.seller, job[w].seen \ moved) : n < job[w].row.number.seq

\* Two contracts of a seller share a sequence that no user typed only when their numbers
\* carry the initials of different buyers: without an initial the unique index tells them
\* apart.
SharedOnlyAcrossBuyers ==
  \A c, d \in Numbered :
    LET n == contract[c].number IN
    /\ c # d
    /\ contract[d].number.seller = n.seller
    /\ contract[d].number.seq = n.seq
    /\ <<n.seller, n.seq>> \notin TypedSequences
    => n.seller \in Initialled /\ contract[d].number.initial # n.initial

\* What contract-number.util says of FOR UPDATE, of the contracts that stay with their
\* seller: it guarantees unique sequences (those a user types are not generated).
SequencesUnique ==
  \A c, d \in Numbered \ moved :
    LET n == contract[c].number IN
    /\ c # d
    /\ contract[d].number.seller = n.seller
    /\ contract[d].number.seq = n.seq
    => <<n.seller, n.seq>> \in TypedSequences

=============================================================================
