---------------------------- MODULE PurchaseContracts ----------------------------
(***************************************************************************)
(* The purchase contracts of one sales contract, in                        *)
(* PurchaseContractService: ensureExists (called when a shipment is saved  *)
(* or stuffed, and by create), create, update, updateStatus, remove and    *)
(* clearDrafts; the reallocation of the sales contract's shipments over    *)
(* its purchase contracts; and the transport queue record of each.         *)
(*                                                                         *)
(* Nothing is locked but the rows a transaction has written: each step is  *)
(* a read, an autocommitted write or a commit, and requests interleave     *)
(* between the steps.  What a transaction writes becomes visible in its    *)
(* commit step.                                                            *)
(*                                                                         *)
(* Quantities are counted in shipments: all shipments of a sales contract  *)
(* carry its Qty Per Count, and a purchase quantity is a multiple of it.   *)
(***************************************************************************)
EXTENDS Integers, Sequences, FiniteSets, FiniteSetsExt

CONSTANTS MaxPurchases,    \* bound on purchase contracts ever created
          MaxShipments,    \* shipments of the sales contract
          SalesQuantities, \* quantities the sales contract may be given
          Ready,           \* shipments whose cargo and freight are ready
          Headers,         \* what create asks: <<header differs, purchaseDate given>>
          Asked,           \* statuses updateStatus is asked for
          Patched,         \* statuses update is asked for
          Delivery,        \* statuses a shipment is given by other services
          FromEnquiry,     \* does the sales contract come from an enquiry?
          Workers,
          None, Keep

Purchases == 1..MaxPurchases

Shipments == 1..MaxShipments   \* in shipmentSequence order

Statuses == {"Draft", "In Progress", "Awaiting Documents", "Ready for Dispatch",
             "Completed", "Closed", "Cancelled"}

ShipmentStatuses == {"Scheduled", "Executed", "Delivered"}

ASSUME PurchaseAssumption ==
  /\ MaxPurchases \in Nat
  /\ MaxShipments \in Nat
  /\ SalesQuantities \subseteq Nat /\ SalesQuantities # {} /\ IsFiniteSet(SalesQuantities)
  /\ Ready \subseteq Shipments
  /\ Headers \subseteq BOOLEAN \X BOOLEAN
  /\ Asked \union Patched \subseteq Statuses
  /\ Delivery \subseteq ShipmentStatuses
  /\ FromEnquiry \in BOOLEAN
  /\ None \notin Workers /\ Keep \notin Statuses

VARIABLES salesQty,  \* sales_contracts.total_quantity
          purchase,  \* purchase_contracts rows
          lastId,
          links,     \* purchase_contract_shipments
          shipment,  \* sales_contract_shipments.status
          queue,     \* logistics rows: the purchase contract each names
          holder,    \* the transaction that has written a purchase contract's row
          pc, job

vars == <<salesQty, purchase, lastId, links, shipment, queue, holder, pc, job>>
data == <<salesQty, purchase, lastId, links, shipment, queue, holder>>

\* STATUS_TRANSITIONS
Transitions ==
  [s \in Statuses |->
     CASE s = "Draft"              -> {"In Progress", "Cancelled"}
       [] s = "In Progress"        -> {"Awaiting Documents", "Ready for Dispatch", "Completed", "Cancelled"}
       [] s = "Awaiting Documents" -> {"In Progress", "Ready for Dispatch", "Completed", "Cancelled"}
       [] s = "Ready for Dispatch" -> {"Completed", "Cancelled"}
       [] s = "Completed"          -> {"Closed"}
       [] s = "Closed"             -> {}
       [] s = "Cancelled"          -> {"Draft"}]

Absent == [status |-> "Absent", qty |-> 0]

Labels == {"idle", "ensure", "topup", "insert", "link", "mark", "header", "dated", "save",
           "begin", "read", "destroy", "commit", "status", "queue", "enqueue"}

NoJob == [op |-> "none", id |-> None, ships |-> {}, qty |-> Keep, old |-> None, next |-> Keep,
          header |-> <<FALSE, FALSE>>, alloc |-> {}, dead |-> {}, before |-> "commit", after |-> "queue"]

\* Every variable has its type.
TypeOK ==
  /\ salesQty \in Nat
  /\ purchase \in [Purchases -> [status: Statuses, qty: Nat] \union {Absent}]
  /\ lastId \in 0..MaxPurchases
  /\ links \subseteq Purchases \X Shipments
  /\ shipment \in [Shipments -> ShipmentStatuses]
  /\ queue \in Seq(Purchases)
  /\ holder \in [Purchases -> Workers \union {None}]
  /\ pc \in [Workers -> Labels]
  /\ \A w \in Workers : /\ job[w].alloc \subseteq Purchases \X Shipments
                        /\ job[w].dead \subseteq Purchases \X Shipments

-----------------------------------------------------------------------------
(* Quantities and allocation *)

Exists(p) == p # None /\ purchase[p] # Absent

\* Rows as the transaction of w sees them: its own status change included.
View(w, p) ==
  IF holder[p] = w /\ job[w].next # Keep /\ purchase[p] # Absent
  THEN [purchase[p] EXCEPT !.status = job[w].next] ELSE purchase[p]

Counted(row) == row.status \notin {"Absent", "Cancelled"}

ActiveFor(w) == {p \in Purchases : Counted(View(w, p))}

Active == {p \in Purchases : Counted(purchase[p])}

Total(P) == SumFunctionOnSet([p \in Purchases |-> purchase[p].qty], P)

\* (mutant) The first shipment of a purchase contract is the last one of the previous.
SharedAllocation(P) ==
  {l \in P \X Shipments :
     LET before == Total({q \in P : q < l[1]})
     IN before <= l[2] /\ l[2] <= before + purchase[l[1]].qty}

\* reallocateSalesContractShipments: purchase contracts in id order take the next shipments.
Allocation(P) ==
  {l \in P \X Shipments :
     LET before == Total({q \in P : q < l[1]})
     IN before < l[2] /\ l[2] <= before + purchase[l[1]].qty}

\* (mutant) The other purchase contracts are forgotten.
FitsAlone(p, q) == q <= salesQty

\* (mutant) Nothing is validated.
FitsAlways(p, q) == TRUE

\* validateQuantityAgainstSalesContract
Fits(p, q) == Total(Active \ {p}) + q <= salesQty

Free(w, p) == holder[p] \in {None, w}

-----------------------------------------------------------------------------

Goto(w, label, j) ==
  /\ pc' = [pc EXCEPT ![w] = label]
  /\ job' = [job EXCEPT ![w] = j]

Start(w, label, j) == pc[w] = "idle" /\ Goto(w, label, j)

Unlock(w) == holder' = [p \in Purchases |-> IF holder[p] = w THEN None ELSE holder[p]]

\* End of a request that holds no lock.
End(w) == Goto(w, "idle", NoJob)

(* ensureExists *)

\* shipment.service update: the shipment is saved, then ensureExists is called for it.
\* Moving to Executed requires the shipment to be ready.
SaveShipment(w, s, status) ==
  /\ status = "Executed" => s \in Ready \/ shipment[s] = "Executed"
  /\ shipment' = [shipment EXCEPT ![s] = IF status = Keep THEN @ ELSE status]
  /\ Start(w, "ensure", [NoJob EXCEPT !.op = "shipment", !.ships = {s}, !.qty = 1, !.after = "idle"])
  /\ UNCHANGED <<salesQty, purchase, lastId, links, queue, holder>>

\* saveStuffingExecution, when a stuffing is complete.
StuffingComplete(w) ==
  /\ Start(w, "ensure", [NoJob EXCEPT !.op = "stuffing", !.after = "idle"])
  /\ UNCHANGED data

Create(w, S, h) ==
  /\ Start(w, "ensure", [NoJob EXCEPT !.op = "create", !.ships = S, !.header = h, !.after = "header"])
  /\ UNCHANGED data

Requested(w) == job[w].qty # Keep

Refused(w) == Requested(w) /\ ~Fits(None, job[w].qty)

\* Read the purchase contracts: an empty draft is topped up, else the oldest one is taken.
Ensure(w) ==
  /\ pc[w] = "ensure"
  /\ ~Refused(w)
  /\ LET j == job[w]
         remaining == Max({0, salesQty - Total(Active)})
         empty == {p \in Active : purchase[p].status = "Draft" /\ purchase[p].qty = 0}
     IN IF Active = {}
        THEN Goto(w, "insert", [j EXCEPT !.qty = IF Requested(w) THEN j.qty ELSE remaining])
        ELSE IF empty # {}
             THEN Goto(w, IF remaining > 0 THEN "topup" ELSE "mark",
                       [j EXCEPT !.id = Min(empty), !.qty = IF remaining > 0 THEN remaining ELSE Keep])
             ELSE Goto(w, "mark", [j EXCEPT !.id = Min(Active), !.qty = Keep])
  /\ UNCHANGED data

SetQuantity(p, q) == purchase' = [purchase EXCEPT ![p] = IF @ = Absent THEN @ ELSE [@ EXCEPT !.qty = q]]

TopUp(w) ==
  /\ pc[w] = "topup"
  /\ Free(w, job[w].id)
  /\ SetQuantity(job[w].id, job[w].qty)
  /\ Goto(w, "mark", [job[w] EXCEPT !.qty = Keep])
  /\ UNCHANGED <<salesQty, lastId, links, shipment, queue, holder>>

\* The new draft; then its shipments, or a reallocation in a transaction of its own.
InsertPurchase(w) ==
  /\ pc[w] = "insert"
  /\ lastId < MaxPurchases
  /\ lastId' = lastId + 1
  /\ purchase' = [purchase EXCEPT ![lastId + 1] = [status |-> "Draft", qty |-> job[w].qty]]
  /\ IF job[w].ships # {}
     THEN Goto(w, "link", [job[w] EXCEPT !.id = lastId + 1, !.qty = Keep])
     ELSE Goto(w, "read", [job[w] EXCEPT !.id = lastId + 1, !.qty = Keep, !.after = "mark"])
  /\ UNCHANGED <<salesQty, links, shipment, queue, holder>>

LinkShipments(w) ==
  /\ pc[w] = "link"
  /\ Exists(job[w].id)
  /\ links' = links \union ({job[w].id} \X job[w].ships)
  /\ Goto(w, "mark", job[w])
  /\ UNCHANGED <<salesQty, purchase, lastId, shipment, queue, holder>>

\* The shipments passed to ensureExists become Executed.
MarkExecuted(w) ==
  /\ pc[w] = "mark"
  /\ shipment' = [s \in Shipments |-> IF s \in job[w].ships THEN "Executed" ELSE shipment[s]]
  /\ IF job[w].op = "create" THEN Goto(w, "header", [job[w] EXCEPT !.ships = {}]) ELSE End(w)
  /\ UNCHANGED <<salesQty, purchase, lastId, links, queue, holder>>

\* (mutant) A header that does not change is written as well.
WritesHeaderAlways(j) == Exists(j.id)

\* Sequelize writes a row only when a field differs from the instance.
WritesHeader(j) == j.header[1] /\ Exists(j.id)

\* create: the header is written and the shipments are reallocated in the transaction ...
WriteHeader(w) ==
  /\ pc[w] = "header"
  /\ LET j == job[w]
     IN /\ WritesHeader(j) => Free(w, j.id)
        /\ holder' = IF WritesHeader(j) THEN [holder EXCEPT ![j.id] = w] ELSE holder
        /\ Goto(w, "read", [j EXCEPT !.before = "dated", !.after = "queue"])
  /\ UNCHANGED <<salesQty, purchase, lastId, links, shipment, queue>>

\* ... and the purchase date is written outside it, on another connection.
WriteDate(w) ==
  /\ pc[w] = "dated"
  /\ job[w].header[2] => holder[job[w].id] = None
  /\ Goto(w, "commit", [job[w] EXCEPT !.header = <<FALSE, FALSE>>])
  /\ UNCHANGED data

(* update, updateStatus, remove, clearDrafts *)

Update(w, p, q, status) ==
  /\ Exists(p)
  /\ q # Keep => Fits(p, q)
  /\ Start(w, "save", [NoJob EXCEPT !.op = "update", !.id = p, !.qty = q, !.next = status,
                                    !.old = purchase[p].status, !.after = "status"])
  /\ UNCHANGED data

SaveQuantity(w) ==
  /\ pc[w] = "save"
  /\ Free(w, job[w].id)
  /\ IF Requested(w) THEN SetQuantity(job[w].id, job[w].qty) ELSE UNCHANGED purchase
  /\ Goto(w, "read", [job[w] EXCEPT !.qty = Keep])
  /\ UNCHANGED <<salesQty, lastId, links, shipment, queue, holder>>

SetStatus(w) ==
  LET j == job[w]
  IN purchase' = [purchase EXCEPT ![j.id] =
                    IF @ = Absent \/ j.next \in {Keep, j.old} THEN @ ELSE [@ EXCEPT !.status = j.next]]

\* update's own status write: any status, whatever the current one.
WriteStatus(w) ==
  /\ pc[w] = "status"
  /\ Free(w, job[w].id)
  /\ SetStatus(w)
  /\ Goto(w, "queue", [NoJob EXCEPT !.id = job[w].id])
  /\ UNCHANGED <<salesQty, lastId, links, shipment, queue, holder>>

LinkedTo(p) == {s \in Shipments : <<p, s>> \in links}

UpdateStatus(w, p, status) ==
  /\ Exists(p)
  /\ status \in Transitions[purchase[p].status]
  /\ status = "Completed" => /\ LinkedTo(p) # {}
                             /\ \A s \in LinkedTo(p) : shipment[s] = "Delivered"
  /\ purchase[p].status = "Draft" /\ status # "Cancelled" => LinkedTo(p) # {}
  /\ Start(w, "begin", [NoJob EXCEPT !.op = "status", !.id = p, !.next = status,
                                     !.old = purchase[p].status])
  /\ UNCHANGED data

Remove(w, p) ==
  /\ Exists(p)
  /\ purchase[p].status \in {"Draft", "Cancelled"}
  /\ Start(w, "begin", [NoJob EXCEPT !.op = "remove", !.id = p, !.next = "Cancelled",
                                     !.old = purchase[p].status, !.after = "idle"])
  /\ UNCHANGED data

Reactivates(w) == job[w].old = "Cancelled" /\ job[w].next = "Draft"

\* The status is written in a transaction; a cancellation and a reactivation reallocate in it.
Begin(w) ==
  /\ pc[w] = "begin"
  /\ LET j == job[w]
     IN /\ Free(w, j.id)
        /\ Reactivates(w) => Fits(j.id, purchase[j.id].qty)
        /\ holder' = [holder EXCEPT ![j.id] = IF j.next = j.old THEN @ ELSE w]
        /\ Goto(w, IF j.next = "Cancelled" \/ Reactivates(w) THEN "read" ELSE "commit", j)
  /\ UNCHANGED <<salesQty, purchase, lastId, links, shipment, queue>>

\* The drafts without a business reference; which these are is left open.
ClearDrafts(w) ==
  \E drafts \in SUBSET {p \in Purchases : purchase[p].status = "Draft"} :
     /\ pc[w] = "idle"
     /\ drafts # {} /\ \A p \in drafts : holder[p] = None
     /\ purchase' = [p \in Purchases |-> IF p \in drafts THEN Absent ELSE purchase[p]]
     /\ links' = {l \in links : l[1] \notin drafts}
     /\ UNCHANGED <<salesQty, lastId, shipment, queue, holder, pc, job>>

(* reallocateSalesContractShipments *)

Exceeded(w) == Total(ActiveFor(w)) > salesQty

ReadAllocation(w) ==
  /\ pc[w] = "read"
  /\ ~Exceeded(w)
  /\ Goto(w, "destroy", [job[w] EXCEPT !.alloc = Allocation(ActiveFor(w))])
  /\ UNCHANGED data

\* DELETE of the links its snapshot shows
DestroyLinks(w) ==
  /\ pc[w] = "destroy"
  /\ Goto(w, job[w].before, [job[w] EXCEPT !.dead = links])
  /\ UNCHANGED data

\* Links that a unique index or a foreign key refuses
Conflict(w) ==
  \/ job[w].alloc \intersect (links \ job[w].dead) # {}
  \/ \E l \in job[w].alloc : purchase[l[1]] = Absent

Commit(w) ==
  /\ pc[w] = "commit"
  /\ ~Conflict(w)
  /\ links' = (links \ job[w].dead) \union job[w].alloc
  /\ IF \E p \in Purchases : holder[p] = w THEN SetStatus(w) ELSE UNCHANGED purchase
  /\ Unlock(w)
  /\ LET j == job[w]
     IN CASE j.after = "idle"  -> End(w)
          [] j.after = "queue" -> Goto(w, "queue", [NoJob EXCEPT !.id = j.id])
          [] OTHER             -> Goto(w, j.after, [j EXCEPT !.alloc = {}, !.dead = {}])
  /\ UNCHANGED <<salesQty, lastId, shipment, queue>>

(* syncTransportQueue *)

Queued == {"In Progress", "Awaiting Documents", "Ready for Dispatch", "Completed", "Closed"}

Found(p) == {i \in DOMAIN queue : queue[i] = p \/ FromEnquiry}

LookUpQueue(w) ==
  /\ pc[w] = "queue"
  /\ LET p == job[w].id
     IN IF purchase[p].status \notin Queued
        THEN End(w) /\ UNCHANGED queue
        ELSE IF Found(p) = {}
             THEN Goto(w, "enqueue", job[w]) /\ UNCHANGED queue
             ELSE End(w) /\ \E i \in Found(p) : queue' = [queue EXCEPT ![i] = p]
  /\ UNCHANGED <<salesQty, purchase, lastId, links, shipment, holder>>

Enqueue(w) ==
  /\ pc[w] = "enqueue"
  /\ queue' = Append(queue, job[w].id)
  /\ End(w)
  /\ UNCHANGED <<salesQty, purchase, lastId, links, shipment, holder>>

\* Not in the code: the bound on ids.
OutOfIds(w) ==
  /\ pc[w] = "insert"
  /\ lastId = MaxPurchases
  /\ End(w)
  /\ UNCHANGED data

(* Failures: the open transaction is undone, what was autocommitted stays *)

Fail(w) == /\ Unlock(w)
           /\ End(w)
           /\ UNCHANGED <<salesQty, purchase, lastId, links, shipment, queue>>

Throw(w) ==
  /\ \/ pc[w] = "ensure" /\ Refused(w)
     \/ pc[w] = "read" /\ Exceeded(w)
     \/ pc[w] = "begin" /\ Reactivates(w) /\ ~Fits(job[w].id, purchase[job[w].id].qty)
     \/ pc[w] = "commit" /\ Conflict(w)
     \/ pc[w] = "link" /\ ~Exists(job[w].id)
  /\ Fail(w)

Crash(w) == pc[w] # "idle" /\ Fail(w)

(* Requests to other services that write what this one reads *)

\* sales-contract.service update gives the sales contract another quantity ...
SetSalesQuantity(w, q) ==
  /\ pc[w] = "idle"
  /\ q # salesQty
  /\ salesQty' = q
  /\ UNCHANGED <<purchase, lastId, links, shipment, queue, holder, pc, job>>

\* ... or a shipment another status.
SetShipmentStatus(w, s, status) ==
  /\ pc[w] = "idle"
  /\ shipment' = [shipment EXCEPT ![s] = status]
  /\ UNCHANGED <<salesQty, purchase, lastId, links, queue, holder, pc, job>>

-----------------------------------------------------------------------------

Init ==
  /\ salesQty \in SalesQuantities
  /\ purchase = [p \in Purchases |-> Absent]
  /\ lastId = 0
  /\ links = {}
  /\ shipment = [s \in Shipments |-> "Scheduled"]
  /\ queue = <<>>
  /\ holder = [p \in Purchases |-> None]
  /\ pc = [w \in Workers |-> "idle"]
  /\ job = [w \in Workers |-> NoJob]

Request(w) ==
  \/ \E s \in Shipments, status \in Delivery \union {Keep} : SaveShipment(w, s, status)
  \/ StuffingComplete(w)
  \/ \E S \in {{}} \union {{s} : s \in Shipments}, h \in Headers : Create(w, S, h)
  \/ \E p \in Purchases :
       \/ \E q \in 0..(Max(SalesQuantities) + 1) \union {Keep}, status \in Patched \union {Keep} :
            Update(w, p, q, status)
       \/ \E status \in Asked : UpdateStatus(w, p, status)
       \/ Remove(w, p)
  \/ ClearDrafts(w)

Proceed(w) ==
  \/ Ensure(w) \/ TopUp(w) \/ InsertPurchase(w) \/ LinkShipments(w) \/ MarkExecuted(w)
  \/ WriteHeader(w) \/ WriteDate(w) \/ SaveQuantity(w) \/ WriteStatus(w) \/ Begin(w)
  \/ ReadAllocation(w) \/ DestroyLinks(w) \/ Commit(w)
  \/ LookUpQueue(w) \/ Enqueue(w) \/ OutOfIds(w) \/ Throw(w)

OtherServices(w) ==
  \/ \E q \in SalesQuantities : SetSalesQuantity(w, q)
  \/ \E s \in Shipments, status \in Delivery : SetShipmentStatus(w, s, status)

Next == \E w \in Workers : OtherServices(w) \/ Request(w) \/ Proceed(w) \/ Crash(w)

Spec == Init /\ [][Next]_vars

\* The event loop runs every handler; PostgreSQL serves waiters of a row in turn.
FairSpec == Spec /\ \A w \in Workers : SF_vars(Proceed(w))

-----------------------------------------------------------------------------
(* Properties *)

Quiet == \A w \in Workers : pc[w] = "idle"

\* The purchase contracts that count never exceed the sales contract, although every
\* check reads them without a lock.
WithinSales == Total(Active) <= salesQty

\* No step books more than the sales contract has at that time; lowering its quantity may
\* leave it overbooked, and nothing books on top of that.
NeverOverbooks ==
  [][Total(Active)' > Total(Active) => WithinSales']_vars

\* The most the sales contract ever has
Largest == Max(SalesQuantities)

\* What validation alone secures when requests interleave: no single purchase contract
\* exceeds the most its sales contract had, though the quantity be lowered meanwhile.
EachWithinSales == \A p \in Purchases : purchase[p].qty <= Largest

\* A shipment is linked to one purchase contract at most.
NoOverlap == \A k, l \in links : k[2] = l[2] => k = l

\* A cancelled purchase contract holds no shipment once no request is under way.
CancelledHoldsNothing ==
  Quiet => \A l \in links : purchase[l[1]].status # "Cancelled"

\* What the comment in syncTransportQueue says: no duplicate records for a purchase contract.
OneQueueRecord == \A i, k \in DOMAIN queue : queue[i] = queue[k] => i = k

\* The three together, as long as requests run one at a time.
RecordsSound == TypeOK /\ NoOverlap /\ CancelledHoldsNothing /\ OneQueueRecord

\* Every request ends.
RequestsEnd == \A w \in Workers : pc[w] # "idle" ~> pc[w] = "idle"

-----------------------------------------------------------------------------
(* What a reader of the code might expect and TLC refutes; no run checks these. *)

\* The record created for a purchase contract stays that purchase contract's.
RecordsKept == [][\A i \in DOMAIN queue : queue'[i] = queue[i]]_vars

\* STATUS_TRANSITIONS binds every change of status.
StatusFollowsRules ==
  [][\A p \in Active : purchase'[p] # Absent =>
       purchase'[p].status \in {purchase[p].status} \union Transitions[purchase[p].status]]_vars

\* Shipments are Executed only when their cargo and freight are ready.
ExecutedWhenReady == \A s \in Shipments : shipment[s] = "Executed" => s \in Ready

\* A purchase contract with a quantity holds shipments once no request is under way.
QuantityIsLinked ==
  Quiet => \A p \in Active : purchase[p].qty > 0 => LinkedTo(p) # {}

=============================================================================
