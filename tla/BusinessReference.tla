--------------------------- MODULE BusinessReference ---------------------------
(***************************************************************************)
(* Allocation and propagation of permanent business references (REF-nnnnnn)*)
(* by BusinessTransactionService and by the handlers that call it, each    *)
(* inside a READ COMMITTED transaction of its own.                         *)
(*                                                                         *)
(* A root (an enquiry, a contract without enquiry, a purchase contract     *)
(* without sales contract) is given a reference once, when it goes live;   *)
(* every record below the root takes the root's reference.  What keeps     *)
(* concurrent requests apart is: the row locks the service takes, the row  *)
(* lock on the single counter row, the foreign keys (which key-share-lock  *)
(* the parent row) and the root-owner trigger of migration phase-49.       *)
(*                                                                         *)
(* One worker runs one request at a time.  A step is one SQL statement (or *)
(* a run of statements that touch only rows the worker has locked).        *)
(***************************************************************************)
EXTENDS Integers, FiniteSets

CONSTANTS Enquiries,  \* enquiries rows
          Contracts,  \* sales_contracts rows, absent until created
          Purchases,  \* purchase_contracts rows (type MTT), absent until created
          Workers,    \* request handlers, one transaction each
          None        \* SQL NULL

Rows == Enquiries \union Contracts \union Purchases

ASSUME RowsAssumption ==
  /\ Enquiries \intersect Contracts = {}
  /\ Enquiries \intersect Purchases = {}
  /\ Contracts \intersect Purchases = {}
  /\ None \notin Rows

ASSUME NullAssumption == None \notin Nat

VARIABLES row,       \* committed version of every row
          cur,       \* newest version of every row, committed or not
          lock,      \* lock[w][r]: mode in which w holds the lock of row r
          counter,   \* committed business_transaction_counters.last_value
          ticket,    \* newest version of last_value, committed or not
          registry,  \* committed business_transactions rows
          alloc,     \* business_transactions rows each worker has inserted, uncommitted
          pc,        \* control state of each worker
          job        \* local variables of each worker's handler

vars == <<row, cur, lock, counter, ticket, registry, alloc, pc, job>>

Statuses == {"Absent", "PENDING", "CONFIRMED", "Draft", "Active", "In Progress"}
Keep == "keep"       \* a DTO without the status field

RowRec == [status: Statuses, parent: Rows \union {None}, bt: Nat \union {None}]
RefRec == [ref: Nat, root: Rows]

\* PostgreSQL row-lock modes, numbered so that two modes conflict iff they add up to 4.
NoLock == 0
KeyShare == 1
NoKeyUpdate == 2
Update == 3

AbsentRow == [status |-> "Absent", parent |-> None, bt |-> None]

NoJob == [row |-> None, status |-> Keep, parent |-> None, was |-> AbsentRow,
          root |-> None, cont |-> "commit", todo |-> {}, at |-> None]

Jobs == [row: Rows \union {None}, status: Statuses \union {Keep},
         parent: Rows \union {None}, was: RowRec, root: Rows \union {None},
         cont: {"header", "commit"}, todo: SUBSET Rows, at: Rows \union {None}]

Labels == {"idle", "enquiry", "insert", "ensure", "header", "root", "allocate",
           "propagate", "link", "commit"}

\* Every variable has its type.
TypeOK ==
  /\ row \in [Rows -> RowRec]
  /\ cur \in [Rows -> RowRec]
  /\ lock \in [Workers -> [Rows -> 0..3]]
  /\ counter \in Nat
  /\ ticket \in Nat
  /\ registry \in SUBSET RefRec
  /\ alloc \in [Workers -> SUBSET RefRec]
  /\ pc \in [Workers -> Labels]
  /\ job \in [Workers -> Jobs]

-----------------------------------------------------------------------------
(* Rows as a worker sees them *)

\* A worker reads its own uncommitted version of a row it has written or locked,
\* and the committed version of every other row.
View(w, r) == IF lock[w][r] >= NoKeyUpdate THEN cur[r] ELSE row[r]

Children(w, x) == {r \in Rows : View(w, r).parent = x}

\* The status in which a root may be given a reference.
Live(r) == IF r \in Enquiries THEN "CONFIRMED"
           ELSE IF r \in Contracts THEN "Active" ELSE "In Progress"

\* business_transactions rows visible to w
Registered(w) == registry \union alloc[w]

\* (mutant) The trigger does not compare the reference with the parent's.
TriggerAllowsOrphans(w, r, new, refs) ==
  \/ new.bt = None
  \/ new.parent # None
  \/ [ref |-> new.bt, root |-> r] \in refs /\ (cur[r].bt = None => new.status = Live(r))

\* (mutant) The trigger does not look at the root's status.
TriggerAllowsDormant(w, r, new, refs) ==
  \/ new.bt = None
  \/ new.parent = None /\ [ref |-> new.bt, root |-> r] \in refs
  \/ new.parent # None /\ View(w, new.parent).bt = new.bt

\* Trigger enforce_business_transaction_root_owner: may row r become version new?
TriggerAllows(w, r, new, refs) ==
  \/ new.bt = None
  \/ /\ new.parent = None
     /\ [ref |-> new.bt, root |-> r] \in refs
     /\ cur[r].bt = None => new.status = Live(r)
  \/ /\ new.parent # None
     /\ View(w, new.parent).bt = new.bt

\* The contract row as an update of sales-contract or purchase-contract.service
\* leaves it: only fields that differ from the instance loaded earlier are written.
MovesParent(w) == job[w].parent # job[w].was.parent

\* (mutant) A status the request leaves out is written as well.
HeaderRowAsGiven(w) ==
  [cur[job[w].row] EXCEPT !.status = job[w].status, !.parent = job[w].parent]

\* (mutant) Moving a contract takes its reference away.
HeaderRowUnlinked(w) ==
  [cur[job[w].row] EXCEPT !.parent = IF MovesParent(w) THEN job[w].parent ELSE @,
                          !.bt = IF MovesParent(w) THEN None ELSE @]

HeaderRow(w) ==
  LET j == job[w]
      old == cur[j.row]
  IN [status |-> IF j.status \in {Keep, j.was.status} THEN old.status ELSE j.status,
      parent |-> IF MovesParent(w) THEN j.parent ELSE old.parent,
      bt     |-> old.bt]

HeaderAllowed(w) ==
  MovesParent(w) => TriggerAllows(w, job[w].row, HeaderRow(w), Registered(w))

\* The reference being propagated, and the rows the UPDATE of setRelatedRecords matches.
Reference(w) == cur[job[w].root].bt

Targets(w) == {r \in Children(w, job[w].at) : cur[r].bt \in {None, Reference(w)}}

Linked(w, r) == [cur[r] EXCEPT !.bt = Reference(w)]

-----------------------------------------------------------------------------
(* Locks *)

\* (mutant) getOrCreateRoot reads the root without FOR UPDATE.
WantedUnlocked(w, r) ==
  IF \/ pc[w] \in {"insert", "header"} /\ r = job[w].row
     \/ pc[w] = "link" /\ r \in Targets(w)
     \/ pc[w] = "enquiry" /\ r = job[w].row
  THEN NoKeyUpdate ELSE NoLock

\* The lock mode the next statement of w needs on row r (foreign keys and the
\* trigger take KEY SHARE on the parent row).
Wanted(w, r) ==
  IF \/ pc[w] = "enquiry" /\ r = job[w].row
     \/ pc[w] = "root" /\ r = job[w].root
  THEN Update
  ELSE IF \/ pc[w] \in {"insert", "header"} /\ r = job[w].row
          \/ pc[w] = "link" /\ r \in Targets(w)
       THEN NoKeyUpdate
       ELSE IF /\ r = job[w].parent
               /\ \/ pc[w] = "insert"
                  \/ pc[w] = "header" /\ MovesParent(w)
            THEN KeyShare
            ELSE NoLock

\* The workers w waits for before its next statement.
Blockers(w) ==
  {v \in Workers \ {w} : \/ \E r \in Rows : lock[v][r] + Wanted(w, r) >= 4
                         \/ pc[w] = "allocate" /\ alloc[v] # {}}

MaxMode(a, b) == IF a >= b THEN a ELSE b

Acquire(w) ==
  /\ Blockers(w) = {}
  /\ lock' = [lock EXCEPT ![w] = [r \in Rows |-> MaxMode(lock[w][r], Wanted(w, r))]]

\* w waits, directly or not, for a worker that waits for w.
Deadlocked(w) ==
  \E S \in SUBSET Workers : w \in S /\ \A v \in S : Blockers(v) \intersect S # {}

\* No version of row r exists: the id a serial column hands to an INSERT.
Fresh(r) == /\ row[r] = AbsentRow
            /\ cur[r] = AbsentRow
            /\ \A v \in Workers : lock[v][r] = NoLock

Goto(w, label) == pc' = [pc EXCEPT ![w] = label]

\* End of the transaction: locks and local variables go.
Release(w) ==
  /\ lock' = [lock EXCEPT ![w] = [r \in Rows |-> NoLock]]
  /\ alloc' = [alloc EXCEPT ![w] = {}]
  /\ job' = [job EXCEPT ![w] = NoJob]
  /\ Goto(w, "idle")

Rollback(w) ==
  /\ cur' = [r \in Rows |-> IF lock[w][r] >= NoKeyUpdate THEN row[r] ELSE cur[r]]
  /\ ticket' = IF alloc[w] = {} THEN ticket ELSE counter
  /\ Release(w)
  /\ UNCHANGED <<row, counter, registry>>

-----------------------------------------------------------------------------
(* Requests: what a handler reads before its transaction starts *)

Start(w, label, j) ==
  /\ pc[w] = "idle"
  /\ job' = [job EXCEPT ![w] = j]
  /\ Goto(w, label)
  /\ UNCHANGED <<row, cur, lock, counter, ticket, registry, alloc>>

\* syncEnquiryStatus and enquiries.service update: the enquiry gets a new status.
SyncEnquiryStatus(w, e, s) ==
  Start(w, "enquiry", [NoJob EXCEPT !.row = e, !.status = s, !.root = e])

\* sales-contract.service create: refused when the enquiry is already converted.
CreateContract(w, c, e, s) ==
  /\ Fresh(c)
  /\ \A v \in Workers : job[v].row # c
  /\ e # None => \A d \in Contracts : row[d].parent # e
  /\ Start(w, "insert", [NoJob EXCEPT !.row = c, !.status = s, !.parent = e])

\* sales-contract.service update and updateStatus: the contract is loaded, and a
\* contract that has its reference may not move to another enquiry.
EditContract(w, c, e, s) ==
  /\ row[c].status # "Absent"
  /\ e # row[c].parent => row[c].bt = None
  /\ LET first == s = "Active" /\ (e # None \/ row[c].parent # None)
     IN Start(w, IF first THEN "ensure" ELSE "header",
              [NoJob EXCEPT !.row = c, !.status = s, !.parent = e,
                            !.was = row[c], !.cont = IF first THEN "header" ELSE "commit"])

\* purchase-contract.service ensureExists: the draft is inserted outside any transaction,
\* with the reference of the sales contract as it was read some statements before.
CreatePurchase(w, p, c) ==
  /\ pc[w] = "idle"
  /\ Fresh(p)
  /\ c # None => /\ row[c].status # "Absent"
                 /\ \A v \in Workers : lock[v][c] # Update
  /\ \E b \in {None} \union {row[d].bt : d \in {c} \ {None}} :
       /\ row' = [row EXCEPT ![p] = [status |-> "Draft", parent |-> c, bt |-> b]]
       /\ cur' = [cur EXCEPT ![p] = [status |-> "Draft", parent |-> c, bt |-> b]]
  /\ UNCHANGED <<lock, counter, ticket, registry, alloc, pc, job>>

\* purchase-contract.service updateStatus, update and the end of create: the linked
\* sales contract's root is ensured before the status is written, a standalone
\* contract's after.
EditPurchase(w, p, s) ==
  /\ row[p].status # "Absent"
  /\ LET linked == row[p].parent # None
     IN Start(w, IF linked \/ s = Keep THEN "ensure" ELSE "header",
              [NoJob EXCEPT !.row = p, !.status = s, !.parent = row[p].parent, !.was = row[p],
                            !.cont = IF linked /\ s # Keep THEN "header" ELSE "commit"])

-----------------------------------------------------------------------------
(* Statements of the transaction *)

\* Nothing of the request is needed after its own row is written, but which row it was.
Forget(w) == job' = [job EXCEPT ![w] = [NoJob EXCEPT !.row = job[w].row]]

SetEnquiryStatus(w) ==
  /\ pc[w] = "enquiry"
  /\ Acquire(w)
  /\ cur' = [cur EXCEPT ![job[w].row].status = job[w].status]
  /\ Goto(w, IF job[w].status = "CONFIRMED" THEN "root" ELSE "commit")
  /\ UNCHANGED <<row, counter, ticket, registry, alloc, job>>

InsertContract(w) ==
  /\ pc[w] = "insert"
  /\ Fresh(job[w].row)
  /\ Acquire(w)
  /\ cur' = [cur EXCEPT ![job[w].row] =
               [status |-> job[w].status, parent |-> job[w].parent, bt |-> None]]
  /\ Goto(w, IF job[w].status = "Active" THEN "ensure" ELSE "commit")
  /\ Forget(w)
  /\ UNCHANGED <<row, counter, ticket, registry, alloc>>

\* ensureForSalesContract and ensureForPurchaseContract: find the root and read,
\* without a lock, whether it is live.
Ensure(w) ==
  /\ pc[w] = "ensure"
  /\ LET j == job[w]
         up(r) == IF View(w, r).parent = None THEN r ELSE View(w, r).parent
         root == up(up(j.row))
         live == View(w, root).status = Live(root)
     IN /\ job' = [job EXCEPT ![w] = IF live THEN [j EXCEPT !.root = root]
                                             ELSE [j EXCEPT !.cont = "commit"]]
        /\ Goto(w, IF live THEN "root" ELSE j.cont)
  /\ UNCHANGED <<row, cur, lock, counter, ticket, registry, alloc>>

\* (mutant) An update does not ensure the reference.
UpdateHeaderOnly(w) ==
  /\ pc[w] = "header"
  /\ HeaderAllowed(w)
  /\ Acquire(w)
  /\ cur' = [cur EXCEPT ![job[w].row] = HeaderRow(w)]
  /\ Goto(w, "commit")
  /\ Forget(w)
  /\ UNCHANGED <<row, counter, ticket, registry, alloc>>

UpdateHeader(w) ==
  /\ pc[w] = "header"
  /\ HeaderAllowed(w)
  /\ Acquire(w)
  /\ cur' = [cur EXCEPT ![job[w].row] = HeaderRow(w)]
  /\ LET j == job[w]
         status == IF j.status = Keep THEN j.was.status ELSE j.status
     IN Goto(w, IF \/ j.row \in Contracts /\ status = "Active"
                   \/ j.row \in Purchases /\ j.parent = None
                THEN "ensure" ELSE "commit")
  /\ Forget(w)
  /\ UNCHANGED <<row, counter, ticket, registry, alloc>>

\* getOrCreateRoot: SELECT ... FOR UPDATE on the root.
LockRoot(w) ==
  /\ pc[w] = "root"
  /\ LET root == job[w].root
     IN /\ root \in Enquiries => cur[root].status = "CONFIRMED"
        /\ Acquire(w)
        /\ Goto(w, IF cur[root].bt = None THEN "allocate" ELSE "propagate")
        /\ job' = [job EXCEPT ![w].todo = {root}]
  /\ UNCHANGED <<row, cur, counter, ticket, registry, alloc>>

\* nextReference (the counter row stays locked until the transaction ends), the
\* insert of the business_transactions row and the update of the root.
AllocatedRef(w) == [ref |-> ticket + 1, root |-> job[w].root]

AllocatedRow(w) == [cur[job[w].root] EXCEPT !.bt = ticket + 1]

AllocateReference(w) ==
  /\ pc[w] = "allocate"
  /\ Blockers(w) = {}
  /\ TriggerAllows(w, job[w].root, AllocatedRow(w), Registered(w) \union {AllocatedRef(w)})
  /\ ticket' = ticket + 1
  /\ alloc' = [alloc EXCEPT ![w] = @ \union {AllocatedRef(w)}]
  /\ cur' = [cur EXCEPT ![job[w].root] = AllocatedRow(w)]
  /\ Goto(w, "propagate")
  /\ UNCHANGED <<row, lock, counter, registry, job>>

\* propagateEnquiry, propagateSalesContract: one call of setRelatedRecords is a read
\* that refuses rows of another root (CheckRelated), then an UPDATE (LinkRelated).
CheckRelated(w, x) ==
  /\ pc[w] = "propagate"
  /\ x \in job[w].todo
  /\ \A r \in Children(w, x) : View(w, r).bt \in {None, Reference(w)}
  /\ job' = [job EXCEPT ![w].at = x]
  /\ Goto(w, "link")
  /\ UNCHANGED <<row, cur, lock, counter, ticket, registry, alloc>>

\* (mutant) A record whose children are linked is propagated from again.
RemainingAll(w) == job[w].todo \union (Children(w, job[w].at) \intersect Contracts)

\* The records still to be propagated from once the children of at are linked.
Remaining(w) == (job[w].todo \ {job[w].at}) \union (Children(w, job[w].at) \intersect Contracts)

LinkRelated(w) ==
  /\ pc[w] = "link"
  /\ \A r \in Targets(w) : TriggerAllows(w, r, Linked(w, r), Registered(w))
  /\ Acquire(w)
  /\ cur' = [r \in Rows |-> IF r \in Targets(w) THEN Linked(w, r) ELSE cur[r]]
  /\ LET j == job[w]
     IN IF Remaining(w) # {}
        THEN /\ job' = [job EXCEPT ![w].todo = Remaining(w)]
             /\ Goto(w, "propagate")
        ELSE /\ job' = [job EXCEPT ![w] = [NoJob EXCEPT !.row = j.row, !.status = j.status,
                                                        !.parent = j.parent, !.was = j.was]]
             /\ Goto(w, j.cont)
  /\ UNCHANGED <<row, counter, ticket, registry, alloc>>

Commit(w) ==
  /\ pc[w] = "commit"
  /\ row' = [r \in Rows |-> IF lock[w][r] >= NoKeyUpdate THEN cur[r] ELSE row[r]]
  /\ counter' = IF alloc[w] = {} THEN counter ELSE ticket
  /\ registry' = Registered(w)
  /\ Release(w)
  /\ UNCHANGED <<cur, ticket>>

-----------------------------------------------------------------------------
(* Failures *)

\* A check or the trigger refuses the statement: the exception rolls the transaction back.
Throw(w) ==
  /\ Blockers(w) = {}
  /\ \/ /\ pc[w] = "root"
        /\ job[w].root \in Enquiries
        /\ cur[job[w].root].status # "CONFIRMED"
     \/ /\ pc[w] = "header"
        /\ ~HeaderAllowed(w)
     \/ /\ pc[w] = "allocate"
        /\ ~TriggerAllows(w, job[w].root, AllocatedRow(w), Registered(w) \union {AllocatedRef(w)})
     \/ /\ pc[w] = "propagate"
        /\ \E x \in job[w].todo : \E r \in Children(w, x) : View(w, r).bt \notin {None, Reference(w)}
  /\ Rollback(w)

\* PostgreSQL aborts a transaction that is part of a lock cycle.
DeadlockVictim(w) ==
  /\ pc[w] # "idle"
  /\ Deadlocked(w)
  /\ Rollback(w)

\* The connection is lost, or the process dies, before the commit.
Crash(w) ==
  /\ pc[w] # "idle"
  /\ Rollback(w)

-----------------------------------------------------------------------------

Init ==
  /\ row = [r \in Rows |-> IF r \in Enquiries THEN [AbsentRow EXCEPT !.status = "PENDING"]
                                              ELSE AbsentRow]
  /\ cur = row
  /\ lock = [w \in Workers |-> [r \in Rows |-> NoLock]]
  /\ counter = 0
  /\ ticket = 0
  /\ registry = {}
  /\ alloc = [w \in Workers |-> {}]
  /\ pc = [w \in Workers |-> "idle"]
  /\ job = [w \in Workers |-> NoJob]

Request(w) ==
  \/ \E e \in Enquiries, s \in {"PENDING", "CONFIRMED"} : SyncEnquiryStatus(w, e, s)
  \/ \E c \in Contracts, e \in Enquiries \union {None} :
       \/ \E s \in {"Draft", "Active"} : CreateContract(w, c, e, s)
       \/ \E s \in {"Draft", "Active", Keep} : EditContract(w, c, e, s)
  \/ \E p \in Purchases :
       \/ \E c \in Contracts \union {None} : CreatePurchase(w, p, c)
       \/ \E s \in {"Draft", "In Progress", Keep} : EditPurchase(w, p, s)

Proceed(w) ==
  \/ SetEnquiryStatus(w)
  \/ InsertContract(w)
  \/ Ensure(w)
  \/ UpdateHeader(w)
  \/ LockRoot(w)
  \/ AllocateReference(w)
  \/ \E x \in job[w].todo : CheckRelated(w, x)
  \/ LinkRelated(w)
  \/ Commit(w)
  \/ Throw(w)
  \/ DeadlockVictim(w)

Next == \E w \in Workers : Request(w) \/ Proceed(w) \/ Crash(w)

Spec == Init /\ [][Next]_vars

\* PostgreSQL queues the waiters of a lock, so a statement that can run again and again
\* eventually runs; nothing obliges a client to send a request.
FairSpec == Spec /\ \A w \in Workers : SF_vars(Proceed(w))

-----------------------------------------------------------------------------
(* Properties *)

\* References are numbered 1, 2, 3... without a gap: a transaction that fails after
\* nextReference gives its number back (the counter is a row, not a sequence).
GapFreeReferences == {b.ref : b \in registry} = 1..counter

\* Whatever requests run side by side, a root is given at most one reference and a
\* reference has one root, by the root's row lock alone (no unique index is modelled).
OneReferencePerRoot ==
  \A a, b \in registry : a.ref = b.ref \/ a.root = b.root => a = b

\* A business_transactions row and the link of its root commit together.
RootCarriesReference == \A b \in registry : row[b.root].bt = b.ref

\* The three together: references are 1, 2, 3..., each with a root of its own that carries it.
ReferencesSound == GapFreeReferences /\ OneReferencePerRoot /\ RootCarriesReference

\* A contract that has a reference has the one of the record it belongs to, although
\* EditContract tests the reference before its transaction starts.
InheritsReference ==
  \A r \in Rows : row[r].bt # None /\ row[r].parent # None => row[r].bt = row[row[r].parent].bt

\* A committed link is never changed or removed, although no statement of the service
\* locks the children it reads before it links them.
LinksImmutable ==
  [][\A r \in Rows : row[r].bt # None => row'[r].bt = row[r].bt]_vars

\* A reference is only ever given to a root that is live when the transaction commits,
\* although ensureForSalesContract reads the root's status without a lock.
AllocatedWhenLive ==
  [][\A b \in registry' \ registry : row'[b.root].status = Live(b.root)]_vars

\* An active contract of a confirmed enquiry has a reference.
ActiveContractsReferenced ==
  \A c \in Contracts :
    row[c].status = "Active" /\ row[c].parent \in {e \in Enquiries : row[e].status = "CONFIRMED"}
      => row[c].bt # None

\* The committed rows implement the registry of ReferenceRegistry: every commit is one of
\* its steps, every other step of the service leaves it alone.
Registry == INSTANCE ReferenceRegistry WITH link <- [r \in Rows |-> row[r].bt]

ImplementsRegistry == Registry!Spec

\* A request that has started ends: commits, is refused, or is rolled back.
RequestsEnd == \A w \in Workers : pc[w] # "idle" ~> pc[w] = "idle"

=============================================================================
