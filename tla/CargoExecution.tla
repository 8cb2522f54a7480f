----------------------------- MODULE CargoExecution -----------------------------
(***************************************************************************)
(* The execution of one shipment: its row, its truck loadings, its         *)
(* stuffing job and the cargo allocated to it, and the handlers that write *)
(* them: createLoading, updateLoadingStatus and                            *)
(* syncExecutedShipmentLoadings of cargo-availability, update,             *)
(* saveStuffingExecution and ensureExecutionRecords of the shipment        *)
(* service.                                                                *)
(*                                                                         *)
(* A transaction is a run of steps that lock rows or read what is          *)
(* committed, and one last step that writes and commits: what it writes    *)
(* before is invisible to the others, and the rows are locked by then.     *)
(* syncExecutedShipmentLoadings has no transaction: each of its statements *)
(* commits at once.                                                        *)
(***************************************************************************)
EXTENDS Integers, Sequences, FiniteSets, SequencesExt

CONSTANTS Loadings,   \* cargo_loading rows, absent until created
          Workers,    \* request handlers
          Quantities, \* tonnes a shipment has, a truck carries or an allocation gives
          Updates,    \* what users enter for a loading: a status, a quantity, a truck
          Stuffings,  \* what they save for the stuffing job
          Edits,      \* statuses users give a shipment
          Asked,      \* handlers that are called
          MaxCrashes, \* bound on crashes
          None

ASSUME QuantitiesAssumption == Quantities \subseteq Nat \ {0}

Loaded == Quantities \union {0}

ASSUME RowsAssumption ==
  /\ IsFiniteSet(Loadings)
  /\ None \notin Loadings \union Loaded
  /\ MaxCrashes \in Nat

\* getLoadingStatusRank
Ladder == <<"Draft", "Pending", "Ready", "Truck Arrived", "Weighment In",
            "Stuffing Started", "Loading Started", "Stuffing In Progress",
            "Stuffing Completed", "Loading Completed", "Weighment Out",
            "Ready For Dispatch", "Dispatched", "Reached Destination",
            "Unloaded", "Verified", "Completed">>

Rank(status) == CHOOSE i \in 1..Len(Ladder) : Ladder[i] = status

\* Statuses of a loading that must carry something
IsLoaded(status) == Rank(status) >= Rank("Loading Completed")

\* "none" and None: the field is not given; cleared: the truck is sent empty.  A stuffing job
\* is saved as a draft with an execution status, or completed, with its containers (packed) or
\* without.
ASSUME InputsAssumption ==
  /\ Updates \subseteq [status : ToSet(Ladder) \union {"none"}, qty : Loaded \union {None},
                        truck : BOOLEAN, cleared : BOOLEAN]
  /\ Stuffings \subseteq [status : ToSet(Ladder), qty : Loaded, complete : BOOLEAN, packed : BOOLEAN, truck : BOOLEAN]
  /\ \A s \in Stuffings : /\ s.complete => s.status = "Loading Completed"
                          /\ s.truck => s.packed

VARIABLES shipment,   \* committed sales_contract_shipments row
          loading,    \* committed cargo_loading rows
          stuffing,   \* stuffingStatus of the shipment's shipment_stuffings row
          allocation, \* the shipment's cargo_shipment_allocations row
          holds,      \* row locks of each worker's transaction
          pc, job,    \* control state and local variables of each worker
          crashes

vars == <<shipment, loading, stuffing, allocation, holds, pc, job, crashes>>
tables == <<shipment, loading, stuffing, allocation>>

Executed == {"Executed", "Stuffed", "Dispatched", "Completed"}

ShipmentStatuses == {"Scheduled"} \union Edits \union Executed

\* linked: the loading names the allocation
NoLoading == [made |-> FALSE, truck |-> FALSE, status |-> "Pending", qty |-> 0, linked |-> FALSE]

Saved(truck, status, qty, linked) ==
  [made |-> TRUE, truck |-> truck, status |-> status, qty |-> qty, linked |-> linked]

Handlers == {"createLoading", "updateLoadingStatus", "saveStuffingExecution", "update",
             "ensureExecutionRecords", "syncExecutedShipmentLoadings"}

Labels == {"idle", "loading", "shipment", "check", "pending", "stuffing", "records",
           "save", "commit", "insert", "stuff"}

NoJob == [op |-> "none", new |-> None, l |-> None, c |-> None, status |-> "none",
          qty |-> None, truck |-> FALSE, cleared |-> FALSE, packed |-> FALSE, complete |-> FALSE,
          was |-> None, seen |-> FALSE]

Jobs == [op : Handlers \union {"none"}, new : Loadings \union {None},
         l : Loadings \union {None}, c : Loadings \union {None},
         status : ToSet(Ladder) \union Edits \union {"none"},
         qty : Loaded \union {None}, truck : BOOLEAN, cleared : BOOLEAN, packed : BOOLEAN,
         complete : BOOLEAN, was : {None} \union ShipmentStatuses, seen : BOOLEAN]

\* Row locks: Shipment is FOR UPDATE, Row an UPDATE of it, Key that of a foreign key.
Shipment == <<"shipment">>
Row == <<"shipment row">>
Key == <<"shipment key">>
Stuffing == <<"stuffing">>
Loading(l) == <<"loading", l>>
Locks == {Shipment, Row, Key, Stuffing} \union {Loading(l) : l \in Loadings}

\* Every variable has its type.
TypeOK ==
  /\ shipment \in [status : ShipmentStatuses, quantity : Quantities]
  /\ loading \in [Loadings -> [made : BOOLEAN, truck : BOOLEAN, status : ToSet(Ladder),
                               qty : Loaded, linked : BOOLEAN]]
  /\ stuffing \in {"none", "Pending", "In Progress", "Completed"}
  /\ allocation \in [status : {"none", "Active", "Cancelled"}, qty : Loaded]
  /\ holds \in [Workers -> SUBSET Locks]
  /\ pc \in [Workers -> Labels]
  /\ job \in [Workers -> Jobs]
  /\ crashes \in 0..MaxCrashes

-----------------------------------------------------------------------------
(* Rows *)

Made == {l \in Loadings : loading[l].made}

\* uq_cargo_loading_pending_shipment allows one loading without a truck.
Truckless == {l \in Made : ~loading[l].truck}

\* Tonnes on the loadings of S
Tonnes(S) == SumFunctionOnSet([l \in Loadings |-> loading[l].qty], S)

Reserved == {job[w].new : w \in Workers}

\* A row a handler may insert.  Only createLoading adds to rows that are there.
NewFor(op) ==
  IF op = "createLoading" \/ Made = {} THEN Loadings \ (Made \union Reserved) ELSE {None}

\* Status of the stuffing job under a loading status
StuffingOf(status) ==
  IF Rank(status) >= Rank("Stuffing Completed") THEN "Completed"
  ELSE IF Rank(status) >= Rank("Stuffing Started") THEN "In Progress"
  ELSE "Pending"

-----------------------------------------------------------------------------
(* Transactions *)

Existing(S) == {Loading(l) : l \in S \intersect Made}

StuffingRow == IF stuffing = "none" THEN {} ELSE {Stuffing}

\* (mutant) Any loading without a truck waits for one.
WaitingAny == Truckless

\* Loadings that wait for a truck
Waiting == {l \in Truckless : loading[l].status \in {"Draft", "Pending", "Ready"}}

\* ensureExecutionRecords writes the loading it finds, or inserts one: with the weight
\* and the status of a stuffing job when the loading has none of its own yet.
Links(l) == allocation.status = "Active" /\ ~loading[l].linked

Fills(j) == j.op = "saveStuffingExecution" /\ loading[j.l].status \in {"Draft", "Pending"}

Touches(j) == j.l \in Made /\ (Links(j.l) \/ Fills(j))

Inserts(j) == j.l = j.new \/ ~j.seen

Wanted(w) ==
  CASE pc[w] = "loading"  -> {Loading(job[w].l)}
    [] pc[w] = "shipment" -> {IF job[w].op = "update" THEN Row ELSE Shipment}
    [] pc[w] = "pending"  -> Existing(IF job[w].op = "createLoading" THEN Waiting ELSE Truckless)
    [] pc[w] = "stuffing" -> StuffingRow
    [] pc[w] = "records"  -> Existing(Truckless)
    [] pc[w] = "save"     -> IF Touches(job[w]) THEN Existing({job[w].l}) ELSE {}
    [] pc[w] = "commit"   -> Existing({job[w].c}) \union (IF Inserts(job[w]) THEN {Key} ELSE {})
    [] pc[w] = "insert"   -> IF job[w].seen THEN Existing({job[w].l}) ELSE {Key}
    [] pc[w] = "stuff"    -> IF job[w].seen THEN {} ELSE {Key}
    [] OTHER -> {}

Clash(x) == CASE x = Shipment -> {Shipment, Row, Key}
              [] x = Row -> {Shipment, Row}
              [] x = Key -> {Shipment}
              [] OTHER -> {x}

Blockers(w) == {v \in Workers \ {w} : \E x \in Wanted(w) : holds[v] \intersect Clash(x) # {}}

Acquire(w) ==
  /\ Blockers(w) = {}
  /\ holds' = [holds EXCEPT ![w] = @ \union Wanted(w)]

Goto(w, label, j) ==
  /\ pc' = [pc EXCEPT ![w] = label]
  /\ job' = [job EXCEPT ![w] = j]

\* Commit or rollback: the locks go.
End(w) ==
  /\ holds' = [holds EXCEPT ![w] = {}]
  /\ Goto(w, "idle", NoJob)

Refuse(w) == End(w) /\ UNCHANGED <<tables, crashes>>

\* Next statement of w, under the locks it waited for
Step(w, label, j) ==
  /\ Acquire(w)
  /\ Goto(w, label, j)
  /\ UNCHANGED <<tables, crashes>>

\* A request begins.
Start(w, label, j) ==
  /\ pc[w] = "idle"
  /\ j.op \in Asked
  /\ \E l \in NewFor(j.op) : Goto(w, label, [j EXCEPT !.new = l])
  /\ UNCHANGED <<tables, holds, crashes>>

-----------------------------------------------------------------------------
(* createLoading: a truck arrives.  What remains of the shipment is computed before the
   transaction. *)

CreateLoading(w) ==
  \E q \in Loaded :
    /\ q <= shipment.quantity - Tonnes(Made)
    /\ Start(w, "shipment", [NoJob EXCEPT !.op = "createLoading", !.qty = q, !.truck = TRUE])

\* The entry that waits for a truck is taken, if there is one.
TakePending(w) ==
  /\ pc[w] = "pending"
  /\ job[w].op = "createLoading"
  /\ \E l \in IF Waiting = {} THEN {job[w].new} ELSE Waiting :
       Step(w, "stuffing", [job[w] EXCEPT !.l = l])

Arrive(w) ==
  LET j == job[w]
  IN /\ pc[w] = "stuffing"
     /\ j.op = "createLoading"
     /\ Blockers(w) = {}
     /\ loading' = [loading EXCEPT ![j.l] = Saved(TRUE, "Truck Arrived", j.qty, @.linked)]
     /\ End(w)
     /\ UNCHANGED <<shipment, stuffing, allocation, crashes>>

-----------------------------------------------------------------------------
(* updateLoadingStatus *)

UpdateLoading(w) ==
  \E l \in Made, u \in Updates :
    Start(w, "loading", [NoJob EXCEPT !.op = "updateLoadingStatus", !.l = l, !.status = u.status,
                                      !.qty = u.qty, !.truck = u.truck, !.cleared = u.cleared])

LockLoading(w) ==
  /\ pc[w] = "loading"
  /\ Step(w, "shipment", job[w])

\* The row after the update
Updated(j) ==
  LET row == loading[j.l]
  IN Saved(j.truck \/ (row.truck /\ ~j.cleared), IF j.status = "none" THEN row.status ELSE j.status,
           IF j.qty = None THEN row.qty ELSE j.qty, row.linked)

\* A status never moves backwards, the loadings fit the shipment and the allocation, and
\* nothing is completed that carries nothing.
UpdateAllowed(j) ==
  LET total == Tonnes(Made \ {j.l}) + Updated(j).qty
  IN /\ Rank(Updated(j).status) >= Rank(loading[j.l].status)
     /\ j.qty # None => /\ total <= shipment.quantity
                        /\ loading[j.l].linked => total <= allocation.qty
     /\ IsLoaded(Updated(j).status) => Updated(j).qty > 0

Check(w) ==
  /\ pc[w] = "check"
  /\ UpdateAllowed(job[w])
  /\ Step(w, "stuffing", job[w])

\* Another loading of the shipment has no truck either.
TrucklessTwice(j) == ~Updated(j).truck /\ Truckless \ {j.l} # {}

\* The shipment and its stuffing job follow the loading.
WriteLoading(w) ==
  LET j == job[w]
      status == Updated(j).status
  IN /\ pc[w] = "stuffing"
     /\ j.op = "updateLoadingStatus"
     /\ Blockers(w) = {}
     /\ ~TrucklessTwice(j)
     /\ loading' = [loading EXCEPT ![j.l] = Updated(j)]
     /\ stuffing' = IF stuffing = "none" THEN stuffing ELSE StuffingOf(status)
     /\ shipment' = [shipment EXCEPT !.status =
          IF status \in {"Completed", "Dispatched"} THEN status
          ELSE IF @ # "Completed" THEN "Executed" ELSE @]
     /\ End(w)
     /\ UNCHANGED <<allocation, crashes>>

-----------------------------------------------------------------------------
(* saveStuffingExecution, update and ensureExecutionRecords *)

SaveStuffing(w) ==
  \E s \in Stuffings :
    Start(w, "shipment", [NoJob EXCEPT !.op = "saveStuffingExecution", !.status = s.status, !.qty = s.qty,
                                       !.complete = s.complete, !.packed = s.packed, !.truck = s.truck])

\* The instance is loaded before the transaction: a column that is not changed is not
\* written, and one that is not modelled may be.  Freight and the manual override, which decide
\* whether a shipment is ready to be executed, are not modelled.
UpdateShipment(w) ==
  \E status \in Edits \union {"none"}, q \in Quantities \union {None} :
    /\ status # shipment.status /\ q # shipment.quantity
    /\ Start(w, "shipment", [NoJob EXCEPT !.op = "update", !.status = status, !.qty = q,
                                           !.was = shipment.status])

EnsureRecords(w) ==
  Start(w, "shipment", [NoJob EXCEPT !.op = "ensureExecutionRecords"])

\* (mutant) A shipment becomes executed without its records.
ExecutesNot(j) == FALSE

\* update goes on to the execution records when the status it saves is Executed.
Executes(j) == "Executed" = IF j.status = "none" THEN j.was ELSE j.status

StuffingFits(j) ==
  /\ j.complete => j.qty > 0
  /\ j.qty <= shipment.quantity
  /\ allocation.status = "Active" => j.qty <= allocation.qty

\* What a handler tests once it has the shipment
Admitted(j) ==
  CASE j.op = "createLoading" -> shipment.status = "Executed"
    [] j.op = "saveStuffingExecution" -> StuffingFits(j)
    [] OTHER -> TRUE

Then(j) ==
  CASE j.op = "createLoading" -> "pending"
    [] j.op = "updateLoadingStatus" -> "check"
    [] j.op = "saveStuffingExecution" /\ j.complete /\ j.packed -> "pending"
    [] OTHER -> "stuffing"

\* (mutant) createLoading does not lock the shipment.
LockShipmentNot(w) ==
  /\ pc[w] = "shipment"
  /\ job[w].op = "update" => Executes(job[w])
  /\ Admitted(job[w])
  /\ job[w].op # "createLoading" => Blockers(w) = {}
  /\ holds' = IF job[w].op = "createLoading" THEN holds ELSE [holds EXCEPT ![w] = @ \union Wanted(w)]
  /\ Goto(w, Then(job[w]), job[w])
  /\ UNCHANGED <<tables, crashes>>

LockShipment(w) ==
  /\ pc[w] = "shipment"
  /\ job[w].op = "update" => Executes(job[w])
  /\ Admitted(job[w])
  /\ Step(w, Then(job[w]), job[w])

\* The columns an update gives
Edited(j) == [status |-> IF j.status = "none" THEN shipment.status ELSE j.status,
              quantity |-> IF j.qty = None THEN shipment.quantity ELSE j.qty]

SaveShipment(w) ==
  /\ pc[w] = "shipment"
  /\ job[w].op = "update"
  /\ ~Executes(job[w])
  /\ Blockers(w) = {}
  /\ shipment' = Edited(job[w])
  /\ End(w)
  /\ UNCHANGED <<loading, stuffing, allocation, crashes>>

\* The loadings other than the one that waits must leave room for a completed stuffing.
CompletionFits(j) == Tonnes(Made \ Truckless) + j.qty <= shipment.quantity

LockPending(w) ==
  /\ pc[w] = "pending"
  /\ job[w].op = "saveStuffingExecution"
  /\ CompletionFits(job[w])
  /\ Step(w, "stuffing", job[w])

LockStuffing(w) ==
  /\ pc[w] = "stuffing"
  /\ job[w].op \notin {"createLoading", "updateLoadingStatus"}
  /\ Step(w, "records", [job[w] EXCEPT !.seen = job[w].op = "saveStuffingExecution" \/ stuffing # "none"])

\* The loading without a truck, else the oldest one, else a new one
FindLoading(w) ==
  /\ pc[w] = "records"
  /\ \E l \in IF Truckless # {} THEN Truckless ELSE IF Made # {} THEN Made ELSE {job[w].new} :
       Step(w, "save", [job[w] EXCEPT !.l = l])

\* The first container goes to whichever loading the query returns first.
LockRecord(w) ==
  LET j == job[w]
  IN /\ pc[w] = "save"
     /\ \E c \in IF j.packed THEN Made \union {j.l} ELSE {None} :
          Step(w, "commit", [j EXCEPT !.c = c])

\* Two inserted rows meet in a unique index.
Conflict(j) ==
  \/ j.l \notin Made /\ Truckless # {}
  \/ ~j.seen /\ stuffing # "none"

\* The loading of the job, with the weight of the stuffing when it had none of its own
Recorded(j) ==
  LET row == loading[j.l]
  IN Saved(row.truck, IF Fills(j) THEN j.status ELSE row.status, IF Fills(j) THEN j.qty ELSE row.qty,
           row.linked \/ allocation.status = "Active")

Contained(j, row) ==
  Saved(row.truck \/ j.truck, j.status, IF j.qty = 0 THEN row.qty ELSE j.qty, row.linked)

\* Status of the shipment when its stuffing or its execution is saved
ShipmentAfter(j) ==
  CASE j.op = "update" -> Edited(j)
    [] j.op = "ensureExecutionRecords" ->
         [shipment EXCEPT !.status = IF @ \in Executed THEN @ ELSE "Executed"]
    [] OTHER ->
         [shipment EXCEPT !.status = IF j.status \in {"Dispatched", "Completed"} THEN j.status
                                     ELSE IF j.complete THEN "Executed" ELSE @]

Commit(w) ==
  LET j == job[w]
      recorded == [loading EXCEPT ![j.l] = Recorded(j)]
  IN /\ pc[w] = "commit"
     /\ Blockers(w) = {}
     /\ ~Conflict(j)
     /\ loading' = IF j.c = None THEN recorded ELSE [recorded EXCEPT ![j.c] = Contained(j, @)]
     /\ shipment' = ShipmentAfter(j)
     /\ stuffing' = IF j.op = "saveStuffingExecution" THEN (IF j.complete THEN "Completed" ELSE "Pending")
                    ELSE IF stuffing = "none" THEN "Pending" ELSE stuffing
     /\ End(w)
     /\ UNCHANGED <<allocation, crashes>>

-----------------------------------------------------------------------------
(* syncExecutedShipmentLoadings, called before every list of loadings *)

SyncLoadings(w) ==
  /\ shipment.status \in Executed
  /\ \E l \in IF Made = {} THEN {None} ELSE Made :
       Start(w, "insert", [NoJob EXCEPT !.op = "syncExecutedShipmentLoadings", !.l = l, !.seen = Made # {}])

\* The loading that was not there is inserted, or the allocation written into the one that was.
SyncLoading(w) ==
  LET j == job[w]
      l == IF j.seen THEN j.l ELSE j.new
  IN /\ pc[w] = "insert"
     /\ Blockers(w) = {}
     /\ j.seen \/ Truckless = {}
     /\ loading' = [loading EXCEPT ![l] =
          Saved(@.truck, @.status, @.qty, @.linked \/ allocation.status = "Active")]
     /\ Goto(w, "stuff", [j EXCEPT !.seen = stuffing # "none"])
     /\ UNCHANGED <<shipment, stuffing, allocation, holds, crashes>>

SyncStuffing(w) ==
  /\ pc[w] = "stuff"
  /\ Blockers(w) = {}
  /\ job[w].seen \/ stuffing = "none"
  /\ stuffing' = IF stuffing = "none" THEN "Pending" ELSE stuffing
  /\ End(w)
  /\ UNCHANGED <<shipment, loading, allocation, crashes>>

-----------------------------------------------------------------------------
(* Errors, and what happens around the requests *)

\* (mutant) A completion that does not fit never answers.
ThrowSome(w) ==
  LET j == job[w]
  IN /\ Blockers(w) = {}
     /\ \/ pc[w] = "shipment" /\ ~Admitted(j)
        \/ pc[w] = "check" /\ ~UpdateAllowed(j)
        \/ pc[w] = "stuffing" /\ j.op = "updateLoadingStatus" /\ TrucklessTwice(j)
        \/ pc[w] = "commit" /\ Conflict(j)
        \/ pc[w] = "insert" /\ ~j.seen /\ Truckless # {}
        \/ pc[w] = "stuff" /\ ~j.seen /\ stuffing # "none"
     /\ Refuse(w)

\* A handler that throws rolls back.
Throw(w) ==
  LET j == job[w]
  IN /\ Blockers(w) = {}
     /\ \/ pc[w] = "shipment" /\ ~Admitted(j)
        \/ pc[w] = "check" /\ ~UpdateAllowed(j)
        \/ pc[w] = "stuffing" /\ j.op = "updateLoadingStatus" /\ TrucklessTwice(j)
        \/ pc[w] = "pending" /\ j.op = "saveStuffingExecution" /\ ~CompletionFits(j)
        \/ pc[w] = "commit" /\ Conflict(j)
        \/ pc[w] = "insert" /\ ~j.seen /\ Truckless # {}
        \/ pc[w] = "stuff" /\ ~j.seen /\ stuffing # "none"
     /\ Refuse(w)

\* PostgreSQL breaks a cycle of waiting transactions.
DeadlockVictim(w) ==
  /\ \E S \in SUBSET Workers : w \in S /\ \A v \in S : Blockers(v) \intersect S # {}
  /\ Refuse(w)

Crash(w) ==
  /\ pc[w] # "idle"
  /\ crashes < MaxCrashes
  /\ crashes' = crashes + 1
  /\ End(w)
  /\ UNCHANGED tables

\* createAllocation and createReadiness: cargo is allocated to the shipment, and released
\* and taken back as it is marked not ready and ready.
Allocate ==
  /\ \/ /\ allocation.status = "none"
        /\ \E q \in Quantities : allocation' = [status |-> "Active", qty |-> q]
     \/ /\ allocation.status = "Active"
        /\ allocation' = [allocation EXCEPT !.status = "Cancelled"]
     \/ /\ allocation.status = "Cancelled"
        /\ allocation' = [allocation EXCEPT !.status = "Active"]
  /\ UNCHANGED <<shipment, loading, stuffing, holds, pc, job, crashes>>

-----------------------------------------------------------------------------
Init ==
  /\ shipment \in [status : {"Scheduled"}, quantity : Quantities]
  /\ loading = [l \in Loadings |-> NoLoading]
  /\ stuffing = "none"
  /\ allocation = [status |-> "none", qty |-> 0]
  /\ holds = [w \in Workers |-> {}]
  /\ pc = [w \in Workers |-> "idle"]
  /\ job = [w \in Workers |-> NoJob]
  /\ crashes = 0

Proceed(w) ==
  \/ TakePending(w) \/ Arrive(w)
  \/ LockLoading(w) \/ Check(w) \/ WriteLoading(w)
  \/ LockShipment(w) \/ SaveShipment(w) \/ LockPending(w) \/ LockStuffing(w)
  \/ FindLoading(w) \/ LockRecord(w) \/ Commit(w)
  \/ SyncLoading(w) \/ SyncStuffing(w)
  \/ Throw(w) \/ DeadlockVictim(w)

Begin(w) ==
  \/ CreateLoading(w) \/ UpdateLoading(w) \/ SaveStuffing(w) \/ UpdateShipment(w)
  \/ EnsureRecords(w) \/ SyncLoadings(w)

Next ==
  \/ Allocate
  \/ \E w \in Workers : Begin(w) \/ Proceed(w) \/ Crash(w)

Spec == Init /\ [][Next]_vars

\* Statements are executed and row locks are granted in the order they are asked for.
FairSpec == Spec /\ \A w \in Workers : SF_vars(Proceed(w))

-----------------------------------------------------------------------------
(* Properties *)

Commits(w, op) == job[w].op = op /\ pc[w] \in {"stuffing", "commit"} /\ pc'[w] = "idle" /\ loading' # loading

TotalAfter == Tonnes(Made)'

\* A quantity that updateLoadingStatus accepts fits the shipment and the allocation when
\* it commits, whatever trucks arrive while it runs.
UpdatesFit ==
  [][\A w \in Workers : Commits(w, "updateLoadingStatus") /\ job[w].qty # None =>
       /\ TotalAfter <= shipment'.quantity
       /\ loading'[job[w].l].linked => TotalAfter <= allocation'.qty]_vars

\* Only a stuffing job takes a loading back to an earlier status; one that is saved
\* without its containers only makes a pending one a draft again.
OnlyStuffingMovesBack ==
  \A l \in Made : Rank(loading'[l].status) < Rank(loading[l].status) =>
    \E w \in Workers : /\ Commits(w, "saveStuffingExecution")
                       /\ job[w].packed \/ loading[l].status = "Pending"

\* Only a draft of the stuffing job marks a loading as loaded, or dispatched, that
\* carries nothing.
LoadedWhenCompleted ==
  \A l \in Loadings :
    /\ loading'[l] # loading[l]
    /\ IsLoaded(loading'[l].status)
    /\ loading'[l].qty = 0
    => \/ \E w \in Workers : Commits(w, "saveStuffingExecution") /\ ~job[w].complete
       \/ l \in Made /\ loading'[l] = Saved(loading'[l].truck, loading[l].status, 0, TRUE)

\* Both together: only the stuffing job leaves the order of the statuses or their meaning.
StatusInOrder == [][OnlyStuffingMovesBack /\ LoadedWhenCompleted]_vars

\* An executed shipment has a loading and a stuffing job, whichever handler executed it.
ExecutedHasJob == shipment.status \in Executed => Made # {} /\ stuffing # "none"

\* Both together: the rows are of their type, and an executed shipment has its records.
RowsSound == TypeOK /\ ExecutedHasJob

\* Every request of a client ends.
RequestsEnd == \A w \in Workers : pc[w] # "idle" ~> pc[w] = "idle"

=============================================================================
