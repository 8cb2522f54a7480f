--------------------------- MODULE CargoExecutionProofs ---------------------------
(***************************************************************************)
(* Theorems about the execution of a shipment, for any number of loadings, *)
(* request handlers, quantities, users' inputs and crashes, and with every *)
(* handler called, the sync of the list of loadings included.              *)
(***************************************************************************)
EXTENDS CargoExecution, SetLemmas, TLAPS

-----------------------------------------------------------------------------
(* Statuses and locks *)

\* The ladder, rung by rung
LEMMA Rungs ==
  /\ Len(Ladder) = 17 /\ DOMAIN Ladder = 1 .. 17
  /\ Ladder[1] = "Draft" /\ Ladder[2] = "Pending" /\ Ladder[3] = "Ready"
  /\ Ladder[4] = "Truck Arrived" /\ Ladder[5] = "Weighment In" /\ Ladder[6] = "Stuffing Started"
  /\ Ladder[7] = "Loading Started" /\ Ladder[8] = "Stuffing In Progress" /\ Ladder[9] = "Stuffing Completed"
  /\ Ladder[10] = "Loading Completed" /\ Ladder[11] = "Weighment Out" /\ Ladder[12] = "Ready For Dispatch"
  /\ Ladder[13] = "Dispatched" /\ Ladder[14] = "Reached Destination" /\ Ladder[15] = "Unloaded"
  /\ Ladder[16] = "Verified" /\ Ladder[17] = "Completed"
<1>1. Len(Ladder) = 17
  BY DEF Ladder
<1>2. DOMAIN Ladder = 1 .. 17
  BY DEF Ladder
<1>3. /\ Ladder[1] = "Draft" /\ Ladder[2] = "Pending" /\ Ladder[3] = "Ready"
      /\ Ladder[4] = "Truck Arrived" /\ Ladder[5] = "Weighment In" /\ Ladder[6] = "Stuffing Started"
      /\ Ladder[7] = "Loading Started" /\ Ladder[8] = "Stuffing In Progress" /\ Ladder[9] = "Stuffing Completed"
      /\ Ladder[10] = "Loading Completed" /\ Ladder[11] = "Weighment Out" /\ Ladder[12] = "Ready For Dispatch"
      /\ Ladder[13] = "Dispatched" /\ Ladder[14] = "Reached Destination" /\ Ladder[15] = "Unloaded"
      /\ Ladder[16] = "Verified" /\ Ladder[17] = "Completed"
  BY DEF Ladder
<1> QED
  BY <1>1, <1>2, <1>3

\* A ladder has 17 rungs.
LEMMA Seventeen ==
  ASSUME NEW i \in 1 .. 17
  PROVE  i \in {1, 2, 3, 4, 5, 6, 7, 8, 9, 10, 11, 12, 13, 14, 15, 16, 17}
OBVIOUS

\* Statuses the handlers set or compare
LEMMA Statuses ==
  {"Draft", "Pending", "Ready", "Truck Arrived", "Loading Completed"} \subseteq ToSet(Ladder)
<1>1. ASSUME NEW i \in 1 .. 17
      PROVE  Ladder[i] \in ToSet(Ladder)
  BY Rungs DEF ToSet
<1>2. 1 \in 1 .. 17 /\ 2 \in 1 .. 17 /\ 3 \in 1 .. 17 /\ 4 \in 1 .. 17 /\ 10 \in 1 .. 17
  OBVIOUS
<1> QED
  BY <1>1, <1>2, Rungs

\* Each has a rank.
LEMMA Ranked ==
  ASSUME NEW status \in ToSet(Ladder)
  PROVE  Rank(status) \in 1 .. 17 /\ Ladder[Rank(status)] = status
<1>1. \E i \in 1 .. Len(Ladder) : Ladder[i] = status
  BY Rungs DEF ToSet
<1> QED
  BY <1>1, Rungs DEF Rank

\* The ranks the handlers compare
LEMMA Ranks ==
  /\ Rank("Draft") = 1 /\ Rank("Pending") = 2 /\ Rank("Ready") = 3 /\ Rank("Truck Arrived") = 4
  /\ Rank("Loading Completed") = 10
<1>1. {"Draft", "Pending", "Ready", "Truck Arrived", "Loading Completed"} \subseteq ToSet(Ladder)
  BY Statuses
<1>2. ASSUME NEW i \in 1 .. 17
      PROVE  /\ Ladder[i] = "Draft" => i = 1
             /\ Ladder[i] = "Pending" => i = 2
             /\ Ladder[i] = "Ready" => i = 3
             /\ Ladder[i] = "Truck Arrived" => i = 4
             /\ Ladder[i] = "Loading Completed" => i = 10
  BY Rungs, Seventeen
<1> QED
  BY <1>1, <1>2, Ranked

\* What is locked
LEMMA LocksAre ==
  ASSUME NEW x \in Locks
  PROVE  x = Shipment \/ x = Row \/ x = Key \/ x = Stuffing \/ \E l \in Loadings : x = Loading(l)
BY DEF Locks

\* The locks are different things.
LEMMA LocksDiffer ==
  /\ Shipment # Row /\ Shipment # Key /\ Shipment # Stuffing /\ Row # Key /\ Row # Stuffing
  /\ Key # Stuffing
  /\ \A l : Loading(l) # Shipment /\ Loading(l) # Row /\ Loading(l) # Key /\ Loading(l) # Stuffing
  /\ {Shipment, Row, Key, Stuffing} \subseteq Locks
  /\ \A l \in Loadings : Loading(l) \in Locks
<1>1. Shipment[1] = "shipment" /\ Row[1] = "shipment row" /\ Key[1] = "shipment key" /\ Stuffing[1] = "stuffing"
  BY DEF Shipment, Row, Key, Stuffing
<1>2. \A l : Loading(l)[1] = "loading"
  BY DEF Loading
<1> QED
  BY <1>1, <1>2 DEF Locks

\* What each clashes with
LEMMA ClashOf ==
  /\ Clash(Shipment) = {Shipment, Row, Key} /\ Clash(Row) = {Shipment, Row} /\ Clash(Key) = {Shipment}
  /\ Clash(Stuffing) = {Stuffing} /\ \A l : Clash(Loading(l)) = {Loading(l)}
BY LocksDiffer DEF Clash

\* Locks clash with each other.
LEMMA Clashes ==
  ASSUME NEW x \in Locks, NEW y \in Locks
  PROVE  y \in Clash(x) <=> x \in Clash(y)
BY LocksAre, LocksDiffer, ClashOf
-----------------------------------------------------------------------------
(* The inductive invariant *)

\* A row is filled when it is inserted, and names the allocation only when there is one.
Rows ==
  /\ \A l \in Loadings : loading[l].made \/ loading[l] = NoLoading
  /\ \A l \in Loadings : loading[l].linked => allocation.status # "none"

\* Nobody holds what clashes with a lock of another.
Exclusive ==
  \A v \in Workers, w \in Workers :
    v # w => \A x \in holds[v] : holds[w] \intersect Clash(x) = {}

\* A row to insert is reserved by one handler.
Distinct ==
  \A v \in Workers, w \in Workers : v # w /\ job[v].new = job[w].new => job[v].new = None

\* Where each handler can be
Place(p, j) ==
  /\ j.op = "none" <=> p = "idle"
  /\ j.op = "createLoading" => p \in {"shipment", "pending", "stuffing"}
  /\ j.op = "updateLoadingStatus" => p \in {"loading", "shipment", "check", "stuffing"}
  /\ j.op \in {"update", "ensureExecutionRecords"} =>
       p \in {"shipment", "stuffing", "records", "save", "commit"}
  /\ j.op = "saveStuffingExecution" =>
       p \in {"shipment", "pending", "stuffing", "records", "save", "commit"}
  /\ j.op = "syncExecutedShipmentLoadings" => p \in {"insert", "stuff"}

\* What users enter
Entered(j) ==
  /\ j.op = "createLoading" => j.qty \in Loaded
  /\ j.op = "updateLoadingStatus" => j.status \in ToSet(Ladder) \union {"none"} /\ j.l \in Loadings
  /\ j.op = "saveStuffingExecution" => j.status \in ToSet(Ladder) /\ j.qty \in Loaded
  /\ j.op = "update" => j.status \in Edits \union {"none"} /\ j.qty \in Quantities \union {None}
  /\ j.packed \/ j.complete => j.op = "saveStuffingExecution"
  /\ j.complete => j.status = "Loading Completed"

\* A transaction past the shipment has locked its row.
Past(p) == p \in {"check", "pending", "stuffing", "records", "save", "commit"}

Locked(p, j, h) ==
  /\ Past(p) => (IF j.op = "update" THEN Row ELSE Shipment) \in h
  /\ j.op = "updateLoadingStatus" /\ p # "loading" => Loading(j.l) \in h

\* The rows a handler means are there, and the one it may insert is not.
Meant(p, j) ==
  /\ j.op = "updateLoadingStatus" => j.l \in Made
  /\ j.new # None /\ p # "stuff" => j.new \notin Made
  /\ j.op # "none" /\ j.new = None => Made # {}
  /\ j.op = "createLoading" => j.new # None

Found(p, j) ==
  /\ p \in {"save", "commit"} => j.l \in Made \union {j.new} /\ j.l # None
  /\ p = "commit" => IF j.packed THEN j.c \in Made \union {j.l} ELSE j.c = None
  /\ p = "insert" => IF j.seen THEN j.l \in Made ELSE j.new # None

\* What a handler has tested stands until it writes.
Passed(p, j) ==
  /\ p = "stuffing" /\ j.op = "createLoading" =>
       \/ j.l = j.new
       \/ j.l \in Made /\ loading[j.l].status \in {"Draft", "Pending", "Ready"}
  /\ p = "stuffing" /\ j.op = "updateLoadingStatus" => UpdateAllowed(j)
  /\ Past(p) /\ j.complete => j.qty > 0

Own(p, j, h) == Place(p, j) /\ Entered(j) /\ Locked(p, j, h) /\ Meant(p, j) /\ Found(p, j) /\ Passed(p, j)

Mine(w) == Own(pc[w], job[w], holds[w])

Inv == TypeOK /\ Rows /\ Exclusive /\ Distinct /\ \A w \in Workers : Mine(w)

\* None is no row and no quantity.
LEMMA Nones == None \notin Loadings /\ None \notin Loaded /\ 0 \in Loaded /\ Loaded \subseteq Nat
BY RowsAssumption, QuantitiesAssumption DEF Loaded

\* A loading is a row of its type.
LEMMA LoadingTyped ==
  ASSUME TypeOK, NEW l \in Loadings
  PROVE  /\ loading[l].made \in BOOLEAN /\ loading[l].truck \in BOOLEAN /\ loading[l].linked \in BOOLEAN
         /\ loading[l].status \in ToSet(Ladder) /\ loading[l].qty \in Loaded /\ loading[l].qty \in Nat
         /\ loading[l] \in [made : BOOLEAN, truck : BOOLEAN, status : ToSet(Ladder), qty : Loaded, linked : BOOLEAN]
BY Nones DEF TypeOK

\* A handler that is past the shipment is alone there.
LEMMA Alone ==
  ASSUME Inv, NEW v \in Workers, NEW w \in Workers, Past(pc[v]), Past(pc[w])
  PROVE  v = w
<1>1. PICK x \in {Shipment, Row}, y \in {Shipment, Row} : x \in holds[v] /\ y \in holds[w]
  BY DEF Inv, Mine, Own, Locked
<1>2. y \in Clash(x)
  BY ClashOf
<1> QED
  BY <1>1, <1>2 DEF Inv, Exclusive

\* What a statement waits for are locks.
LEMMA WantedLocks ==
  ASSUME Inv, NEW w \in Workers
  PROVE  /\ Wanted(w) \subseteq Locks
         /\ pc[w] = "loading" => Wanted(w) = {Loading(job[w].l)}
         /\ pc[w] = "shipment" => Wanted(w) = {IF job[w].op = "update" THEN Row ELSE Shipment}
         /\ pc[w] = "insert" /\ job[w].seen => Wanted(w) = {Loading(job[w].l)}
<1>1. pc[w] \in Labels /\ job[w] \in Jobs
  BY DEF Inv, TypeOK
<1>2. \A S : Existing(S) \subseteq Locks
  BY LocksDiffer DEF Existing, Made
<1>3. StuffingRow \subseteq Locks
  BY LocksDiffer DEF StuffingRow
<1>4. pc[w] = "loading" => job[w].l \in Loadings
  BY DEF Inv, Mine, Own, Place, Entered, Labels, Jobs, TypeOK, Handlers
<1>5. pc[w] = "insert" /\ job[w].seen => Existing({job[w].l}) = {Loading(job[w].l)}
  BY DEF Inv, Mine, Own, Found, Existing, Made
<1> QED
  BY <1>1, <1>2, <1>3, <1>4, <1>5, LocksDiffer DEF Wanted, Labels
-----------------------------------------------------------------------------
(* Steps that write no row *)

\* Where rows and the handler stand still, so does what is known of it.
LEMMA MineStands ==
  ASSUME NEW w \in Workers, Mine(w), UNCHANGED tables,
         pc'[w] = pc[w], job'[w] = job[w], holds'[w] = holds[w]
  PROVE  Mine(w)'
<1>1. UpdateAllowed(job[w])' <=> UpdateAllowed(job[w])
  BY DEF UpdateAllowed, Updated, Tonnes, Made, tables
<1>2. UNCHANGED <<loading, allocation>> /\ Made' = Made
  BY DEF tables, Made
<1>3. (Place(pc[w], job[w]) /\ Entered(job[w]) /\ Locked(pc[w], job[w], holds[w]))'
  BY DEF Mine, Own, Place, Entered, Locked
<1>4. (Meant(pc[w], job[w]) /\ Found(pc[w], job[w]))'
  BY <1>2 DEF Mine, Own, Meant, Found
<1>5. Passed(pc[w], job[w])'
  BY <1>1, <1>2 DEF Mine, Own, Passed
<1> QED
  BY <1>3, <1>4, <1>5 DEF Mine, Own

\* A handler that moves on, and writes nothing, is where it may be.
LEMMA Owned ==
  ASSUME NEW w \in Workers, NEW p, NEW j, NEW h, Own(p, j, h), UNCHANGED tables,
         pc'[w] = p, job'[w] = j, holds'[w] = h
  PROVE  Mine(w)'
<1>1. UpdateAllowed(job[w])' <=> UpdateAllowed(j)
  BY DEF UpdateAllowed, Updated, Tonnes, Made, tables
<1>2. UNCHANGED <<loading, allocation>> /\ Made' = Made
  BY DEF tables, Made
<1>3. (Place(pc[w], job[w]) /\ Entered(job[w]) /\ Locked(pc[w], job[w], holds[w]))'
  BY DEF Own, Place, Entered, Locked
<1>4. (Meant(pc[w], job[w]) /\ Found(pc[w], job[w]))'
  BY <1>2 DEF Own, Meant, Found
<1>5. Passed(pc[w], job[w])'
  BY <1>1, <1>2 DEF Own, Passed
<1> QED
  BY <1>3, <1>4, <1>5 DEF Mine, Own

\* It may hold more, or less, than before.
LEMMA HoldsStand ==
  ASSUME Inv, NEW w \in Workers, NEW h \in SUBSET Locks, holds' = [holds EXCEPT ![w] = h],
         \A v \in Workers \ {w} : \A x \in h : holds[v] \intersect Clash(x) = {}
  PROVE  Exclusive' /\ holds' \in [Workers -> SUBSET Locks]
<1>1. /\ holds' \in [Workers -> SUBSET Locks] /\ holds'[w] = h
      /\ \A v \in Workers \ {w} : holds'[v] = holds[v] /\ holds[v] \in SUBSET Locks
  BY DEF Inv, TypeOK
<1>2. SUFFICES ASSUME NEW u \in Workers, NEW v \in Workers, u # v, NEW x \in holds'[u]
               PROVE  holds'[v] \intersect Clash(x) = {}
  BY <1>1 DEF Exclusive
<1>3. CASE u = w
  BY <1>1, <1>2, <1>3
<1>4. CASE v = w
  <2>1. SUFFICES ASSUME NEW y \in h, y \in Clash(x)
                 PROVE  FALSE
    BY <1>1, <1>4
  <2>2. x \in Locks /\ y \in Locks /\ x \in holds[u] /\ u \in Workers \ {w}
    BY <1>1, <1>2, <1>4
  <2>3. x \in Clash(y)
    BY <2>1, <2>2, Clashes
  <2> QED
    BY <2>1, <2>2, <2>3
<1>5. CASE u # w /\ v # w
  BY <1>1, <1>2, <1>5 DEF Inv, Exclusive
<1> QED
  BY <1>3, <1>4, <1>5

\* A row to insert is reserved by one handler.
LEMMA DistinctStands ==
  ASSUME Inv, NEW w \in Workers, NEW j \in Jobs, job' = [job EXCEPT ![w] = j],
         \A v \in Workers \ {w} : j.new = job[v].new => j.new = None
  PROVE  Distinct'
<1>1. job'[w] = j /\ \A v \in Workers \ {w} : job'[v] = job[v]
  BY DEF Inv, TypeOK
<1> QED
  BY <1>1 DEF Inv, Distinct

\* A step that writes no row keeps the invariant.
LEMMA StepInv ==
  ASSUME Inv, NEW w \in Workers, NEW p \in Labels, NEW j \in Jobs, NEW h \in SUBSET Locks,
         pc' = [pc EXCEPT ![w] = p], job' = [job EXCEPT ![w] = j], holds' = [holds EXCEPT ![w] = h],
         UNCHANGED tables, crashes' \in 0 .. MaxCrashes, Own(p, j, h),
         \A v \in Workers \ {w} : j.new = job[v].new => j.new = None,
         \A v \in Workers \ {w} : \A x \in h : holds[v] \intersect Clash(x) = {}
  PROVE  Inv'
<1>1. Exclusive' /\ holds' \in [Workers -> SUBSET Locks]
  BY HoldsStand
<1>2. Distinct'
  BY DistinctStands
<1>3. UNCHANGED <<shipment, loading, stuffing, allocation>>
  BY DEF tables
<1>4. TypeOK'
  <2>1. pc' \in [Workers -> Labels] /\ job' \in [Workers -> Jobs]
    BY DEF Inv, TypeOK
  <2> QED
    BY <1>1, <1>3, <2>1 DEF Inv, TypeOK
<1>5. Rows'
  BY <1>3 DEF Inv, Rows
<1>6. ASSUME NEW v \in Workers
      PROVE  Mine(v)'
  <2>1. CASE v = w
    <3>1. pc'[w] = p /\ job'[w] = j /\ holds'[w] = h
      BY DEF Inv, TypeOK
    <3> QED
      BY <2>1, <3>1, Owned
  <2>2. CASE v # w
    <3>1. pc'[v] = pc[v] /\ job'[v] = job[v] /\ holds'[v] = holds[v]
      BY <2>2 DEF Inv, TypeOK
    <3> QED
      BY <3>1, MineStands DEF Inv
  <2> QED
    BY <2>1, <2>2
<1> QED
  BY <1>1, <1>2, <1>4, <1>5, <1>6 DEF Inv

\* What a statement acquires clashes with nothing that others hold.
LEMMA Acquires ==
  ASSUME Inv, NEW w \in Workers, Blockers(w) = {}
  PROVE  \A v \in Workers \ {w} : \A x \in holds[w] \union Wanted(w) : holds[v] \intersect Clash(x) = {}
<1>1. \A v \in Workers \ {w} : \A x \in Wanted(w) : holds[v] \intersect Clash(x) = {}
  BY DEF Blockers
<1> QED
  BY <1>1 DEF Inv, Exclusive

\* The next statement of a transaction
LEMMA StepsInv ==
  ASSUME Inv, NEW w \in Workers, NEW p \in Labels, NEW j \in Jobs, Step(w, p, j), j.new = job[w].new,
         Own(p, j, holds[w] \union Wanted(w))
  PROVE  Inv'
<1>1. /\ Blockers(w) = {} /\ holds' = [holds EXCEPT ![w] = holds[w] \union Wanted(w)]
      /\ pc' = [pc EXCEPT ![w] = p] /\ job' = [job EXCEPT ![w] = j] /\ UNCHANGED <<tables, crashes>>
  BY DEF Step, Acquire, Goto
<1>2. PICK h \in SUBSET Locks : h = holds[w] \union Wanted(w)
  BY WantedLocks DEF Inv, TypeOK
<1>3. \A v \in Workers \ {w} : \A x \in h : holds[v] \intersect Clash(x) = {}
  BY <1>1, <1>2, Acquires
<1>4. \A v \in Workers \ {w} : j.new = job[v].new => j.new = None
  BY DEF Inv, Distinct
<1>5. crashes' \in 0 .. MaxCrashes
  BY <1>1 DEF Inv, TypeOK
<1>6. Own(p, j, h) /\ holds' = [holds EXCEPT ![w] = h] /\ UNCHANGED tables
  BY <1>1, <1>2
<1> QED
  BY <1>1, <1>3, <1>4, <1>5, <1>6, StepInv

\* A handler at rest
LEMMA IdleOwn == NoJob \in Jobs /\ "idle" \in Labels /\ NoJob.new = None /\ Own("idle", NoJob, {})
<1>1. NoJob \in Jobs /\ "idle" \in Labels
  BY Nones, Statuses DEF NoJob, Jobs, Labels, Handlers
<1>2. /\ NoJob.op = "none" /\ NoJob.new = None /\ NoJob.l = None /\ NoJob.complete = FALSE
      /\ NoJob.packed = FALSE /\ NoJob.qty = None
  BY DEF NoJob
<1> QED
  BY <1>1, <1>2 DEF Own, Place, Entered, Locked, Meant, Found, Passed, Past

\* An end without a write
LEMMA EndInv ==
  ASSUME Inv, NEW w \in Workers, End(w), UNCHANGED tables, crashes' \in 0 .. MaxCrashes
  PROVE  Inv'
<1>1. holds' = [holds EXCEPT ![w] = {}] /\ pc' = [pc EXCEPT ![w] = "idle"] /\ job' = [job EXCEPT ![w] = NoJob]
  BY DEF End, Goto
<1>2. \A v \in Workers \ {w} : NoJob.new = job[v].new => NoJob.new = None
  BY IdleOwn
<1>3. {} \in SUBSET Locks /\ \A v \in Workers \ {w} : \A x \in {} : holds[v] \intersect Clash(x) = {}
  OBVIOUS
<1> QED
  BY <1>1, <1>2, <1>3, IdleOwn, StepInv

-----------------------------------------------------------------------------
(* Requests begin *)

\* A request begins with what its user entered, and a row of its own to insert if need be.
LEMMA StartInv ==
  ASSUME Inv, NEW w \in Workers, NEW p \in {"loading", "shipment", "insert"}, NEW j \in Jobs,
         Start(w, p, j), Place(p, j), Entered(j), j.op # "none",
         j.op = "updateLoadingStatus" => p = "loading" /\ j.l \in Made,
         p = "insert" => IF j.seen THEN j.l \in Made ELSE Made = {}
  PROVE  Inv'
<1>1. PICK l \in NewFor(j.op) : Goto(w, p, [j EXCEPT !.new = l])
  BY DEF Start
<1>2. /\ l \in Loadings \union {None}
      /\ l # None => l \notin Made \union Reserved
      /\ j.op = "createLoading" \/ Made = {} => l # None
  BY <1>1, Nones DEF NewFor
<1> DEFINE k == [j EXCEPT !.new = l]
<1>3. k \in Jobs
  BY <1>2 DEF Jobs
<1>4. /\ k.op = j.op /\ k.new = l /\ k.l = j.l /\ k.c = j.c /\ k.status = j.status /\ k.qty = j.qty
      /\ k.packed = j.packed /\ k.complete = j.complete /\ k.seen = j.seen
  BY DEF Jobs
<1>5. pc' = [pc EXCEPT ![w] = p] /\ job' = [job EXCEPT ![w] = k] /\ UNCHANGED <<tables, holds, crashes>>
  BY <1>1 DEF Goto, Start
<1> HIDE DEF k
<1>6. PICK h \in SUBSET Locks : h = holds[w]
  BY DEF Inv, TypeOK
<1>7. holds' = [holds EXCEPT ![w] = h] /\ crashes' \in 0 .. MaxCrashes
  BY <1>5, <1>6 DEF Inv, TypeOK
<1>8. Own(p, k, h)
  <2>1. Place(p, k) /\ Entered(k) /\ Locked(p, k, h) /\ Passed(p, k)
    BY <1>4 DEF Place, Entered, Locked, Passed, Past
  <2>2. Meant(p, k)
    BY <1>2, <1>4 DEF Meant
  <2>3. Found(p, k)
    BY <1>2, <1>4 DEF Found
  <2> QED
    BY <2>1, <2>2, <2>3 DEF Own
<1>9. \A v \in Workers \ {w} : k.new = job[v].new => k.new = None
  BY <1>2, <1>4 DEF Reserved
<1>10. \A v \in Workers \ {w} : \A x \in h : holds[v] \intersect Clash(x) = {}
  BY <1>6 DEF Inv, Exclusive
<1>11. p \in Labels /\ UNCHANGED tables
  BY <1>5 DEF Labels
<1> QED
  BY <1>3, <1>5, <1>7, <1>8, <1>9, <1>10, <1>11, StepInv

\* Requests of the users
LEMMA CreateLoadingInv == ASSUME Inv, NEW w \in Workers, CreateLoading(w) PROVE Inv'
<1>1. PICK q \in Loaded :
        Start(w, "shipment", [NoJob EXCEPT !.op = "createLoading", !.qty = q, !.truck = TRUE])
  BY DEF CreateLoading
<1> DEFINE j == [NoJob EXCEPT !.op = "createLoading", !.qty = q, !.truck = TRUE]
<1>2. /\ j \in Jobs /\ j.op = "createLoading" /\ j.qty = q /\ j.packed = FALSE /\ j.complete = FALSE
  BY Nones DEF NoJob, Jobs, Handlers
<1>3. Start(w, "shipment", j)
  BY <1>1
<1> HIDE DEF j
<1>4. Place("shipment", j) /\ Entered(j)
  BY <1>2 DEF Place, Entered
<1> QED
  BY <1>2, <1>3, <1>4, StartInv

\* An update of a loading
LEMMA UpdateLoadingInv == ASSUME Inv, NEW w \in Workers, UpdateLoading(w) PROVE Inv'
<1>1. PICK l \in Made, u \in Updates :
        Start(w, "loading", [NoJob EXCEPT !.op = "updateLoadingStatus", !.l = l, !.status = u.status,
                                          !.qty = u.qty, !.truck = u.truck, !.cleared = u.cleared])
  BY DEF UpdateLoading
<1> DEFINE j == [NoJob EXCEPT !.op = "updateLoadingStatus", !.l = l, !.status = u.status,
                              !.qty = u.qty, !.truck = u.truck, !.cleared = u.cleared]
<1>2. /\ l \in Loadings /\ u.status \in ToSet(Ladder) \union {"none"}
      /\ u.qty \in Loaded \union {None} /\ u.truck \in BOOLEAN /\ u.cleared \in BOOLEAN
  BY InputsAssumption DEF Made
<1>3. /\ j \in Jobs /\ j.op = "updateLoadingStatus" /\ j.l = l /\ j.status = u.status
      /\ j.packed = FALSE /\ j.complete = FALSE
  BY <1>2 DEF NoJob, Jobs, Handlers
<1>4. Start(w, "loading", j)
  BY <1>1
<1> HIDE DEF j
<1>5. Place("loading", j) /\ Entered(j)
  BY <1>2, <1>3 DEF Place, Entered
<1> QED
  BY <1>3, <1>4, <1>5, StartInv

\* A stuffing job is saved.
LEMMA SaveStuffingInv == ASSUME Inv, NEW w \in Workers, SaveStuffing(w) PROVE Inv'
<1>1. PICK s \in Stuffings :
        Start(w, "shipment", [NoJob EXCEPT !.op = "saveStuffingExecution", !.status = s.status, !.qty = s.qty,
                                           !.complete = s.complete, !.packed = s.packed, !.truck = s.truck])
  BY DEF SaveStuffing
<1> DEFINE j == [NoJob EXCEPT !.op = "saveStuffingExecution", !.status = s.status, !.qty = s.qty,
                              !.complete = s.complete, !.packed = s.packed, !.truck = s.truck]
<1>2. /\ s.status \in ToSet(Ladder) /\ s.qty \in Loaded /\ s.complete \in BOOLEAN /\ s.packed \in BOOLEAN
      /\ s.truck \in BOOLEAN /\ s.complete => s.status = "Loading Completed"
  BY InputsAssumption
<1>3. /\ j \in Jobs /\ j.op = "saveStuffingExecution" /\ j.status = s.status /\ j.qty = s.qty
      /\ j.complete = s.complete
  BY <1>2, InputsAssumption DEF NoJob, Jobs, Handlers
<1>4. Start(w, "shipment", j)
  BY <1>1
<1> HIDE DEF j
<1>5. Place("shipment", j) /\ Entered(j)
  BY <1>2, <1>3, InputsAssumption DEF Place, Entered
<1> QED
  BY <1>3, <1>4, <1>5, StartInv

\* An update of the shipment
LEMMA UpdateShipmentInv == ASSUME Inv, NEW w \in Workers, UpdateShipment(w) PROVE Inv'
<1>1. PICK status \in Edits \union {"none"}, q \in Quantities \union {None} :
        Start(w, "shipment", [NoJob EXCEPT !.op = "update", !.status = status, !.qty = q,
                                           !.was = shipment.status])
  BY DEF UpdateShipment
<1> DEFINE j == [NoJob EXCEPT !.op = "update", !.status = status, !.qty = q, !.was = shipment.status]
<1>2. shipment.status \in ShipmentStatuses /\ q \in Loaded \union {None}
  BY DEF Inv, TypeOK, Loaded
<1>3. /\ j \in Jobs /\ j.op = "update" /\ j.status = status /\ j.qty = q
      /\ j.packed = FALSE /\ j.complete = FALSE
  BY <1>2 DEF NoJob, Jobs, Handlers, ShipmentStatuses
<1>4. Start(w, "shipment", j)
  BY <1>1
<1> HIDE DEF j
<1>5. Place("shipment", j) /\ Entered(j)
  BY <1>3 DEF Place, Entered
<1> QED
  BY <1>3, <1>4, <1>5, StartInv

\* Execution records are asked for.
LEMMA EnsureRecordsInv == ASSUME Inv, NEW w \in Workers, EnsureRecords(w) PROVE Inv'
<1> DEFINE j == [NoJob EXCEPT !.op = "ensureExecutionRecords"]
<1>1. j \in Jobs /\ j.op = "ensureExecutionRecords" /\ j.packed = FALSE /\ j.complete = FALSE
  BY DEF NoJob, Jobs, Handlers
<1>2. Start(w, "shipment", j)
  BY DEF EnsureRecords
<1> HIDE DEF j
<1>3. Place("shipment", j) /\ Entered(j)
  BY <1>1 DEF Place, Entered
<1> QED
  BY <1>1, <1>2, <1>3, StartInv

\* The list of loadings is synchronised.
LEMMA SyncLoadingsInv == ASSUME Inv, NEW w \in Workers, SyncLoadings(w) PROVE Inv'
<1>1. PICK l \in IF Made = {} THEN {None} ELSE Made :
        Start(w, "insert", [NoJob EXCEPT !.op = "syncExecutedShipmentLoadings", !.l = l, !.seen = Made # {}])
  BY DEF SyncLoadings
<1> DEFINE j == [NoJob EXCEPT !.op = "syncExecutedShipmentLoadings", !.l = l, !.seen = Made # {}]
<1>2. l \in Loadings \union {None}
  BY <1>1 DEF Made
<1>3. /\ j \in Jobs /\ j.op = "syncExecutedShipmentLoadings" /\ j.l = l /\ j.seen = (Made # {})
      /\ j.packed = FALSE /\ j.complete = FALSE
  BY <1>2 DEF NoJob, Jobs, Handlers
<1>4. Start(w, "insert", j)
  BY <1>1
<1> HIDE DEF j
<1>5. Place("insert", j) /\ Entered(j)
  BY <1>3 DEF Place, Entered
<1>6. IF j.seen THEN j.l \in Made ELSE Made = {}
  BY <1>1, <1>3
<1> QED
  BY <1>3, <1>4, <1>5, <1>6, StartInv

-----------------------------------------------------------------------------
(* Requests lock and read *)

\* What is known of a handler
LEMMA Known ==
  ASSUME Inv, NEW w \in Workers
  PROVE  \E p \in Labels, j \in Jobs, h \in SUBSET Locks :
           p = pc[w] /\ j = job[w] /\ h = holds[w] /\ Own(p, j, h)
<1>1. pc[w] \in Labels /\ job[w] \in Jobs /\ holds[w] \in SUBSET Locks
  BY DEF Inv, TypeOK
<1> QED
  BY <1>1 DEF Inv, Mine

\* updateLoadingStatus locks its loading first.
LEMMA LockLoadingInv == ASSUME Inv, NEW w \in Workers, LockLoading(w) PROVE Inv'
<1>1. PICK j \in Jobs, h \in SUBSET Locks : j = job[w] /\ h = holds[w] /\ Own("loading", j, h)
  BY Known DEF LockLoading
<1>2. j.op = "updateLoadingStatus"
  BY <1>1 DEF Own, Place, Jobs, Handlers
<1>3. Wanted(w) = {Loading(j.l)} /\ Step(w, "shipment", j)
  BY <1>1, WantedLocks DEF LockLoading
<1>4. Own("shipment", j, h \union {Loading(j.l)})
  BY <1>1, <1>2 DEF Own, Place, Entered, Locked, Meant, Found, Passed, Past
<1>5. "shipment" \in Labels
  BY DEF Labels
<1> QED
  BY <1>1, <1>3, <1>4, <1>5, StepsInv

\* What the update tests stands under the locks it holds.
LEMMA CheckInv == ASSUME Inv, NEW w \in Workers, Check(w) PROVE Inv'
<1>1. PICK j \in Jobs, h \in SUBSET Locks : j = job[w] /\ h = holds[w] /\ Own("check", j, h)
  BY Known DEF Check
<1>2. j.op = "updateLoadingStatus"
  BY <1>1 DEF Own, Place, Jobs, Handlers
<1>3. UpdateAllowed(j) /\ Step(w, "stuffing", j)
  BY <1>1 DEF Check
<1>4. PICK g \in SUBSET Locks : g = h \union Wanted(w)
  BY WantedLocks
<1>5. Own("stuffing", j, g)
  <2>1. Passed("stuffing", j)
    BY <1>1, <1>2, <1>3 DEF Own, Passed, Past
  <2> QED
    BY <1>1, <1>2, <1>4, <2>1 DEF Own, Place, Entered, Locked, Meant, Found, Past
<1>6. "stuffing" \in Labels
  BY DEF Labels
<1> QED
  BY <1>1, <1>3, <1>4, <1>5, <1>6, StepsInv

\* The row of the shipment is locked: nobody else is past it.
LEMMA LockShipmentInv == ASSUME Inv, NEW w \in Workers, LockShipment(w) PROVE Inv'
<1>1. PICK j \in Jobs, h \in SUBSET Locks : j = job[w] /\ h = holds[w] /\ Own("shipment", j, h)
  BY Known DEF LockShipment
<1>2. Admitted(j) /\ Step(w, Then(j), j)
  BY <1>1 DEF LockShipment
<1>3. PICK g \in SUBSET Locks : g = h \union {IF j.op = "update" THEN Row ELSE Shipment} /\ g = h \union Wanted(w)
  BY <1>1, WantedLocks, LocksDiffer DEF LockShipment
<1>4. j.op \in {"createLoading", "updateLoadingStatus", "saveStuffingExecution", "update", "ensureExecutionRecords"}
  BY <1>1 DEF Own, Place, Jobs, Handlers
<1>5. /\ Then(j) \in {"pending", "check", "stuffing"}
      /\ Then(j) = "pending" => j.op \in {"createLoading", "saveStuffingExecution"}
      /\ Then(j) = "check" <=> j.op = "updateLoadingStatus"
      /\ Then(j) = "stuffing" => j.op \notin {"createLoading", "updateLoadingStatus"}
  BY <1>4 DEF Then
<1>6. PICK p : p = Then(j)
  OBVIOUS
<1>7. Own(p, j, g)
  <2>1. Place(p, j) /\ Entered(j) /\ Locked(p, j, g) /\ Meant(p, j) /\ Found(p, j)
    BY <1>1, <1>3, <1>4, <1>5, <1>6 DEF Own, Place, Entered, Locked, Meant, Found, Past
  <2>2. j.complete => j.qty > 0
    BY <1>1, <1>2 DEF Admitted, StuffingFits, Own, Entered
  <2>3. Passed(p, j)
    BY <1>5, <1>6, <2>2 DEF Passed
  <2> QED
    BY <2>1, <2>3 DEF Own
<1>8. p \in Labels
  BY <1>5, <1>6 DEF Labels
<1> QED
  BY <1>1, <1>2, <1>3, <1>6, <1>7, <1>8, StepsInv

\* createLoading takes the entry that waits for a truck, or the row it has reserved.
LEMMA TakePendingInv == ASSUME Inv, NEW w \in Workers, TakePending(w) PROVE Inv'
<1>1. PICK j \in Jobs, h \in SUBSET Locks : j = job[w] /\ h = holds[w] /\ Own("pending", j, h)
  BY Known DEF TakePending
<1>2. PICK l \in IF Waiting = {} THEN {j.new} ELSE Waiting : Step(w, "stuffing", [j EXCEPT !.l = l])
  BY <1>1 DEF TakePending
<1>3. j.op = "createLoading" /\ j.new \in Loadings
  BY <1>1 DEF TakePending, Own, Meant, Jobs
<1>4. /\ l \in Loadings
      /\ \/ l = j.new
         \/ l \in Made /\ loading[l].status \in {"Draft", "Pending", "Ready"}
  BY <1>2, <1>3 DEF Waiting, Truckless, Made
<1> DEFINE k == [j EXCEPT !.l = l]
<1>5. /\ k \in Jobs /\ k.op = j.op /\ k.l = l /\ k.new = j.new /\ k.qty = j.qty /\ k.complete = j.complete
      /\ k.packed = j.packed /\ k.status = j.status
  BY <1>4 DEF Jobs
<1>6. Step(w, "stuffing", k)
  BY <1>2
<1> HIDE DEF k
<1>7. PICK g \in SUBSET Locks : g = h \union Wanted(w)
  BY WantedLocks
<1>8. Own("stuffing", k, g)
  <2>1. Passed("stuffing", k)
    BY <1>1, <1>3, <1>4, <1>5 DEF Own, Passed, Past
  <2> QED
    BY <1>1, <1>3, <1>5, <1>7, <2>1 DEF Own, Place, Entered, Locked, Meant, Found, Past
<1>9. "stuffing" \in Labels
  BY DEF Labels
<1> QED
  BY <1>1, <1>5, <1>6, <1>7, <1>8, <1>9, StepsInv

\* A completed stuffing job locks the loading that waits.
LEMMA LockPendingInv == ASSUME Inv, NEW w \in Workers, LockPending(w) PROVE Inv'
<1>1. PICK j \in Jobs, h \in SUBSET Locks : j = job[w] /\ h = holds[w] /\ Own("pending", j, h)
  BY Known DEF LockPending
<1>2. j.op = "saveStuffingExecution" /\ Step(w, "stuffing", j)
  BY <1>1 DEF LockPending
<1>3. PICK g \in SUBSET Locks : g = h \union Wanted(w)
  BY WantedLocks
<1>4. Own("stuffing", j, g)
  BY <1>1, <1>2, <1>3 DEF Own, Place, Entered, Locked, Meant, Found, Passed, Past
<1>5. "stuffing" \in Labels
  BY DEF Labels
<1> QED
  BY <1>1, <1>2, <1>3, <1>4, <1>5, StepsInv

\* The stuffing job is found, and locked, or not found.
LEMMA LockStuffingInv == ASSUME Inv, NEW w \in Workers, LockStuffing(w) PROVE Inv'
<1>1. PICK j \in Jobs, h \in SUBSET Locks : j = job[w] /\ h = holds[w] /\ Own("stuffing", j, h)
  BY Known DEF LockStuffing
<1>2. PICK seen \in BOOLEAN : Step(w, "records", [j EXCEPT !.seen = seen])
  BY <1>1 DEF LockStuffing
<1> DEFINE k == [j EXCEPT !.seen = seen]
<1>3. j.op \in {"saveStuffingExecution", "update", "ensureExecutionRecords"} /\ Step(w, "records", k)
  BY <1>1, <1>2 DEF LockStuffing, Own, Place, Jobs, Handlers
<1>4. /\ k \in Jobs /\ k.op = j.op /\ k.l = j.l /\ k.new = j.new /\ k.qty = j.qty /\ k.complete = j.complete
      /\ k.packed = j.packed /\ k.status = j.status
  BY DEF Jobs
<1> HIDE DEF k
<1>5. PICK g \in SUBSET Locks : g = h \union Wanted(w)
  BY WantedLocks
<1>6. Own("records", k, g)
  BY <1>1, <1>3, <1>4, <1>5 DEF Own, Place, Entered, Locked, Meant, Found, Passed, Past
<1>7. "records" \in Labels
  BY DEF Labels
<1> QED
  BY <1>1, <1>3, <1>4, <1>5, <1>6, <1>7, StepsInv

\* The loading of the job is found, or its row is new.
LEMMA FindLoadingInv == ASSUME Inv, NEW w \in Workers, FindLoading(w) PROVE Inv'
<1>1. PICK j \in Jobs, h \in SUBSET Locks : j = job[w] /\ h = holds[w] /\ Own("records", j, h)
  BY Known DEF FindLoading
<1>2. PICK l \in IF Truckless # {} THEN Truckless ELSE IF Made # {} THEN Made ELSE {j.new} :
        Step(w, "save", [j EXCEPT !.l = l])
  BY <1>1 DEF FindLoading
<1>3. j.op \in {"saveStuffingExecution", "update", "ensureExecutionRecords"}
  BY <1>1 DEF Own, Place, Jobs, Handlers
<1>4. l \in Loadings /\ l \in Made \union {j.new}
  BY <1>1, <1>2, <1>3 DEF Truckless, Made, Own, Meant, Jobs
<1> DEFINE k == [j EXCEPT !.l = l]
<1>5. /\ k \in Jobs /\ k.op = j.op /\ k.l = l /\ k.new = j.new /\ k.qty = j.qty /\ k.complete = j.complete
      /\ k.packed = j.packed /\ k.status = j.status
  BY <1>4 DEF Jobs
<1>6. Step(w, "save", k)
  BY <1>2
<1> HIDE DEF k
<1>7. PICK g \in SUBSET Locks : g = h \union Wanted(w)
  BY WantedLocks
<1>8. Own("save", k, g)
  <2>1. Found("save", k)
    BY <1>4, <1>5, Nones DEF Found
  <2> QED
    BY <1>1, <1>3, <1>5, <1>7, <2>1 DEF Own, Place, Entered, Locked, Meant, Passed, Past
<1>9. "save" \in Labels
  BY DEF Labels
<1> QED
  BY <1>1, <1>5, <1>6, <1>7, <1>8, <1>9, StepsInv

\* The loading that takes the first container is found.
LEMMA LockRecordInv == ASSUME Inv, NEW w \in Workers, LockRecord(w) PROVE Inv'
<1>1. PICK j \in Jobs, h \in SUBSET Locks : j = job[w] /\ h = holds[w] /\ Own("save", j, h)
  BY Known DEF LockRecord
<1>2. PICK c \in IF j.packed THEN Made \union {j.l} ELSE {None} : Step(w, "commit", [j EXCEPT !.c = c])
  BY <1>1 DEF LockRecord
<1>3. j.op \in {"saveStuffingExecution", "update", "ensureExecutionRecords"}
  BY <1>1 DEF Own, Place, Jobs, Handlers
<1>4. c \in Loadings \union {None}
  BY <1>2 DEF Made, Jobs
<1> DEFINE k == [j EXCEPT !.c = c]
<1>5. /\ k \in Jobs /\ k.op = j.op /\ k.l = j.l /\ k.new = j.new /\ k.qty = j.qty /\ k.complete = j.complete
      /\ k.packed = j.packed /\ k.status = j.status /\ k.c = c
  BY <1>4 DEF Jobs
<1>6. Step(w, "commit", k)
  BY <1>2
<1> HIDE DEF k
<1>7. PICK g \in SUBSET Locks : g = h \union Wanted(w)
  BY WantedLocks
<1>8. Own("commit", k, g)
  <2>1. Found("commit", k)
    BY <1>1, <1>2, <1>5 DEF Own, Found
  <2> QED
    BY <1>1, <1>3, <1>5, <1>7, <2>1 DEF Own, Place, Entered, Locked, Meant, Passed, Past
<1>9. "commit" \in Labels
  BY DEF Labels
<1> QED
  BY <1>1, <1>5, <1>6, <1>7, <1>8, <1>9, StepsInv

\* A handler that throws, is killed or loses a deadlock writes nothing.
LEMMA EndsInv ==
  ASSUME Inv, NEW w \in Workers, Throw(w) \/ DeadlockVictim(w) \/ Crash(w)
  PROVE  Inv'
<1>1. End(w) /\ UNCHANGED tables
  BY DEF Throw, DeadlockVictim, Crash, Refuse
<1>2. crashes \in 0 .. MaxCrashes
  BY DEF Inv, TypeOK
<1>3. crashes' = crashes \/ (crashes < MaxCrashes /\ crashes' = crashes + 1)
  <2>1. CASE Throw(w) \/ DeadlockVictim(w)
    BY <2>1 DEF Throw, DeadlockVictim, Refuse
  <2>2. CASE Crash(w)
    BY <2>2 DEF Crash
  <2> QED
    BY <2>1, <2>2
<1>4. crashes' \in 0 .. MaxCrashes
  BY <1>2, <1>3, RowsAssumption
<1> QED
  BY <1>1, <1>4, EndInv

-----------------------------------------------------------------------------
(* Requests write *)

\* Where a request writes, what is known of another stands if its rows are still there, the
\* row it reserved is not, and what it has tested still holds.
LEMMA MineKept ==
  ASSUME NEW w \in Workers, Mine(w), pc'[w] = pc[w], job'[w] = job[w], holds'[w] = holds[w],
         Made \subseteq Made', job[w].new # None /\ pc[w] # "stuff" => job[w].new \notin Made',
         Past(pc[w]) => Passed(pc[w], job[w])'
  PROVE  Mine(w)'
<1>1. (Place(pc[w], job[w]) /\ Entered(job[w]) /\ Locked(pc[w], job[w], holds[w]))'
  BY DEF Mine, Own, Place, Entered, Locked
<1>2. (Meant(pc[w], job[w]) /\ Found(pc[w], job[w]))'
  BY DEF Mine, Own, Meant, Found
<1>3. Passed(pc[w], job[w])'
  BY DEF Passed, Past
<1> QED
  BY <1>1, <1>2, <1>3 DEF Mine, Own

\* A request that ends and writes while no other is past the shipment
LEMMA WriteInv ==
  ASSUME Inv, NEW w \in Workers, End(w), \A v \in Workers \ {w} : ~Past(pc[v]),
         shipment' \in [status : ShipmentStatuses, quantity : Quantities],
         loading' \in [Loadings -> [made : BOOLEAN, truck : BOOLEAN, status : ToSet(Ladder),
                                    qty : Loaded, linked : BOOLEAN]],
         stuffing' \in {"none", "Pending", "In Progress", "Completed"},
         UNCHANGED <<allocation, crashes>>, Rows',
         Made \subseteq Made', Made' \subseteq Made \union {job[w].new}
  PROVE  Inv'
<1>1. holds' = [holds EXCEPT ![w] = {}] /\ pc' = [pc EXCEPT ![w] = "idle"] /\ job' = [job EXCEPT ![w] = NoJob]
  BY DEF End, Goto
<1>2. {} \in SUBSET Locks /\ \A v \in Workers \ {w} : \A x \in {} : holds[v] \intersect Clash(x) = {}
  OBVIOUS
<1>3. Exclusive' /\ holds' \in [Workers -> SUBSET Locks]
  BY <1>1, <1>2, HoldsStand
<1>4. Distinct'
  BY <1>1, IdleOwn, DistinctStands
<1>5. TypeOK'
  <2>1. pc' \in [Workers -> Labels] /\ job' \in [Workers -> Jobs]
    BY <1>1, IdleOwn DEF Inv, TypeOK
  <2> QED
    BY <1>3, <2>1 DEF Inv, TypeOK
<1>6. Mine(w)'
  <2>1. pc'[w] = "idle" /\ job'[w] = NoJob /\ holds'[w] = {}
    BY <1>1 DEF Inv, TypeOK
  <2>2. /\ NoJob.op = "none" /\ NoJob.new = None /\ NoJob.l = None /\ NoJob.complete = FALSE
        /\ NoJob.packed = FALSE
    BY DEF NoJob
  <2> QED
    BY <2>1, <2>2 DEF Mine, Own, Place, Entered, Locked, Meant, Found, Passed, Past
<1>7. ASSUME NEW v \in Workers, v # w
      PROVE  Mine(v)'
  <2>1. pc'[v] = pc[v] /\ job'[v] = job[v] /\ holds'[v] = holds[v]
    BY <1>1, <1>7 DEF Inv, TypeOK
  <2>2. job[v].new # None /\ pc[v] # "stuff" => job[v].new \notin Made'
    BY <1>7 DEF Inv, Distinct, Mine, Own, Meant
  <2>3. ~Past(pc[v])
    BY <1>7
  <2> QED
    BY <2>1, <2>2, <2>3, MineKept DEF Inv
<1> QED
  BY <1>3, <1>4, <1>5, <1>6, <1>7 DEF Inv

\* A truck arrives.
LEMMA ArriveInv == ASSUME Inv, NEW w \in Workers, Arrive(w) PROVE Inv'
<1>1. PICK j \in Jobs, h \in SUBSET Locks : j = job[w] /\ h = holds[w] /\ Own("stuffing", j, h)
  BY Known DEF Arrive
<1>2. /\ j.op = "createLoading" /\ End(w) /\ UNCHANGED <<shipment, stuffing, allocation, crashes>>
      /\ loading' = [loading EXCEPT ![j.l] = Saved(TRUE, "Truck Arrived", j.qty, @.linked)]
  BY <1>1 DEF Arrive
<1>3. j.l \in Loadings /\ j.l \in Made \union {j.new} /\ j.qty \in Loaded
  BY <1>1, <1>2 DEF Own, Entered, Meant, Passed, Made, Jobs
<1>4. PICK row : row = Saved(TRUE, "Truck Arrived", j.qty, loading[j.l].linked)
  OBVIOUS
<1>5. /\ row \in [made : BOOLEAN, truck : BOOLEAN, status : ToSet(Ladder), qty : Loaded, linked : BOOLEAN]
      /\ row.made /\ row.linked = loading[j.l].linked
  BY <1>3, <1>4, LoadingTyped, Statuses DEF Inv, Saved
<1>6. /\ loading' = [loading EXCEPT ![j.l] = row] /\ loading'[j.l] = row
      /\ \A l \in Loadings \ {j.l} : loading'[l] = loading[l]
  BY <1>2, <1>3, <1>4 DEF Inv, TypeOK
<1>7. loading' \in [Loadings -> [made : BOOLEAN, truck : BOOLEAN, status : ToSet(Ladder),
                                 qty : Loaded, linked : BOOLEAN]]
  BY <1>5, <1>6 DEF Inv, TypeOK
<1>8. Made' = Made \union {j.l}
  BY <1>3, <1>5, <1>6 DEF Made
<1>9. Rows'
  BY <1>2, <1>3, <1>5, <1>6 DEF Inv, Rows
<1>10. \A v \in Workers \ {w} : ~Past(pc[v])
  BY Alone DEF Arrive, Past
<1> QED
  BY <1>1, <1>2, <1>3, <1>7, <1>8, <1>9, <1>10, WriteInv DEF Inv, TypeOK

\* A loading is updated, and the shipment and the stuffing job follow.
LEMMA WriteLoadingInv == ASSUME Inv, NEW w \in Workers, WriteLoading(w) PROVE Inv'
<1>1. PICK j \in Jobs, h \in SUBSET Locks : j = job[w] /\ h = holds[w] /\ Own("stuffing", j, h)
  BY Known DEF WriteLoading
<1>2. PICK row : row = Updated(j)
  OBVIOUS
<1>3. /\ j.op = "updateLoadingStatus" /\ End(w) /\ UNCHANGED <<allocation, crashes>>
      /\ loading' = [loading EXCEPT ![j.l] = row]
      /\ stuffing' = IF stuffing = "none" THEN stuffing ELSE StuffingOf(row.status)
      /\ shipment' = [shipment EXCEPT !.status =
           IF row.status \in {"Completed", "Dispatched"} THEN row.status
           ELSE IF @ # "Completed" THEN "Executed" ELSE @]
  BY <1>1, <1>2 DEF WriteLoading
<1>4. j.l \in Made /\ j.l \in Loadings /\ j.status \in ToSet(Ladder) \union {"none"}
  BY <1>1, <1>3 DEF Own, Entered, Meant
<1>5. /\ row \in [made : BOOLEAN, truck : BOOLEAN, status : ToSet(Ladder), qty : Loaded, linked : BOOLEAN]
      /\ row.made /\ row.linked = loading[j.l].linked
  <2>1. j.truck \in BOOLEAN /\ j.cleared \in BOOLEAN /\ j.qty \in Loaded \union {None}
    BY DEF Jobs
  <2> QED
    BY <1>2, <1>4, <2>1, LoadingTyped DEF Inv, Updated, Saved
<1>6. /\ loading'[j.l] = row
      /\ \A l \in Loadings \ {j.l} : loading'[l] = loading[l]
  BY <1>3, <1>4 DEF Inv, TypeOK
<1>7. loading' \in [Loadings -> [made : BOOLEAN, truck : BOOLEAN, status : ToSet(Ladder),
                                 qty : Loaded, linked : BOOLEAN]]
  BY <1>3, <1>5 DEF Inv, TypeOK
<1>8. Made' = Made
  BY <1>4, <1>5, <1>6 DEF Made
<1>9. Rows'
  BY <1>3, <1>4, <1>5, <1>6 DEF Inv, Rows
<1>10. \A v \in Workers \ {w} : ~Past(pc[v])
  BY Alone DEF WriteLoading, Past
<1>11. shipment' \in [status : ShipmentStatuses, quantity : Quantities]
  BY <1>3 DEF Inv, TypeOK, Executed, ShipmentStatuses
<1>12. stuffing' \in {"none", "Pending", "In Progress", "Completed"}
  BY <1>3 DEF StuffingOf
<1> QED
  BY <1>3, <1>7, <1>8, <1>9, <1>10, <1>11, <1>12, WriteInv

\* A request that has what it asked of the shipment finds nobody past it.
LEMMA NonePast ==
  ASSUME Inv, NEW w \in Workers, pc[w] = "shipment", Blockers(w) = {}
  PROVE  \A v \in Workers \ {w} : ~Past(pc[v])
<1>1. SUFFICES ASSUME NEW v \in Workers \ {w}, Past(pc[v])
               PROVE  FALSE
  OBVIOUS
<1>2. PICK x \in {Shipment, Row} : x \in holds[v]
  BY <1>1 DEF Inv, Mine, Own, Locked
<1>3. PICK y \in {Shipment, Row} : y \in Wanted(w)
  BY WantedLocks
<1>4. x \in Clash(y)
  BY ClashOf
<1> QED
  BY <1>1, <1>2, <1>3, <1>4 DEF Blockers

\* The shipment is edited.
LEMMA SaveShipmentInv == ASSUME Inv, NEW w \in Workers, SaveShipment(w) PROVE Inv'
<1>1. PICK j \in Jobs, h \in SUBSET Locks : j = job[w] /\ h = holds[w] /\ Own("shipment", j, h)
  BY Known DEF SaveShipment
<1>2. /\ pc[w] = "shipment" /\ Blockers(w) = {} /\ j.op = "update" /\ shipment' = Edited(j) /\ End(w)
      /\ UNCHANGED <<loading, stuffing, allocation, crashes>>
  BY <1>1 DEF SaveShipment
<1>3. j.status \in Edits \union {"none"} /\ j.qty \in Quantities \union {None}
  BY <1>1, <1>2 DEF Own, Entered
<1>4. Edited(j) \in [status : ShipmentStatuses, quantity : Quantities]
  BY <1>3 DEF Inv, TypeOK, Edited, ShipmentStatuses
<1>5. Made' = Made /\ Rows'
  BY <1>2 DEF Made, Inv, Rows
<1>6. \A v \in Workers \ {w} : ~Past(pc[v])
  BY <1>2, NonePast
<1> QED
  BY <1>2, <1>4, <1>5, <1>6, WriteInv DEF Inv, TypeOK

\* A loading as its type has it
LoadingRows == [made : BOOLEAN, truck : BOOLEAN, status : ToSet(Ladder), qty : Loaded, linked : BOOLEAN]

\* What a commit of a stuffing job, or of execution records, writes into the loadings
LEMMA CommitRows ==
  ASSUME Inv, NEW w \in Workers, NEW j \in Jobs, NEW h, Own("commit", j, h), j = job[w], Commit(w)
  PROVE  /\ j.op \in {"saveStuffingExecution", "update", "ensureExecutionRecords"}
         /\ j.l \in Loadings /\ j.l \in Made \union {j.new}
         /\ j.c = None \/ (j.packed /\ j.op = "saveStuffingExecution" /\ j.c \in Loadings)
         /\ Recorded(j) \in LoadingRows /\ Recorded(j).made
         /\ \A row \in LoadingRows : j.c # None => Contained(j, row) \in LoadingRows /\ Contained(j, row).made
         /\ loading' \in [Loadings -> LoadingRows]
         /\ \A l \in Loadings \ {j.l, j.c} : loading'[l] = loading[l]
         /\ loading'[j.l] = IF j.c = j.l THEN Contained(j, Recorded(j)) ELSE Recorded(j)
         /\ j.c # None /\ j.c # j.l => j.c \in Made /\ loading'[j.c] = Contained(j, loading[j.c])
<1>1. j.op \in {"saveStuffingExecution", "update", "ensureExecutionRecords"}
  BY DEF Own, Place, Jobs, Handlers
<1>2. j.l \in Loadings /\ j.l \in Made \union {j.new}
  BY DEF Own, Found, Made, Jobs
<1>3. /\ j.c = None \/ (j.packed /\ j.op = "saveStuffingExecution" /\ j.c \in Loadings)
      /\ j.c # None => j.c \in Made \union {j.l}
  BY <1>2 DEF Own, Found, Entered, Made
<1>4. j.op = "saveStuffingExecution" => j.status \in ToSet(Ladder) /\ j.qty \in Loaded
  BY DEF Own, Entered
<1>5. PICK rec : rec = Recorded(j)
  OBVIOUS
<1>6. rec \in LoadingRows /\ rec.made
  <2>1. Fills(j) => j.op = "saveStuffingExecution"
    BY DEF Fills
  <2> QED
    BY <1>2, <1>4, <1>5, <2>1, LoadingTyped DEF Inv, Recorded, Saved, LoadingRows
<1>7. ASSUME NEW row \in LoadingRows, j.c # None
      PROVE  Contained(j, row) \in LoadingRows /\ Contained(j, row).made
  <2>1. j.truck \in BOOLEAN /\ j.status \in ToSet(Ladder) /\ j.qty \in Loaded
    BY <1>3, <1>4, <1>7 DEF Jobs
  <2>2. row.truck \in BOOLEAN /\ row.qty \in Loaded /\ row.linked \in BOOLEAN
    BY DEF LoadingRows
  <2> QED
    BY <2>1, <2>2 DEF Contained, Saved, LoadingRows
<1>8. loading \in [Loadings -> LoadingRows]
  BY DEF Inv, TypeOK, LoadingRows
<1>9. PICK recorded : recorded = [loading EXCEPT ![j.l] = rec]
  OBVIOUS
<1>10. /\ recorded \in [Loadings -> LoadingRows] /\ recorded[j.l] = rec
       /\ \A l \in Loadings \ {j.l} : recorded[l] = loading[l]
  BY <1>2, <1>6, <1>8, <1>9
<1>11. loading' = IF j.c = None THEN recorded ELSE [recorded EXCEPT ![j.c] = Contained(j, recorded[j.c])]
  BY <1>5, <1>9 DEF Commit
<1>12. CASE j.c = None
  BY <1>1, <1>2, <1>3, <1>5, <1>6, <1>7, <1>10, <1>11, <1>12, Nones
<1>13. CASE j.c # None
  <2>1. PICK row : row = Contained(j, recorded[j.c])
    OBVIOUS
  <2>2. row \in LoadingRows
    BY <1>3, <1>7, <1>10, <1>13, <2>1
  <2>3. /\ loading' = [recorded EXCEPT ![j.c] = row] /\ loading' \in [Loadings -> LoadingRows] /\ loading'[j.c] = row
        /\ \A l \in Loadings \ {j.c} : loading'[l] = recorded[l]
    BY <1>3, <1>10, <1>11, <1>13, <2>1, <2>2
  <2>4. CASE j.c = j.l
    BY <1>1, <1>2, <1>3, <1>5, <1>6, <1>7, <1>10, <2>1, <2>3, <2>4
  <2>5. CASE j.c # j.l
    BY <1>1, <1>2, <1>3, <1>5, <1>6, <1>7, <1>10, <1>13, <2>1, <2>3, <2>5
  <2> QED
    BY <2>4, <2>5
<1> QED
  BY <1>12, <1>13

\* A stuffing job, or execution records, are saved.
LEMMA CommitInv == ASSUME Inv, NEW w \in Workers, Commit(w) PROVE Inv'
<1>1. PICK j \in Jobs, h \in SUBSET Locks : j = job[w] /\ h = holds[w] /\ Own("commit", j, h)
  BY Known DEF Commit
<1>2. /\ End(w) /\ UNCHANGED <<allocation, crashes>> /\ shipment' = ShipmentAfter(j)
      /\ stuffing' = IF j.op = "saveStuffingExecution" THEN (IF j.complete THEN "Completed" ELSE "Pending")
                     ELSE IF stuffing = "none" THEN "Pending" ELSE stuffing
  BY <1>1 DEF Commit
<1>3. /\ j.op \in {"saveStuffingExecution", "update", "ensureExecutionRecords"}
      /\ j.l \in Loadings /\ j.l \in Made \union {j.new}
      /\ loading' \in [Loadings -> LoadingRows] /\ Recorded(j).made
      /\ \A row \in LoadingRows : j.c # None => Contained(j, row).made
      /\ \A l \in Loadings \ {j.l, j.c} : loading'[l] = loading[l]
      /\ loading'[j.l] = IF j.c = j.l THEN Contained(j, Recorded(j)) ELSE Recorded(j)
      /\ j.c # None /\ j.c # j.l => j.c \in Made /\ loading'[j.c] = Contained(j, loading[j.c])
      /\ Recorded(j) \in LoadingRows /\ loading \in [Loadings -> LoadingRows]
  BY <1>1, CommitRows DEF Inv, TypeOK, LoadingRows
<1>4. shipment' \in [status : ShipmentStatuses, quantity : Quantities]
  <2>1. shipment \in [status : ShipmentStatuses, quantity : Quantities]
    BY DEF Inv, TypeOK
  <2>2. CASE j.op = "update"
    <3>1. j.status \in Edits \union {"none"} /\ j.qty \in Quantities \union {None}
      BY <1>1, <2>2 DEF Own, Entered
    <3> QED
      BY <1>2, <2>1, <2>2, <3>1 DEF ShipmentAfter, Edited, ShipmentStatuses
  <2>3. CASE j.op # "update"
    BY <1>2, <1>3, <2>1, <2>3 DEF ShipmentAfter, Executed, ShipmentStatuses
  <2> QED
    BY <2>2, <2>3
<1>5. Made' = Made \union {j.l}
  <2>1. loading'[j.l].made
    BY <1>3, Nones
  <2>2. ASSUME NEW l \in Loadings, l # j.l
        PROVE  loading'[l].made <=> loading[l].made
    <3>1. CASE l = j.c
      BY <1>3, <2>2, <3>1, Nones DEF Made
    <3>2. CASE l # j.c
      BY <1>3, <2>2, <3>2
    <3> QED
      BY <3>1, <3>2
  <2> QED
    BY <1>3, <2>1, <2>2 DEF Made
<1>6. Rows'
  <2>1. ASSUME NEW l \in Loadings
        PROVE  loading'[l].made \/ loading'[l] = NoLoading
    <3>1. CASE l \in Made'
      BY <3>1 DEF Made
    <3>2. CASE l \notin Made'
      <4>1. l \notin Made /\ l # j.l /\ l # j.c
        BY <1>3, <1>5, <2>1, <3>2, Nones
      <4> QED
        BY <1>3, <2>1, <4>1 DEF Inv, Rows, Made
    <3> QED
      BY <3>1, <3>2
  <2>2. ASSUME NEW l \in Loadings, loading'[l].linked
        PROVE  allocation.status # "none"
    <3>1. \A k \in Loadings : loading[k].linked => allocation.status # "none"
      BY DEF Inv, Rows
    <3>2. Recorded(j).linked => allocation.status # "none"
      BY <1>3, <3>1 DEF Recorded, Saved
    <3>3. \A row \in LoadingRows : Contained(j, row).linked = row.linked
      BY DEF Contained, Saved
    <3>4. CASE l = j.l
      BY <1>3, <2>2, <3>2, <3>3, <3>4
    <3>5. CASE l # j.l /\ l = j.c
      BY <1>3, <2>2, <3>1, <3>3, <3>5, Nones
    <3>6. CASE l # j.l /\ l # j.c
      BY <1>3, <2>2, <3>1, <3>6
    <3> QED
      BY <3>4, <3>5, <3>6
  <2> QED
    BY <1>2, <2>1, <2>2 DEF Rows
<1>7. \A v \in Workers \ {w} : ~Past(pc[v])
  BY Alone DEF Commit, Past
<1>8. stuffing' \in {"none", "Pending", "In Progress", "Completed"}
  BY <1>2 DEF Inv, TypeOK
<1> QED
  BY <1>1, <1>2, <1>3, <1>4, <1>5, <1>6, <1>7, <1>8, WriteInv DEF LoadingRows

-----------------------------------------------------------------------------
(* Writes beside a transaction *)

\* A total depends on the quantities it adds up.
LEMMA TonnesSame ==
  ASSUME TypeOK, NEW S \in SUBSET Loadings, \A l \in S : loading'[l].qty = loading[l].qty
  PROVE  Tonnes(S)' = Tonnes(S)
<1> DEFINE f == [l \in Loadings |-> loading[l].qty]
           g == [l \in Loadings |-> loading'[l].qty]
<1>1. IsFiniteSet(S) /\ \A l \in S : f[l] = g[l]
  BY RowsAssumption, FS_Subset
<1>2. Tonnes(S) = SumFunctionOnSet(f, S) /\ Tonnes(S)' = SumFunctionOnSet(g, S)
  BY DEF Tonnes
<1> HIDE DEF f, g
<1> QED
  BY <1>1, <1>2, SumSame

\* A total with one loading more
LEMMA TonnesAdd ==
  ASSUME TypeOK, NEW S \in SUBSET Loadings, NEW l \in Loadings \ S
  PROVE  Tonnes(S \union {l}) = loading[l].qty + Tonnes(S)
<1> DEFINE f == [k \in Loadings |-> loading[k].qty]
<1>1. IsFiniteSet(S) /\ \A k \in S \union {l} : f[k] \in Int
  <2>1. \A k \in Loadings : f[k] \in Int
    BY LoadingTyped
  <2>2. IsFiniteSet(S)
    BY RowsAssumption, FS_Subset
  <2> HIDE DEF f
  <2> QED
    BY <2>1, <2>2
<1>2. \A Q : Tonnes(Q) = SumFunctionOnSet(f, Q)
  BY DEF Tonnes
<1>3. f[l] = loading[l].qty
  OBVIOUS
<1> HIDE DEF f
<1> QED
  BY <1>1, <1>2, <1>3, SumAdd

\* Totals are natural numbers.
LEMMA TonnesNat ==
  ASSUME TypeOK, NEW S \in SUBSET Loadings
  PROVE  Tonnes(S) \in Nat
<1> DEFINE f == [k \in Loadings |-> loading[k].qty]
<1>1. IsFiniteSet(S) /\ \A k \in S : f[k] \in Nat
  BY RowsAssumption, FS_Subset, LoadingTyped
<1>2. Tonnes(S) = SumFunctionOnSet(f, S)
  BY DEF Tonnes
<1> HIDE DEF f
<1> QED
  BY <1>1, <1>2, SumNat

\* An update that was tested stands while its row does, no allocation it names changes, and
\* what else is inserted carries nothing.
LEMMA TestStands ==
  ASSUME Inv, TypeOK', NEW w \in Workers, job'[w] = job[w], job[w].l \in Made, UNCHANGED shipment,
         loading'[job[w].l] = loading[job[w].l], UpdateAllowed(job[w]),
         loading[job[w].l].linked => allocation'.qty = allocation.qty,
         \A l \in Loadings : loading'[l].qty = loading[l].qty,
         NEW x, Made' \subseteq Made \union {x}, Made \subseteq Made',
         x \in Loadings \ Made => loading[x].qty = 0
  PROVE  UpdateAllowed(job[w])'
<1>1. PICK l \in Loadings : l = job[w].l
  BY DEF Made
<1>2. PICK S \in SUBSET Loadings : S = Made \ {l}
  BY DEF Made
<1>3. PICK T \in SUBSET Loadings : T = Made' \ {l}
  BY DEF Made
<1>4. TypeOK
  BY DEF Inv
<1>5. Tonnes(S)' = Tonnes(S)
  BY <1>4, TonnesSame
<1>6. Tonnes(T)' = Tonnes(S)
  <2>1. CASE T = S
    BY <1>5, <2>1
  <2>2. CASE T # S
    <3>1. x \in Loadings \ S /\ T = S \union {x} /\ x \in Loadings \ Made
      BY <1>1, <1>2, <1>3, <2>2 DEF Made
    <3>2. Tonnes(T) = Tonnes(T)'
      BY <1>4, TonnesSame
    <3>3. Tonnes(T) = loading[x].qty + Tonnes(S)
      BY <1>4, <3>1, TonnesAdd
    <3> QED
      BY <1>4, <3>1, <3>2, <3>3, TonnesNat
  <2> QED
    BY <2>1, <2>2
<1>7. Tonnes(Made \ {job[w].l})' = Tonnes(T)'
  <2>1. (Made \ {job[w].l})' = T
    BY <1>1, <1>3
  <2> QED
    BY <2>1 DEF Tonnes
<1>8. Tonnes(Made \ {job[w].l}) = Tonnes(S)
  BY <1>1, <1>2
<1>9. Updated(job[w])' = Updated(job[w])
  BY DEF Updated
<1> QED
  BY <1>6, <1>7, <1>8, <1>9 DEF UpdateAllowed

\* The sync inserts a loading, or writes the allocation into one that nobody has locked.
LEMMA SyncLoadingInv == ASSUME Inv, NEW w \in Workers, SyncLoading(w) PROVE Inv'
<1>1. PICK j \in Jobs, h \in SUBSET Locks : j = job[w] /\ h = holds[w] /\ Own("insert", j, h)
  BY Known DEF SyncLoading
<1>2. j.op = "syncExecutedShipmentLoadings"
  BY <1>1 DEF Own, Place, Jobs, Handlers
<1>3. PICK l : l = IF j.seen THEN j.l ELSE j.new
  OBVIOUS
<1>4. l \in Loadings /\ (j.seen => l \in Made) /\ (~j.seen => l \notin Made /\ l = j.new)
  BY <1>1, <1>3 DEF Own, Found, Meant, Made, Jobs
<1>5. PICK row : row = Saved(loading[l].truck, loading[l].status, loading[l].qty,
                            loading[l].linked \/ allocation.status = "Active")
  OBVIOUS
<1>6. PICK seen \in BOOLEAN : seen = (stuffing # "none")
  OBVIOUS
<1> DEFINE k == [j EXCEPT !.seen = seen]
<1>7. /\ pc[w] = "insert" /\ Blockers(w) = {} /\ loading' = [loading EXCEPT ![l] = row]
      /\ pc' = [pc EXCEPT ![w] = "stuff"] /\ job' = [job EXCEPT ![w] = k]
      /\ UNCHANGED <<shipment, stuffing, allocation, holds, crashes>>
  BY <1>1, <1>3, <1>5, <1>6 DEF SyncLoading, Goto
<1>8. /\ k \in Jobs /\ k.op = j.op /\ k.l = j.l /\ k.new = j.new /\ k.qty = j.qty /\ k.complete = j.complete
      /\ k.packed = j.packed /\ k.status = j.status
  BY DEF Jobs
<1> HIDE DEF k
<1>9. /\ row.made /\ row.status = loading[l].status /\ row.qty = loading[l].qty
      /\ row.linked => loading[l].linked \/ allocation.status = "Active"
      /\ row \in LoadingRows
  <2>1. row \in LoadingRows
    BY <1>4, <1>5, LoadingTyped DEF Inv, Saved, LoadingRows
  <2> QED
    BY <1>5, <2>1 DEF Saved
<1>10. /\ loading' \in [Loadings -> LoadingRows] /\ loading'[l] = row
       /\ \A o \in Loadings \ {l} : loading'[o] = loading[o]
  <2>1. loading \in [Loadings -> LoadingRows]
    BY DEF Inv, TypeOK, LoadingRows
  <2> QED
    BY <1>4, <1>7, <1>9, <2>1
<1>11. Made' = Made \union {l}
  BY <1>4, <1>9, <1>10 DEF Made
<1>12. Rows'
  BY <1>4, <1>7, <1>9, <1>10 DEF Inv, Rows
<1>13. Exclusive'
  BY <1>7 DEF Inv, Exclusive
<1>14. Distinct'
  <2>1. \A v \in Workers \ {w} : k.new = job[v].new => k.new = None
    BY <1>1, <1>8 DEF Inv, Distinct
  <2> QED
    BY <1>7, <1>8, <2>1, DistinctStands
<1>15. TypeOK'
  <2>1. pc' \in [Workers -> Labels] /\ job' \in [Workers -> Jobs]
    BY <1>7, <1>8 DEF Inv, TypeOK, Labels
  <2> QED
    BY <1>7, <1>10, <2>1 DEF Inv, TypeOK, LoadingRows
<1>16. Mine(w)'
  <2>1. pc'[w] = "stuff" /\ job'[w] = k
    BY <1>7 DEF Inv, TypeOK
  <2>2. k.op = "syncExecutedShipmentLoadings" /\ k.packed = FALSE /\ k.complete = FALSE
    BY <1>1, <1>2, <1>8 DEF Own, Entered, Jobs
  <2> QED
    BY <1>11, <2>1, <2>2 DEF Mine, Own, Place, Entered, Locked, Meant, Found, Passed, Past
<1>17. ASSUME NEW v \in Workers, v # w
       PROVE  Mine(v)'
  <2>1. pc'[v] = pc[v] /\ job'[v] = job[v] /\ holds'[v] = holds[v]
    BY <1>7, <1>17 DEF Inv, TypeOK
  <2>2. job[v].new # None /\ pc[v] # "stuff" => job[v].new \notin Made'
    <3>1. SUFFICES ASSUME job[v].new # None, pc[v] # "stuff", job[v].new = l
                   PROVE  FALSE
      BY <1>11 DEF Inv, Mine, Own, Meant
    <3>2. l \notin Made
      BY <3>1 DEF Inv, Mine, Own, Meant
    <3>3. job[w].new = job[v].new
      BY <1>1, <1>4, <3>1, <3>2
    <3> QED
      BY <1>17, <3>1, <3>3 DEF Inv, Distinct
  <2>3. ASSUME Past(pc[v])
        PROVE  Passed(pc[v], job[v])'
    <3>1. Passed(pc[v], job[v]) /\ Meant(pc[v], job[v]) /\ Locked(pc[v], job[v], holds[v]) /\ Entered(job[v])
      BY DEF Inv, Mine, Own
    <3>2. ASSUME pc[v] = "stuffing", job[v].op = "createLoading"
          PROVE  \/ job[v].l = job[v].new
                 \/ job[v].l \in Made' /\ loading'[job[v].l].status \in {"Draft", "Pending", "Ready"}
      <4>1. \/ job[v].l = job[v].new
            \/ job[v].l \in Made /\ job[v].l \in Loadings
                 /\ loading[job[v].l].status \in {"Draft", "Pending", "Ready"}
        BY <3>1, <3>2 DEF Passed, Made
      <4>2. \A o \in Loadings : loading'[o].status = loading[o].status
        BY <1>9, <1>10
      <4> QED
        BY <1>11, <4>1, <4>2
    <3>3. ASSUME pc[v] = "stuffing", job[v].op = "updateLoadingStatus"
          PROVE  UpdateAllowed(job[v])'
      <4>1. job[v].l \in Made /\ Loading(job[v].l) \in holds[v] /\ UpdateAllowed(job[v]) /\ job[v].l \in Loadings
        BY <3>1, <3>3 DEF Passed, Meant, Locked, Entered
      <4>2. job[v].l # l
        <5>1. CASE j.seen
          <6>1. Loading(l) \in Wanted(w)
            BY <1>1, <1>3, <1>7, <5>1, WantedLocks
          <6> QED
            BY <1>7, <1>17, <4>1, <6>1, ClashOf DEF Blockers
        <5>2. CASE ~j.seen
          BY <1>4, <4>1, <5>2
        <5> QED
          BY <5>1, <5>2
      <4>3. loading'[job[v].l] = loading[job[v].l]
        BY <1>10, <4>1, <4>2
      <4>4. \A o \in Loadings : loading'[o].qty = loading[o].qty
        BY <1>9, <1>10
      <4>5. l \in Loadings \ Made => loading[l].qty = 0
        BY DEF Inv, Rows, Made, NoLoading
      <4> QED
        BY <1>7, <1>11, <1>15, <2>1, <4>1, <4>3, <4>4, <4>5, TestStands
    <3>4. (Past(pc[v]) /\ job[v].complete => job[v].qty > 0)'
      BY <2>1, <3>1 DEF Passed
    <3> QED
      BY <2>1, <3>2, <3>3, <3>4 DEF Passed
  <2> QED
    BY <1>11, <2>1, <2>2, <2>3, MineKept DEF Inv
<1> QED
  BY <1>12, <1>13, <1>14, <1>15, <1>16, <1>17 DEF Inv

\* What no handler has tested may change beside them.
LEMMA SyncStuffingInv == ASSUME Inv, NEW w \in Workers, SyncStuffing(w) PROVE Inv'
<1>1. /\ stuffing' = IF stuffing = "none" THEN "Pending" ELSE stuffing
      /\ End(w) /\ UNCHANGED <<shipment, loading, allocation, crashes>>
  BY DEF SyncStuffing
<1>2. holds' = [holds EXCEPT ![w] = {}] /\ pc' = [pc EXCEPT ![w] = "idle"] /\ job' = [job EXCEPT ![w] = NoJob]
  BY <1>1 DEF End, Goto
<1>3. {} \in SUBSET Locks /\ \A v \in Workers \ {w} : \A x \in {} : holds[v] \intersect Clash(x) = {}
  OBVIOUS
<1>4. Exclusive' /\ holds' \in [Workers -> SUBSET Locks]
  BY <1>2, <1>3, HoldsStand
<1>5. Distinct'
  BY <1>2, IdleOwn, DistinctStands
<1>6. TypeOK'
  <2>1. pc' \in [Workers -> Labels] /\ job' \in [Workers -> Jobs]
    BY <1>2, IdleOwn DEF Inv, TypeOK
  <2> QED
    BY <1>1, <1>4, <2>1 DEF Inv, TypeOK
<1>7. Made' = Made /\ Rows'
  BY <1>1 DEF Made, Inv, Rows
<1>8. Mine(w)'
  <2>1. pc'[w] = "idle" /\ job'[w] = NoJob /\ holds'[w] = {}
    BY <1>2 DEF Inv, TypeOK
  <2>2. /\ NoJob.op = "none" /\ NoJob.new = None /\ NoJob.l = None /\ NoJob.complete = FALSE
        /\ NoJob.packed = FALSE
    BY DEF NoJob
  <2> QED
    BY <2>1, <2>2 DEF Mine, Own, Place, Entered, Locked, Meant, Found, Passed, Past
<1>9. ASSUME NEW v \in Workers, v # w
      PROVE  Mine(v)'
  <2>1. pc'[v] = pc[v] /\ job'[v] = job[v] /\ holds'[v] = holds[v]
    BY <1>2, <1>9 DEF Inv, TypeOK
  <2>2. Made \subseteq Made' /\ (job[v].new # None /\ pc[v] # "stuff" => job[v].new \notin Made')
    BY <1>7 DEF Inv, Mine, Own, Meant
  <2>3. Passed(pc[v], job[v])'
    <3>1. UpdateAllowed(job[v])' <=> UpdateAllowed(job[v])
      BY <1>1, <2>1 DEF UpdateAllowed, Updated, Tonnes, Made
    <3> QED
      BY <1>1, <1>7, <2>1, <3>1 DEF Inv, Mine, Own, Passed
  <2> QED
    BY <2>1, <2>2, <2>3, MineKept DEF Inv
<1> QED
  BY <1>4, <1>5, <1>6, <1>7, <1>8, <1>9 DEF Inv

\* Cargo is allocated, released and taken back: a row that names an allocation keeps its
\* quantity.
LEMMA AllocateInv == ASSUME Inv, Allocate PROVE Inv'
<1>1. UNCHANGED <<shipment, loading, stuffing, holds, pc, job, crashes>>
  BY DEF Allocate
<1>2. /\ allocation' \in [status : {"none", "Active", "Cancelled"}, qty : Loaded]
      /\ allocation'.status # "none"
      /\ allocation.status # "none" => allocation'.qty = allocation.qty
  <2>1. CASE allocation.status = "none" /\ \E q \in Quantities : allocation' = [status |-> "Active", qty |-> q]
    <3>1. PICK q \in Quantities : allocation' = [status |-> "Active", qty |-> q]
      BY <2>1
    <3> QED
      BY <2>1, <3>1 DEF Loaded
  <2>2. CASE allocation.status = "Active" /\ allocation' = [allocation EXCEPT !.status = "Cancelled"]
    BY <2>2 DEF Inv, TypeOK
  <2>3. CASE allocation.status = "Cancelled" /\ allocation' = [allocation EXCEPT !.status = "Active"]
    BY <2>3 DEF Inv, TypeOK
  <2> QED
    BY <2>1, <2>2, <2>3 DEF Allocate
<1>3. TypeOK'
  BY <1>1, <1>2 DEF Inv, TypeOK
<1>4. Rows' /\ Exclusive' /\ Distinct' /\ Made' = Made
  BY <1>1, <1>2 DEF Inv, Rows, Exclusive, Distinct, Made
<1>5. ASSUME NEW v \in Workers
      PROVE  Mine(v)'
  <2>1. pc'[v] = pc[v] /\ job'[v] = job[v] /\ holds'[v] = holds[v]
    BY <1>1
  <2>2. Made \subseteq Made' /\ (job[v].new # None /\ pc[v] # "stuff" => job[v].new \notin Made')
    BY <1>4 DEF Inv, Mine, Own, Meant
  <2>3. ASSUME pc[v] = "stuffing", job[v].op = "updateLoadingStatus"
        PROVE  UpdateAllowed(job[v])'
    <3>1. job[v].l \in Made /\ UpdateAllowed(job[v]) /\ job[v].l \in Loadings
      BY <2>3 DEF Inv, Mine, Own, Passed, Meant, Entered
    <3>2. loading[job[v].l].linked => allocation'.qty = allocation.qty
      BY <1>2, <3>1 DEF Inv, Rows
    <3>3. PICK x : x \notin Loadings
      BY Nones
    <3>4. Made' \subseteq Made \union {x} /\ Made \subseteq Made' /\ (x \in Loadings \ Made => loading[x].qty = 0)
      BY <1>4, <3>3
    <3> QED
      BY <1>1, <1>3, <3>1, <3>2, <3>4, TestStands
  <2>4. Passed(pc[v], job[v])'
    BY <1>1, <1>4, <2>3 DEF Inv, Mine, Own, Passed
  <2> QED
    BY <2>1, <2>2, <2>4, MineKept DEF Inv
<1> QED
  BY <1>3, <1>4, <1>5 DEF Inv

\* Nobody has begun.
LEMMA InitInv == Init => Inv
<1> SUFFICES ASSUME Init
             PROVE  Inv
  OBVIOUS
<1>1. TypeOK
  <2>1. shipment \in [status : ShipmentStatuses, quantity : Quantities]
    BY DEF Init, ShipmentStatuses
  <2>2. "Pending" \in ToSet(Ladder) /\ 0 \in 0 .. MaxCrashes
    <3>1. "Pending" \in ToSet(Ladder)
      BY Statuses
    <3>2. 0 \in 0 .. MaxCrashes
      BY RowsAssumption
    <3> QED
      BY <3>1, <3>2
  <2>3. loading \in [Loadings -> [made : BOOLEAN, truck : BOOLEAN, status : ToSet(Ladder),
                                  qty : Loaded, linked : BOOLEAN]]
    BY <2>2 DEF Init, NoLoading, Loaded
  <2> QED
    BY <2>1, <2>2, <2>3, IdleOwn DEF Init, TypeOK, NoLoading, Loaded
<1>2. \A l \in Loadings : loading[l] = NoLoading
  BY DEF Init
<1>3. Rows
  BY <1>2 DEF Rows, NoLoading
<1>4. Exclusive /\ Distinct
  BY IdleOwn DEF Init, Exclusive, Distinct
<1>5. ASSUME NEW w \in Workers
      PROVE  Mine(w)
  BY IdleOwn DEF Init, Mine
<1> QED
  BY <1>1, <1>3, <1>4, <1>5 DEF Inv

\* Every step of every handler keeps the invariant.
LEMMA NextInv == Inv /\ [Next]_vars => Inv'
<1> SUFFICES ASSUME Inv, [Next]_vars
             PROVE  Inv'
  OBVIOUS
<1>1. CASE Allocate
  BY <1>1, AllocateInv
<1>2. ASSUME NEW w \in Workers, Begin(w)
      PROVE  Inv'
  BY <1>2, CreateLoadingInv, UpdateLoadingInv, SaveStuffingInv, UpdateShipmentInv, EnsureRecordsInv,
     SyncLoadingsInv DEF Begin
<1>3. ASSUME NEW w \in Workers, Proceed(w)
      PROVE  Inv'
  <2>1. CASE TakePending(w) \/ Arrive(w)
    BY <2>1, TakePendingInv, ArriveInv
  <2>2. CASE LockLoading(w) \/ Check(w) \/ WriteLoading(w)
    BY <2>2, LockLoadingInv, CheckInv, WriteLoadingInv
  <2>3. CASE LockShipment(w) \/ SaveShipment(w) \/ LockPending(w) \/ LockStuffing(w)
    BY <2>3, LockShipmentInv, SaveShipmentInv, LockPendingInv, LockStuffingInv
  <2>4. CASE FindLoading(w) \/ LockRecord(w) \/ Commit(w)
    BY <2>4, FindLoadingInv, LockRecordInv, CommitInv
  <2>5. CASE SyncLoading(w) \/ SyncStuffing(w)
    BY <2>5, SyncLoadingInv, SyncStuffingInv
  <2>6. CASE Throw(w) \/ DeadlockVictim(w)
    BY <2>6, EndsInv
  <2> QED
    BY <1>3, <2>1, <2>2, <2>3, <2>4, <2>5, <2>6 DEF Proceed
<1>4. ASSUME NEW w \in Workers, Crash(w)
      PROVE  Inv'
  BY <1>4, EndsInv
<1>5. CASE UNCHANGED vars
  <2>1. \A w \in Workers : UpdateAllowed(job[w])' <=> UpdateAllowed(job[w])
    BY <1>5 DEF vars, UpdateAllowed, Updated, Tonnes, Made
  <2>2. UNCHANGED tables /\ UNCHANGED <<holds, pc, job, crashes>>
    BY <1>5 DEF vars, tables
  <2>3. \A w \in Workers : Mine(w)'
    BY <2>2, MineStands DEF Inv
  <2>4. (TypeOK /\ Rows /\ Exclusive /\ Distinct)'
    BY <1>5 DEF vars, Inv, TypeOK, Rows, Exclusive, Distinct
  <2> QED
    BY <2>3, <2>4 DEF Inv
<1> QED
  BY <1>1, <1>2, <1>3, <1>4, <1>5 DEF Next

\* The rows of a shipment and the state of its handlers are of their type, and the
\* inductive invariant holds.
THEOREM Types == Spec => []TypeOK
<1>1. Init => Inv
  BY InitInv
<1>2. Inv /\ [Next]_vars => Inv'
  BY NextInv
<1>3. Inv => TypeOK
  BY DEF Inv
<1> QED
  BY <1>1, <1>2, <1>3, PTL DEF Spec

-----------------------------------------------------------------------------
(* Quantities fit *)

\* Who writes the loadings
LEMMA Writers ==
  ASSUME Next, loading' # loading
  PROVE  \E w \in Workers : Arrive(w) \/ WriteLoading(w) \/ Commit(w) \/ SyncLoading(w)
<1>1. ~Allocate
  BY DEF Allocate
<1>2. PICK w \in Workers : Begin(w) \/ Proceed(w) \/ Crash(w)
  BY <1>1 DEF Next
<1>3. ~Begin(w)
  BY DEF Begin, CreateLoading, UpdateLoading, SaveStuffing, UpdateShipment, EnsureRecords, SyncLoadings, Start, tables
<1>4. ~Crash(w)
  BY DEF Crash, tables
<1>5. ~TakePending(w) /\ ~LockLoading(w) /\ ~Check(w) /\ ~LockShipment(w) /\ ~LockPending(w)
  BY DEF TakePending, LockLoading, Check, LockShipment, LockPending, Step, tables
<1>6. ~LockStuffing(w) /\ ~FindLoading(w) /\ ~LockRecord(w)
  BY DEF LockStuffing, FindLoading, LockRecord, Step, tables
<1>7. ~SaveShipment(w) /\ ~SyncStuffing(w) /\ ~Throw(w) /\ ~DeadlockVictim(w)
  BY DEF SaveShipment, SyncStuffing, Throw, DeadlockVictim, Refuse, tables
<1> QED
  BY <1>2, <1>3, <1>4, <1>5, <1>6, <1>7 DEF Proceed

\* A request that ends as the loadings change has written them itself.
LEMMA Committer ==
  ASSUME Inv, Next, NEW w \in Workers, NEW op, Commits(w, op)
  PROVE  Arrive(w) \/ WriteLoading(w) \/ Commit(w)
<1>1. PICK v \in Workers : Arrive(v) \/ WriteLoading(v) \/ Commit(v) \/ SyncLoading(v)
  BY Writers DEF Commits
<1>2. pc[w] # "idle" /\ pc'[w] = "idle" /\ pc \in [Workers -> Labels]
  BY DEF Commits, Inv, TypeOK
<1>3. ~SyncLoading(v)
  BY <1>2 DEF SyncLoading, Goto
<1>4. Arrive(v) \/ WriteLoading(v) \/ Commit(v) => pc' = [pc EXCEPT ![v] = "idle"]
  BY DEF Arrive, WriteLoading, Commit, End, Goto
<1>5. v = w
  BY <1>1, <1>2, <1>3, <1>4
<1> QED
  BY <1>1, <1>3, <1>5

\* The total once one loading of the shipment has changed
LEMMA TotalOne ==
  ASSUME TypeOK, NEW l \in Made, Made' = Made,
         \A k \in Loadings \ {l} : loading'[k] = loading[k], loading'[l].qty \in Nat
  PROVE  TotalAfter = loading'[l].qty + Tonnes(Made \ {l})
<1>1. PICK S \in SUBSET Loadings : S = Made \ {l}
  BY DEF Made
<1>2. l \in Loadings \ S /\ Made = S \union {l}
  BY <1>1 DEF Made
<1> DEFINE g == [k \in Loadings |-> loading'[k].qty]
<1>3. Tonnes(S)' = Tonnes(S)
  BY <1>1, TonnesSame
<1>4. IsFiniteSet(S) /\ \A k \in S \union {l} : g[k] \in Int
  <2>1. \A k \in S : g[k] = loading[k].qty /\ loading[k].qty \in Nat
    BY <1>1, LoadingTyped
  <2>2. g[l] \in Nat
    BY <1>2
  <2>3. IsFiniteSet(S)
    BY RowsAssumption, FS_Subset
  <2> HIDE DEF g
  <2> QED
    BY <2>1, <2>2, <2>3
<1>5. TotalAfter = SumFunctionOnSet(g, S \union {l}) /\ Tonnes(S)' = SumFunctionOnSet(g, S)
  <2>1. TotalAfter = Tonnes(S \union {l})'
    BY <1>2 DEF TotalAfter, Tonnes
  <2> QED
    BY <2>1 DEF Tonnes
<1>6. g[l] = loading'[l].qty
  BY <1>2
<1> HIDE DEF g
<1>7. SumFunctionOnSet(g, S \union {l}) = g[l] + SumFunctionOnSet(g, S)
  BY <1>2, <1>4, SumAdd
<1> QED
  BY <1>1, <1>3, <1>5, <1>6, <1>7

\* What updateLoadingStatus has tested is what it commits.
LEMMA UpdateCommits ==
  ASSUME Inv, Next, NEW w \in Workers, Commits(w, "updateLoadingStatus"), job[w].qty # None
  PROVE  /\ TotalAfter <= shipment'.quantity
         /\ loading'[job[w].l].linked => TotalAfter <= allocation'.qty
<1>1. WriteLoading(w)
  BY Committer DEF Commits, Arrive, Commit, Inv, Mine, Own, Place
<1>2. PICK j \in Jobs, h \in SUBSET Locks : j = job[w] /\ h = holds[w] /\ Own("stuffing", j, h)
  BY <1>1, Known DEF WriteLoading
<1>3. PICK row : row = Updated(j)
  OBVIOUS
<1>4. /\ j.op = "updateLoadingStatus" /\ UNCHANGED allocation /\ loading' = [loading EXCEPT ![j.l] = row]
      /\ shipment' = [shipment EXCEPT !.status =
           IF row.status \in {"Completed", "Dispatched"} THEN row.status
           ELSE IF @ # "Completed" THEN "Executed" ELSE @]
  BY <1>1, <1>2, <1>3 DEF WriteLoading
<1>5. PICK l \in Made : l = j.l
  BY <1>2, <1>4 DEF Own, Meant
<1>6. row.made /\ row.linked = loading[l].linked /\ row.qty \in Nat
  <2>1. l \in Loadings /\ (j.qty \in Loaded \union {None})
    BY DEF Made, Jobs
  <2> QED
    BY <1>3, <1>5, <2>1, LoadingTyped, Nones DEF Inv, Updated, Saved
<1>7. /\ loading'[l] = row /\ Made' = Made
      /\ \A k \in Loadings \ {l} : loading'[k] = loading[k]
  <2>1. loading'[l] = row /\ \A k \in Loadings \ {l} : loading'[k] = loading[k]
    BY <1>4, <1>5 DEF Inv, TypeOK, Made
  <2> QED
    BY <1>6, <2>1 DEF Made
<1>8. TotalAfter = row.qty + Tonnes(Made \ {l})
  BY <1>6, <1>7, TotalOne DEF Inv
<1>9. UpdateAllowed(j)
  BY <1>2, <1>4 DEF Own, Passed
<1>10. /\ Tonnes(Made \ {l}) + row.qty <= shipment.quantity
       /\ loading[l].linked => Tonnes(Made \ {l}) + row.qty <= allocation.qty
  BY <1>2, <1>3, <1>5, <1>9 DEF UpdateAllowed
<1>11. shipment'.quantity = shipment.quantity
  BY <1>4 DEF Inv, TypeOK
<1>12. Tonnes(Made \ {l}) \in Nat
  <2>1. PICK S \in SUBSET Loadings : S = Made \ {l}
    BY DEF Made
  <2> QED
    BY <2>1, TonnesNat DEF Inv
<1>13. TotalAfter = Tonnes(Made \ {l}) + row.qty
  BY <1>6, <1>8, <1>12
<1> QED
  BY <1>2, <1>4, <1>5, <1>6, <1>7, <1>10, <1>11, <1>13

\* A quantity that updateLoadingStatus accepts fits the shipment and the allocation when it
\* commits (UpdatesFit): trucks that arrive, stuffing jobs and edits wait for the row of the
\* shipment, and a sync, which does not, adds no quantity.
THEOREM Fits == Spec => UpdatesFit
<1> DEFINE Fit == \A w \in Workers : Commits(w, "updateLoadingStatus") /\ job[w].qty # None =>
                    /\ TotalAfter <= shipment'.quantity
                    /\ loading'[job[w].l].linked => TotalAfter <= allocation'.qty
<1>1. Init => Inv
  BY InitInv
<1>2. Inv /\ [Next]_vars => Inv'
  BY NextInv
<1>3. Inv /\ [Next]_vars => [Fit]_vars
  BY UpdateCommits
<1>4. Spec => [][Fit]_vars
  BY <1>1, <1>2, <1>3, PTL DEF Spec
<1> QED
  BY <1>4 DEF UpdatesFit

-----------------------------------------------------------------------------
(* Statuses in order *)

\* A loaded status is one of rank 10 or more.
LEMMA LoadedRank == \A status : IsLoaded(status) <=> Rank(status) >= 10
<1>1. Rank("Loading Completed") = 10
  BY Ranks
<1> QED
  BY <1>1, Zenon DEF IsLoaded

\* The ranks of the statuses that wait for a truck
LEMMA WaitingRanks ==
  ASSUME NEW status
  PROVE  /\ status \in {"Draft", "Pending", "Ready"} => Rank(status) \in {1, 2, 3}
         /\ status \in {"Draft", "Pending"} /\ Rank(status) # 1 => status = "Pending"
BY Ranks

\* A pending loading is not loaded.
LEMMA PendingNot == ~IsLoaded("Pending")
<1>1. Rank("Pending") = 2
  BY Ranks
<1>2. IsLoaded("Pending") <=> Rank("Pending") >= 10
  BY LoadedRank
<1> QED
  BY <1>1, <1>2

\* A truck takes a loading that waits for it, or a new one.
LEMMA ArriveOrder ==
  ASSUME Inv, NEW w \in Workers, Arrive(w), NEW l \in Loadings, loading'[l] # loading[l]
  PROVE  /\ l \in Made => Rank(loading'[l].status) >= Rank(loading[l].status)
         /\ ~IsLoaded(loading'[l].status)
<1>1. PICK j \in Jobs, h \in SUBSET Locks : j = job[w] /\ h = holds[w] /\ Own("stuffing", j, h)
  BY Known DEF Arrive
<1>2. PICK row : row = Saved(TRUE, "Truck Arrived", j.qty, loading[j.l].linked)
  OBVIOUS
<1>3. j.op = "createLoading" /\ loading' = [loading EXCEPT ![j.l] = row]
  BY <1>1, <1>2 DEF Arrive
<1>4. j.l = l /\ loading'[l] = row
  BY <1>3 DEF Inv, TypeOK
<1>5. row.status = "Truck Arrived"
  BY <1>2 DEF Saved
<1>6. l \in Made => loading[l].status \in {"Draft", "Pending", "Ready"}
  BY <1>1, <1>3, <1>4, Nones DEF Own, Passed, Meant, Made
<1>7. Rank(loading'[l].status) = 4
  BY <1>4, <1>5, Ranks
<1>8. l \in Made => Rank(loading[l].status) \in {1, 2, 3}
  BY <1>6, WaitingRanks
<1> QED
  BY <1>7, <1>8, LoadedRank

\* An update keeps the order, and completes nothing that carries nothing.
LEMMA UpdateOrder ==
  ASSUME Inv, NEW w \in Workers, WriteLoading(w), NEW l \in Loadings, loading'[l] # loading[l]
  PROVE  /\ Rank(loading'[l].status) >= Rank(loading[l].status)
         /\ IsLoaded(loading'[l].status) => loading'[l].qty > 0
<1>1. PICK j \in Jobs, h \in SUBSET Locks : j = job[w] /\ h = holds[w] /\ Own("stuffing", j, h)
  BY Known DEF WriteLoading
<1>2. PICK row : row = Updated(j)
  OBVIOUS
<1>3. j.op = "updateLoadingStatus" /\ loading' = [loading EXCEPT ![j.l] = row]
  BY <1>1, <1>2 DEF WriteLoading
<1>4. j.l = l /\ loading'[l] = row
  BY <1>3 DEF Inv, TypeOK
<1>5. UpdateAllowed(j)
  BY <1>1, <1>3 DEF Own, Passed
<1> QED
  BY <1>2, <1>4, <1>5 DEF UpdateAllowed

\* The execution records keep the status and the quantity of a loading that is past its
\* start.
LEMMA RecordedKeeps ==
  ASSUME Inv, NEW j \in Jobs, ~Fills(j), j.l \in Loadings
  PROVE  /\ Recorded(j).status = loading[j.l].status /\ Recorded(j).qty = loading[j.l].qty
         /\ Recorded(j) # loading[j.l] /\ loading[j.l].made => Recorded(j).linked
<1>1. PICK row \in LoadingRows : row = loading[j.l]
  BY LoadingTyped DEF Inv, LoadingRows
<1>2. Recorded(j) = Saved(row.truck, row.status, row.qty, row.linked \/ allocation.status = "Active")
  BY <1>1 DEF Recorded
<1>3. ASSUME ~(row.linked \/ allocation.status = "Active"), row.made
      PROVE  Recorded(j) = row
  <2>1. row.linked = FALSE /\ row.made = TRUE /\ (row.linked \/ allocation.status = "Active") = FALSE
    BY <1>3 DEF LoadingRows
  <2> QED
    BY <1>2, <2>1 DEF Saved, LoadingRows
<1>4. /\ Recorded(j).status = row.status /\ Recorded(j).qty = row.qty
      /\ Recorded(j).linked = (row.linked \/ allocation.status = "Active")
  BY <1>2 DEF Saved
<1>5. Recorded(j) # row /\ row.made => Recorded(j).linked
  BY <1>3, <1>4
<1> QED
  BY <1>1, <1>4, <1>5

\* A row that only gets the allocation
LinkedOnly(l) == loading'[l] = Saved(loading'[l].truck, loading[l].status, 0, TRUE)

\* Two rows with the same fields are the same.
LEMMA Fields ==
  ASSUME NEW row \in LoadingRows, row.made, row.linked
  PROVE  row = Saved(row.truck, row.status, row.qty, TRUE)
<1>1. row.made = TRUE /\ row.linked = TRUE
  BY DEF LoadingRows
<1> QED
  BY <1>1 DEF LoadingRows, Saved

\* Only a stuffing job takes a loading back, and only a draft of it completes one that
\* carries nothing.
LEMMA CommitOrder ==
  ASSUME Inv, Inv', NEW w \in Workers, Commit(w), NEW l \in Loadings, loading'[l] # loading[l]
  PROVE  /\ Rank(loading'[l].status) < Rank(loading[l].status) =>
              job[w].op = "saveStuffingExecution" /\ (job[w].packed \/ loading[l].status = "Pending")
         /\ IsLoaded(loading'[l].status) /\ loading'[l].qty = 0 =>
              \/ job[w].op = "saveStuffingExecution" /\ ~job[w].complete
              \/ l \in Made /\ LinkedOnly(l)
<1>1. PICK j \in Jobs, h \in SUBSET Locks : j = job[w] /\ h = holds[w] /\ Own("commit", j, h)
  BY Known DEF Commit
<1>2. /\ j.op \in {"saveStuffingExecution", "update", "ensureExecutionRecords"}
      /\ j.l \in Loadings
      /\ j.c = None \/ (j.packed /\ j.op = "saveStuffingExecution" /\ j.c \in Loadings)
      /\ \A k \in Loadings \ {j.l, j.c} : loading'[k] = loading[k]
      /\ loading'[j.l] = IF j.c = j.l THEN Contained(j, Recorded(j)) ELSE Recorded(j)
      /\ j.c # None /\ j.c # j.l => j.c \in Made /\ loading'[j.c] = Contained(j, loading[j.c])
  BY <1>1, CommitRows
<1>3. /\ loading[l].status \in ToSet(Ladder) /\ loading'[l].status \in ToSet(Ladder)
      /\ Rank(loading[l].status) \in 1 .. 17 /\ Rank(loading'[l].status) \in 1 .. 17
  BY LoadingTyped, Ranked DEF Inv, TypeOK
<1>4. /\ j.op = "saveStuffingExecution" => j.qty \in Nat
      /\ j.complete => j.qty > 0
  BY <1>1, Nones DEF Own, Entered, Passed, Past
<1>5. CASE l = j.c
  <2>1. PICK row : loading'[l] = Contained(j, row)
    <3>1. CASE j.l = j.c
      BY <1>2, <1>5, <3>1
    <3>2. CASE j.l # j.c
      BY <1>2, <1>5, <3>2, Nones
    <3> QED
      BY <3>1, <3>2
  <2>2. j.packed /\ j.op = "saveStuffingExecution"
    BY <1>2, <1>5, Nones
  <2>3. loading'[l].qty = 0 => j.qty = 0
    BY <2>1 DEF Contained, Saved
  <2> QED
    BY <1>1, <1>4, <2>2, <2>3
<1>6. CASE l # j.c /\ Fills(j)
  <2>1. l = j.l /\ loading'[l] = Recorded(j)
    BY <1>2, <1>6
  <2>2. /\ loading'[l].status = j.status /\ loading'[l].qty = j.qty /\ j.op = "saveStuffingExecution"
        /\ loading[l].status \in {"Draft", "Pending"}
    BY <1>6, <2>1 DEF Recorded, Saved, Fills
  <2>3. Rank(loading'[l].status) < Rank(loading[l].status) => loading[l].status = "Pending"
    <3>1. Rank(loading'[l].status) < Rank(loading[l].status) => Rank(loading[l].status) # 1
      BY <1>3
    <3> QED
      BY <2>2, <3>1, WaitingRanks
  <2> QED
    BY <1>1, <1>4, <2>2, <2>3
<1>7. CASE l # j.c /\ ~Fills(j)
  <2>1. l = j.l /\ loading'[l] = Recorded(j)
    BY <1>2, <1>7
  <2>2. /\ loading'[l].status = loading[l].status /\ loading'[l].qty = loading[l].qty
        /\ loading[l].made => loading'[l].linked
    BY <1>7, <2>1, RecordedKeeps
  <2>3. ASSUME IsLoaded(loading'[l].status), loading'[l].qty = 0
        PROVE  l \in Made /\ LinkedOnly(l)
    <3>1. loading[l].made
      <4>1. loading[l].status # "Pending"
        BY <2>2, <2>3, PendingNot
      <4> QED
        BY <4>1 DEF Inv, Rows, NoLoading
    <3>2. loading'[l] \in LoadingRows /\ loading'[l].made
      <4>1. loading'[l] \in LoadingRows
        BY DEF Inv, TypeOK, LoadingRows
      <4> QED
        BY <2>1, <4>1 DEF Recorded, Saved
    <3>3. loading'[l] = Saved(loading'[l].truck, loading'[l].status, loading'[l].qty, TRUE)
      BY <2>2, <3>1, <3>2, Fields
    <3> QED
      BY <2>2, <2>3, <3>1, <3>3 DEF LinkedOnly, Made
  <2> QED
    BY <1>3, <2>2, <2>3
<1> QED
  BY <1>5, <1>6, <1>7

\* A sync writes the allocation.
LEMMA SyncOrder ==
  ASSUME Inv, Inv', NEW w \in Workers, SyncLoading(w), NEW l \in Loadings, loading'[l] # loading[l]
  PROVE  /\ loading'[l].status = loading[l].status
         /\ IsLoaded(loading'[l].status) /\ loading'[l].qty = 0 =>
              l \in Made /\ LinkedOnly(l)
<1>1. PICK m : m = IF job[w].seen THEN job[w].l ELSE job[w].new
  OBVIOUS
<1>2. PICK row \in LoadingRows : row = loading[l]
  BY LoadingTyped DEF Inv, LoadingRows
<1>3. loading' = [loading EXCEPT ![m] =
        Saved(@.truck, @.status, @.qty, @.linked \/ allocation.status = "Active")]
  BY <1>1 DEF SyncLoading
<1>4. l = m /\ loading'[l] = Saved(row.truck, row.status, row.qty, row.linked \/ allocation.status = "Active")
  BY <1>2, <1>3 DEF Inv, TypeOK
<1>5. /\ loading'[l].status = row.status /\ loading'[l].qty = row.qty /\ loading'[l].made
      /\ loading'[l].linked = (row.linked \/ allocation.status = "Active")
  BY <1>4 DEF Saved
<1>6. ASSUME IsLoaded(loading'[l].status), loading'[l].qty = 0
      PROVE  l \in Made /\ LinkedOnly(l)
  <2>1. row.made
    <3>1. row.status # "Pending"
      BY <1>5, <1>6, PendingNot
    <3> QED
      BY <1>2, <3>1 DEF Inv, Rows, NoLoading
  <2>2. loading'[l].linked
    <3>1. SUFFICES ASSUME ~(row.linked \/ allocation.status = "Active")
                   PROVE  FALSE
      BY <1>5
    <3>2. row.linked = FALSE /\ row.made = TRUE /\ (row.linked \/ allocation.status = "Active") = FALSE
      BY <2>1, <3>1 DEF LoadingRows
    <3>3. loading'[l] = row
      BY <1>4, <3>2 DEF Saved, LoadingRows
    <3> QED
      BY <1>2, <3>3
  <2>3. loading'[l] \in LoadingRows
    BY DEF Inv, TypeOK, LoadingRows
  <2>4. loading'[l] = Saved(loading'[l].truck, loading'[l].status, loading'[l].qty, TRUE)
    BY <1>5, <2>2, <2>3, Fields
  <2> QED
    BY <1>2, <1>5, <1>6, <2>1, <2>4 DEF LinkedOnly, Made
<1> QED
  BY <1>2, <1>5, <1>6

\* A commit of a stuffing job
LEMMA StuffingCommits ==
  ASSUME Inv, NEW w \in Workers, Commit(w), loading' # loading, job[w].op = "saveStuffingExecution"
  PROVE  Commits(w, "saveStuffingExecution")
<1>1. pc[w] = "commit" /\ pc' = [pc EXCEPT ![w] = "idle"]
  BY DEF Commit, End, Goto
<1> QED
  BY <1>1 DEF Commits, Inv, TypeOK

\* One step of one handler
LEMMA StepOrder == Inv /\ Inv' /\ [Next]_vars => [OnlyStuffingMovesBack /\ LoadedWhenCompleted]_vars
<1> SUFFICES ASSUME Inv, Inv', Next
             PROVE  OnlyStuffingMovesBack /\ LoadedWhenCompleted
  OBVIOUS
<1>1. ASSUME NEW l \in Made, Rank(loading'[l].status) < Rank(loading[l].status)
      PROVE  \E w \in Workers : Commits(w, "saveStuffingExecution") /\ (job[w].packed \/ loading[l].status = "Pending")
  <2>1. /\ loading[l].status \in ToSet(Ladder) /\ loading'[l].status \in ToSet(Ladder)
        /\ Rank(loading[l].status) \in 1 .. 17 /\ Rank(loading'[l].status) \in 1 .. 17 /\ l \in Loadings
    BY LoadingTyped, Ranked DEF Inv, TypeOK, Made
  <2>2. loading'[l] # loading[l] /\ loading' # loading
    BY <1>1, <2>1
  <2>3. PICK w \in Workers : Arrive(w) \/ WriteLoading(w) \/ Commit(w) \/ SyncLoading(w)
    BY <2>2, Writers
  <2>4. CASE Arrive(w)
    BY <1>1, <2>1, <2>2, <2>4, ArriveOrder
  <2>5. CASE WriteLoading(w)
    BY <1>1, <2>1, <2>2, <2>5, UpdateOrder
  <2>6. CASE Commit(w)
    BY <1>1, <2>1, <2>2, <2>6, CommitOrder, StuffingCommits
  <2>7. CASE SyncLoading(w)
    BY <1>1, <2>1, <2>2, <2>7, SyncOrder
  <2> QED
    BY <2>3, <2>4, <2>5, <2>6, <2>7
<1>2. ASSUME NEW l \in Loadings, loading'[l] # loading[l],
             IsLoaded(loading'[l].status), loading'[l].qty = 0
      PROVE  \/ \E w \in Workers : Commits(w, "saveStuffingExecution") /\ ~job[w].complete
             \/ l \in Made /\ LinkedOnly(l)
  <2>1. loading' # loading /\ Rank(loading'[l].status) \in 1 .. 17
    BY <1>2, Ranked DEF Inv, TypeOK
  <2>2. PICK w \in Workers : Arrive(w) \/ WriteLoading(w) \/ Commit(w) \/ SyncLoading(w)
    BY <2>1, Writers
  <2>3. ~Arrive(w)
    BY <1>2, ArriveOrder
  <2>4. ~WriteLoading(w)
    BY <1>2, UpdateOrder
  <2>5. CASE Commit(w)
    BY <1>2, <2>1, <2>5, CommitOrder, StuffingCommits
  <2>6. CASE SyncLoading(w)
    BY <1>2, <2>6, SyncOrder
  <2> QED
    BY <2>2, <2>3, <2>4, <2>5, <2>6
<1>3. OnlyStuffingMovesBack
  BY <1>1 DEF OnlyStuffingMovesBack
<1>4. LoadedWhenCompleted
  BY <1>2 DEF LoadedWhenCompleted, LinkedOnly
<1> QED
  BY <1>3, <1>4

\* A loading goes through its statuses in order, and is marked as loaded with what it
\* carries: only the stuffing job leaves that order or that meaning (StatusInOrder).
THEOREM Order == Spec => StatusInOrder
<1>1. Init => Inv
  BY InitInv
<1>2. Inv /\ [Next]_vars => Inv'
  BY NextInv
<1>3. Inv /\ Inv' /\ [Next]_vars => [OnlyStuffingMovesBack /\ LoadedWhenCompleted]_vars
  BY StepOrder
<1>4. Spec => [][OnlyStuffingMovesBack /\ LoadedWhenCompleted]_vars
  BY <1>1, <1>2, <1>3, PTL DEF Spec
<1> QED
  BY <1>4 DEF StatusInOrder

-----------------------------------------------------------------------------
(* Execution records *)

\* Users give a shipment no executed status but Executed: update saves any status as it
\* is, and creates the records of that one alone.
EditsReady == Edits \intersect Executed \subseteq {"Executed"}

\* What keeps an executed shipment with its records: a truck arrives only where there is a
\* stuffing job, and a sync finds the loading of an executed shipment there.
Kept(p, j) ==
  /\ j.op = "createLoading" /\ p \in {"pending", "stuffing"} => stuffing # "none"
  /\ p = "insert" => j.seen

Records ==
  /\ shipment.status \in Executed => Made # {}
  /\ Made # {} => stuffing # "none"
  /\ \A w \in Workers : Kept(pc[w], job[w])

\* A step of one handler, and what it must leave
LEMMA RecordsStep ==
  ASSUME Inv, Records, NEW w \in Workers, NEW p, NEW j,
         pc' = [pc EXCEPT ![w] = p], job' = [job EXCEPT ![w] = j],
         stuffing # "none" => stuffing' # "none",
         shipment'.status \in Executed => Made' # {},
         Made' # {} => stuffing' # "none",
         j.op = "createLoading" /\ p \in {"pending", "stuffing"} => stuffing' # "none",
         p = "insert" => j.seen
  PROVE  Records'
<1>1. /\ pc'[w] = p /\ job'[w] = j
      /\ \A v \in Workers \ {w} : pc'[v] = pc[v] /\ job'[v] = job[v]
  BY DEF Inv, TypeOK
<1>2. ASSUME NEW v \in Workers
      PROVE  Kept(pc[v], job[v])'
  <2>1. CASE v = w
    BY <1>1, <2>1 DEF Kept
  <2>2. CASE v # w
    BY <1>1, <2>2 DEF Records, Kept
  <2> QED
    BY <2>1, <2>2
<1> QED
  BY <1>2 DEF Records

\* A step that writes no row
LEMMA RecordsStand ==
  ASSUME Inv, Records, NEW w \in Workers, NEW p, NEW j, UNCHANGED tables,
         pc' = [pc EXCEPT ![w] = p], job' = [job EXCEPT ![w] = j],
         j.op = "createLoading" /\ p \in {"pending", "stuffing"} => stuffing # "none",
         p = "insert" => j.seen
  PROVE  Records'
<1>1. UNCHANGED <<shipment, loading, stuffing, allocation>> /\ Made' = Made
  BY DEF tables, Made
<1>2. /\ shipment'.status \in Executed => Made' # {}
      /\ Made' # {} => stuffing' # "none"
      /\ stuffing # "none" => stuffing' # "none"
      /\ j.op = "createLoading" /\ p \in {"pending", "stuffing"} => stuffing' # "none"
  BY <1>1 DEF Records
<1> QED
  BY <1>2, RecordsStep

\* A request begins: a sync only where the shipment is executed.
LEMMA RecordsBegin ==
  ASSUME Inv, Records, NEW w \in Workers, Begin(w)
  PROVE  Records'
<1>1. PICK p \in {"loading", "shipment", "insert"}, j \in Jobs :
        Start(w, p, j) /\ (p = "insert" => j.seen)
  <2>1. CASE CreateLoading(w)
    <3>1. PICK q \in Loaded : Start(w, "shipment", [NoJob EXCEPT !.op = "createLoading", !.qty = q, !.truck = TRUE])
      BY <2>1 DEF CreateLoading
    <3>2. [NoJob EXCEPT !.op = "createLoading", !.qty = q, !.truck = TRUE] \in Jobs
      BY IdleOwn DEF NoJob, Jobs, Handlers
    <3> QED
      BY <3>1, <3>2
  <2>2. CASE UpdateLoading(w)
    <3>1. PICK l \in Made, u \in Updates :
            Start(w, "loading", [NoJob EXCEPT !.op = "updateLoadingStatus", !.l = l, !.status = u.status,
                                              !.qty = u.qty, !.truck = u.truck, !.cleared = u.cleared])
      BY <2>2 DEF UpdateLoading
    <3>2. l \in Loadings /\ u \in [status : ToSet(Ladder) \union {"none"}, qty : Loaded \union {None},
                                truck : BOOLEAN, cleared : BOOLEAN]
      BY InputsAssumption DEF Made
    <3>3. [NoJob EXCEPT !.op = "updateLoadingStatus", !.l = l, !.status = u.status, !.qty = u.qty,
                        !.truck = u.truck, !.cleared = u.cleared] \in Jobs
      BY <3>2, IdleOwn DEF NoJob, Jobs, Handlers
    <3> QED
      BY <3>1, <3>3
  <2>3. CASE SaveStuffing(w)
    <3>1. PICK s \in Stuffings :
            Start(w, "shipment", [NoJob EXCEPT !.op = "saveStuffingExecution", !.status = s.status, !.qty = s.qty,
                                               !.complete = s.complete, !.packed = s.packed, !.truck = s.truck])
      BY <2>3 DEF SaveStuffing
    <3>2. s \in [status : ToSet(Ladder), qty : Loaded, complete : BOOLEAN, packed : BOOLEAN, truck : BOOLEAN]
      BY InputsAssumption
    <3>3. [NoJob EXCEPT !.op = "saveStuffingExecution", !.status = s.status, !.qty = s.qty,
                        !.complete = s.complete, !.packed = s.packed, !.truck = s.truck] \in Jobs
      BY <3>2, IdleOwn DEF NoJob, Jobs, Handlers
    <3> QED
      BY <3>1, <3>3
  <2>4. CASE UpdateShipment(w)
    <3>1. PICK status \in Edits \union {"none"}, q \in Quantities \union {None} :
            Start(w, "shipment", [NoJob EXCEPT !.op = "update", !.status = status, !.qty = q,
                                                !.was = shipment.status])
      BY <2>4 DEF UpdateShipment
    <3>2. shipment.status \in ShipmentStatuses /\ q \in Loaded \union {None}
      BY DEF Inv, TypeOK, Loaded
    <3>3. [NoJob EXCEPT !.op = "update", !.status = status, !.qty = q, !.was = shipment.status] \in Jobs
      BY <3>2, IdleOwn DEF NoJob, Jobs, Handlers, ShipmentStatuses
    <3> QED
      BY <3>1, <3>3
  <2>5. CASE EnsureRecords(w)
    <3>1. [NoJob EXCEPT !.op = "ensureExecutionRecords"] \in Jobs
      BY IdleOwn DEF NoJob, Jobs, Handlers
    <3> QED
      BY <2>5, <3>1 DEF EnsureRecords
  <2>6. CASE SyncLoadings(w)
    <3>1. PICK l \in IF Made = {} THEN {None} ELSE Made, b \in BOOLEAN :
            /\ Start(w, "insert", [NoJob EXCEPT !.op = "syncExecutedShipmentLoadings", !.l = l, !.seen = b])
            /\ b = (Made # {})
      BY <2>6 DEF SyncLoadings
    <3>2. [NoJob EXCEPT !.op = "syncExecutedShipmentLoadings", !.l = l, !.seen = b] \in Jobs
      BY IdleOwn DEF NoJob, Jobs, Handlers, Made
    <3>3. b
      BY <2>6, <3>1 DEF SyncLoadings, Records
    <3>4. [NoJob EXCEPT !.op = "syncExecutedShipmentLoadings", !.l = l, !.seen = b].seen
      BY <3>3 DEF NoJob
    <3> QED
      BY <3>1, <3>2, <3>4
  <2> QED
    BY <2>1, <2>2, <2>3, <2>4, <2>5, <2>6 DEF Begin
<1>2. PICK l : Goto(w, p, [j EXCEPT !.new = l]) /\ UNCHANGED tables
  BY <1>1 DEF Start
<1>3. PICK k : k = [j EXCEPT !.new = l]
  OBVIOUS
<1>4. p = "insert" => k.seen
  BY <1>1, <1>3 DEF Jobs
<1>5. pc' = [pc EXCEPT ![w] = p] /\ job' = [job EXCEPT ![w] = k] /\ UNCHANGED tables
  BY <1>2, <1>3 DEF Goto
<1> QED
  BY <1>1, <1>4, <1>5, RecordsStand

\* A statement: a truck goes on only where the shipment is executed.
LEMMA RecordsLock ==
  ASSUME Inv, Records, NEW w \in Workers,
         TakePending(w) \/ LockLoading(w) \/ Check(w) \/ LockShipment(w) \/ LockPending(w)
           \/ LockStuffing(w) \/ FindLoading(w) \/ LockRecord(w)
  PROVE  Records'
<1>1. PICK j \in Jobs : j = job[w]
  BY DEF Inv, TypeOK
<1>2. \E p \in Labels \ {"insert"} : \E k :
         /\ Step(w, p, k)
         /\ k.op = "createLoading" /\ p \in {"pending", "stuffing"} => stuffing # "none"
  <2>1. CASE TakePending(w)
    <3>1. PICK l : Step(w, "stuffing", [j EXCEPT !.l = l])
      BY <1>1, <2>1 DEF TakePending
    <3>2. stuffing # "none"
      BY <2>1 DEF TakePending, Records, Kept
    <3> QED
      BY <3>1, <3>2 DEF Labels
  <2>2. CASE LockLoading(w)
    BY <2>2 DEF LockLoading, Labels
  <2>3. CASE Check(w)
    <3>1. job[w].op # "createLoading"
      BY <2>3 DEF Check, Inv, Mine, Own, Place
    <3> QED
      BY <2>3, <3>1 DEF Check, Labels
  <2>4. CASE LockShipment(w)
    <3>1. j.op = "createLoading" => shipment.status = "Executed"
      BY <1>1, <2>4 DEF LockShipment, Admitted
    <3>2. j.op = "createLoading" => stuffing # "none"
      BY <3>1 DEF Records, Executed
    <3>3. Then(j) \in {"pending", "check", "stuffing"}
      BY DEF Then
    <3> QED
      BY <1>1, <2>4, <3>2, <3>3 DEF LockShipment, Labels
  <2>5. CASE LockPending(w)
    BY <2>5 DEF LockPending, Labels
  <2>6. CASE LockStuffing(w)
    BY <2>6 DEF LockStuffing, Labels
  <2>7. CASE FindLoading(w)
    BY <2>7 DEF FindLoading, Labels
  <2>8. CASE LockRecord(w)
    BY <2>8 DEF LockRecord, Labels
  <2> QED
    BY <2>1, <2>2, <2>3, <2>4, <2>5, <2>6, <2>7, <2>8
<1>3. PICK p \in Labels \ {"insert"} : \E k :
         /\ Step(w, p, k)
         /\ k.op = "createLoading" /\ p \in {"pending", "stuffing"} => stuffing # "none"
  BY <1>2
<1>4. PICK k : /\ Step(w, p, k)
               /\ k.op = "createLoading" /\ p \in {"pending", "stuffing"} => stuffing # "none"
  BY <1>3
<1>5. pc' = [pc EXCEPT ![w] = p] /\ job' = [job EXCEPT ![w] = k] /\ UNCHANGED tables
  BY <1>4 DEF Step, Goto
<1> QED
  BY <1>4, <1>5, RecordsStand

\* A request that writes and ends
LEMMA RecordsEnd ==
  ASSUME Inv, Records, NEW w \in Workers, End(w),
         stuffing # "none" => stuffing' # "none",
         shipment'.status \in Executed => Made' # {},
         Made' # {} => stuffing' # "none"
  PROVE  Records'
<1>1. pc' = [pc EXCEPT ![w] = "idle"] /\ job' = [job EXCEPT ![w] = NoJob]
  BY DEF End, Goto
<1> QED
  BY <1>1, RecordsStep

\* Whichever handler writes leaves the records of an executed shipment.
LEMMA RecordsWrite ==
  ASSUME EditsReady, Inv, Inv', Records, NEW w \in Workers,
         Arrive(w) \/ WriteLoading(w) \/ SaveShipment(w) \/ Commit(w)
  PROVE  Records'
<1>1. PICK j \in Jobs, h \in SUBSET Locks : j = job[w] /\ h = holds[w] /\ Own(pc[w], j, h)
  BY Known
<1>2. CASE Arrive(w)
  <2>1. End(w) /\ UNCHANGED <<shipment, stuffing>> /\ stuffing # "none"
    BY <1>2 DEF Arrive, Records, Kept
  <2>2. PICK row : row = Saved(TRUE, "Truck Arrived", j.qty, loading[j.l].linked)
    OBVIOUS
  <2>3. loading' = [loading EXCEPT ![j.l] = row] /\ row.made
    BY <1>1, <1>2, <2>2 DEF Arrive, Saved
  <2>4. Made \subseteq Made'
    BY <2>3 DEF Made, Inv, TypeOK
  <2> QED
    BY <2>1, <2>4, RecordsEnd DEF Records
<1>3. CASE WriteLoading(w)
  <2>1. PICK row : row = Updated(j)
    OBVIOUS
  <2>2. /\ End(w) /\ loading' = [loading EXCEPT ![j.l] = row] /\ row.made /\ j.l \in Made
        /\ stuffing' = IF stuffing = "none" THEN stuffing ELSE StuffingOf(row.status)
    BY <1>1, <1>3, <2>1 DEF WriteLoading, Updated, Saved, Own, Meant
  <2>3. Made \subseteq Made' /\ Made' # {} /\ Made # {}
    BY <2>2 DEF Made, Inv, TypeOK
  <2>4. stuffing # "none" /\ stuffing' # "none"
    BY <2>2, <2>3 DEF Records, StuffingOf
  <2> QED
    BY <2>2, <2>3, <2>4, RecordsEnd
<1>4. CASE SaveShipment(w)
  <2>1. /\ End(w) /\ shipment' = Edited(j) /\ ~Executes(j) /\ j.op = "update"
        /\ UNCHANGED <<loading, stuffing>>
    BY <1>1, <1>4 DEF SaveShipment
  <2>2. j.status \in Edits \union {"none"}
    BY <1>1, <2>1 DEF Own, Entered
  <2>3. shipment'.status = IF j.status = "none" THEN shipment.status ELSE j.status
    BY <2>1 DEF Edited
  <2>4. shipment'.status \in Executed => shipment.status \in Executed
    BY <2>1, <2>2, <2>3 DEF Executes, EditsReady
  <2>5. Made' = Made
    BY <2>1 DEF Made
  <2> QED
    BY <2>1, <2>4, <2>5, RecordsEnd DEF Records
<1>5. CASE Commit(w)
  <2>1. Own("commit", j, h)
    BY <1>1, <1>5 DEF Commit
  <2>2. /\ j.l \in Loadings /\ Recorded(j) \in LoadingRows /\ Recorded(j).made
        /\ \A row \in LoadingRows : j.c # None => Contained(j, row).made
        /\ loading'[j.l] = IF j.c = j.l THEN Contained(j, Recorded(j)) ELSE Recorded(j)
    BY <1>1, <1>5, <2>1, CommitRows
  <2>3. Made' # {}
    BY <2>2, Nones DEF Made
  <2>4. /\ End(w)
        /\ stuffing' = IF j.op = "saveStuffingExecution" THEN (IF j.complete THEN "Completed" ELSE "Pending")
                       ELSE IF stuffing = "none" THEN "Pending" ELSE stuffing
    BY <1>1, <1>5 DEF Commit
  <2>5. stuffing' # "none"
    BY <2>4
  <2> QED
    BY <2>3, <2>4, <2>5, RecordsEnd
<1> QED
  BY <1>2, <1>3, <1>4, <1>5

\* A sync finds the loading it means.
LEMMA RecordsSync ==
  ASSUME Inv, Records, NEW w \in Workers, SyncLoading(w) \/ SyncStuffing(w)
  PROVE  Records'
<1>1. PICK j \in Jobs, h \in SUBSET Locks : j = job[w] /\ h = holds[w] /\ Own(pc[w], j, h)
  BY Known
<1>2. CASE SyncLoading(w)
  <2>1. j.seen /\ pc[w] = "insert"
    BY <1>1, <1>2 DEF SyncLoading, Records, Kept
  <2>2. j.l \in Made
    BY <1>1, <2>1 DEF Own, Found
  <2>3. PICK row : row = Saved(loading[j.l].truck, loading[j.l].status, loading[j.l].qty,
                               loading[j.l].linked \/ allocation.status = "Active")
    OBVIOUS
  <2>4. loading' = [loading EXCEPT ![j.l] = row] /\ row.made
    BY <1>1, <1>2, <2>1, <2>3 DEF SyncLoading, Saved
  <2>5. Made' = Made
    BY <2>2, <2>4 DEF Made, Inv, TypeOK
  <2>6. PICK k : k = [j EXCEPT !.seen = stuffing # "none"]
    OBVIOUS
  <2>7. pc' = [pc EXCEPT ![w] = "stuff"] /\ job' = [job EXCEPT ![w] = k] /\ UNCHANGED <<shipment, stuffing>>
    BY <1>1, <1>2, <2>6 DEF SyncLoading, Goto
  <2> QED
    BY <2>5, <2>7, RecordsStep DEF Records
<1>3. CASE SyncStuffing(w)
  <2>1. End(w) /\ UNCHANGED <<shipment, loading>> /\ stuffing' # "none"
    BY <1>3 DEF SyncStuffing
  <2>2. Made' = Made
    BY <2>1 DEF Made
  <2> QED
    BY <2>1, <2>2, RecordsEnd DEF Records
<1> QED
  BY <1>2, <1>3

\* An executed shipment keeps its records.
LEMMA NextRecords == EditsReady /\ Inv /\ Inv' /\ Records /\ [Next]_vars => Records'
<1> SUFFICES ASSUME EditsReady, Inv, Inv', Records, [Next]_vars
             PROVE  Records'
  OBVIOUS
<1>1. CASE UNCHANGED vars
  BY <1>1 DEF vars, Records, Kept, Made
<1>2. CASE Allocate
  BY <1>2 DEF Allocate, Records, Kept, Made
<1>3. ASSUME NEW w \in Workers, Begin(w)
      PROVE  Records'
  BY <1>3, RecordsBegin
<1>4. ASSUME NEW w \in Workers, Throw(w) \/ DeadlockVictim(w) \/ Crash(w)
      PROVE  Records'
  <2>1. End(w) /\ UNCHANGED tables
    BY <1>4 DEF Throw, DeadlockVictim, Crash, Refuse
  <2>2. pc' = [pc EXCEPT ![w] = "idle"] /\ job' = [job EXCEPT ![w] = NoJob]
    BY <2>1 DEF End, Goto
  <2> QED
    BY <2>1, <2>2, RecordsStand
<1>5. ASSUME NEW w \in Workers, Proceed(w)
      PROVE  Records'
  BY <1>4, <1>5, RecordsLock, RecordsWrite, RecordsSync DEF Proceed
<1> QED
  BY <1>1, <1>2, <1>3, <1>4, <1>5 DEF Next

\* Whichever handler executes a shipment, it has a loading and a stuffing job (RowsSound):
\* where users give no other executed status than Executed.
THEOREM HasRecords == ASSUME EditsReady PROVE Spec => []RowsSound
<1>1. Init => Inv /\ Records
  <2>1. SUFFICES ASSUME Init
                 PROVE  Inv /\ Records
    OBVIOUS
  <2>2. shipment.status = "Scheduled" /\ Made = {}
    BY <2>1 DEF Init, Made, NoLoading
  <2>3. \A w \in Workers : Kept(pc[w], job[w])
    BY <2>1 DEF Init, Kept, NoJob
  <2> QED
    BY <2>1, <2>2, <2>3, InitInv DEF Records, Executed
<1>2. Inv /\ [Next]_vars => Inv'
  BY NextInv
<1>3. Inv /\ Inv' /\ Records /\ [Next]_vars => Records'
  BY NextRecords
<1>4. Inv /\ Records => RowsSound
  BY DEF Inv, Records, RowsSound, ExecutedHasJob
<1> QED
  BY <1>1, <1>2, <1>3, <1>4, PTL DEF Spec
=============================================================================
