------------------------ MODULE PurchaseContractsProofs ------------------------
(***************************************************************************)
(* Proofs about PurchaseContracts, for any number of purchase contracts    *)
(* and shipments, whatever the requests ask for.                           *)
(*                                                                         *)
(* Typed holds for any number of workers.  Alone is what one worker may    *)
(* rely on between its steps when no other request is under way: what it   *)
(* has read is still so when it is written.                                *)
(***************************************************************************)
EXTENDS PurchaseContracts, SetLemmas

-----------------------------------------------------------------------------
(* Invariants *)

Ops == {"none", "shipment", "stuffing", "create", "update", "status", "remove"}

Jobs == [op : Ops, id : Purchases \union {None}, ships : SUBSET Shipments, qty : Nat \union {Keep},
         old : Statuses \union {None}, next : Statuses \union {Keep}, header : BOOLEAN \X BOOLEAN,
         alloc : SUBSET (Purchases \X Shipments), dead : SUBSET (Purchases \X Shipments),
         before : {"commit", "dated"}, after : {"idle", "queue", "mark", "header", "status"}]

\* From the first step that has one, a request works on a purchase contract; what it enters is a
\* quantity.
Named(w) ==
  /\ pc[w] \notin {"idle", "ensure", "insert"} => job[w].id \in Purchases
  /\ pc[w] \in {"insert", "topup"} => job[w].qty \in Nat

Typed == TypeOK /\ job \in [Workers -> Jobs] /\ \A w \in Workers : Named(w)

\* Nobody asks for more than the sales contract has at most.
Asks(w) ==
  /\ pc[w] \in {"insert", "topup"} => job[w].qty \in 0..Largest
  /\ pc[w] = "save" /\ Requested(w) => job[w].qty \in 0..Largest

Bounded == Typed /\ salesQty \in SalesQuantities /\ EachWithinSales /\ \A w \in Workers : Asks(w)

Making == {"shipment", "stuffing", "create"}
Changing == {"status", "remove"}

\* Which requests take which steps: only a status change has a status to write while it holds a row.
Kinds(w) ==
  LET j == job[w]
  IN /\ pc[w] \in {"ensure", "topup", "insert", "link", "mark", "header", "dated"} => j.op \in Making
     /\ pc[w] # "idle" /\ (j.after \in {"mark", "header"} \/ j.before = "dated") => j.op \in Making
     /\ pc[w] \in {"save", "status"} => j.op = "update"
     /\ pc[w] # "idle" /\ j.after = "status" => j.op = "update"
     /\ pc[w] = "begin" => j.op \in Changing /\ j.alloc = {} /\ j.dead = {}
     /\ j.op \in Making => j.next = Keep
     /\ j.op = "update" => j.next \in Patched \union {Keep}

\* The row w has written is the one it works on.
Holding(w) ==
  \A p \in Purchases : holder[p] # None =>
    holder[p] = w /\ p = job[w].id /\ pc[w] \in {"read", "destroy", "dated", "commit"}

\* The status change that is under way was allowed when it began and still is; no other request
\* writes a status in a transaction.
Changes(w) ==
  LET j == job[w]
  IN pc[w] \in {"begin", "read", "destroy", "dated", "commit"} =>
       /\ j.op \in Changing =>
            /\ Exists(j.id) /\ purchase[j.id].status = j.old /\ j.next \in Statuses
            /\ j.old = "Cancelled" => j.next \in {"Draft", "Cancelled"}
            /\ pc[w] # "begin" => /\ holder[j.id] = w <=> j.next # j.old
                                  /\ Reactivates(w) => Fits(j.id, purchase[j.id].qty)
       /\ j.op \notin Changing => j.next = Keep \/ \A p \in Purchases : holder[p] # w

\* What was found by reading is still so.
Reads(w) ==
  LET j == job[w]
  IN /\ pc[w] = "insert" => Active = {} /\ j.qty \in 0..salesQty
     /\ pc[w] = "topup" => /\ j.id \in Active /\ purchase[j.id].qty = 0
                           /\ Total(Active) + j.qty <= salesQty
     /\ pc[w] = "save" /\ Requested(w) => Fits(j.id, j.qty)

Alone(w) == Typed /\ Kinds(w) /\ Holding(w) /\ Changes(w) /\ Reads(w)

\* Every link is of a purchase contract that counts.
LinksCount == \A l \in links : Counted(purchase[l[1]])

\* The links about to be written are disjoint, of purchase contracts that will count, and replace
\* those that are there.
Planned(w) ==
  LET j == job[w]
  IN pc[w] \in {"destroy", "dated", "commit"} =>
       \/ pc[w] = "commit" /\ j.alloc = {} /\ j.dead = {} /\ j.next # "Cancelled"
       \/ /\ \A k, l \in j.alloc : k[2] = l[2] => k = l
          /\ \A l \in j.alloc : Counted(View(w, l[1]))
          /\ pc[w] # "destroy" => j.dead = links

\* The queue has one record when the sales contract comes from an enquiry, one of each otherwise.
QueueOnce(w) ==
  /\ OneQueueRecord
  /\ FromEnquiry => Len(queue) <= 1
  /\ pc[w] = "enqueue" => Found(job[w].id) = {}

\* A new purchase contract is linked before any other has links.
LinksFirst(w) == pc[w] = "link" => links = {} /\ Counted(purchase[job[w].id])

Linked(w) == NoOverlap /\ LinksCount /\ Planned(w) /\ QueueOnce(w) /\ LinksFirst(w)

Serial == \A w \in Workers : Alone(w) /\ Linked(w)
-----------------------------------------------------------------------------
(* Quantities *)

\* There are finitely many purchase contracts, and their ids are numbers.
LEMMA PurchasesFinite == IsFiniteSet(Purchases) /\ Purchases \subseteq Nat
BY PurchaseAssumption, FS_Interval DEF Purchases

\* A purchase contract that is not there has status Absent and no quantity.
LEMMA RowTyped ==
  ASSUME TypeOK, NEW p \in Purchases
  PROVE  /\ purchase[p].qty \in Nat
         /\ purchase[p] # Absent => purchase[p] \in [status : Statuses, qty : Nat]
         /\ purchase[p] = Absent <=> purchase[p].status = "Absent"
<1>1. purchase[p] \in [status : Statuses, qty : Nat] \union {Absent}
  BY DEF TypeOK
<1>2. CASE purchase[p] = Absent
  BY <1>2 DEF Absent
<1>3. CASE purchase[p] \in [status : Statuses, qty : Nat]
  <2>1. purchase[p].status \in Statuses /\ purchase[p].status # "Absent"
    BY <1>3 DEF Statuses
  <2>2. purchase[p] # Absent
    BY <2>1 DEF Absent
  <2> QED
    BY <1>3, <2>1, <2>2
<1> QED
  BY <1>1, <1>2, <1>3

\* Totals of purchase contracts are natural numbers, and those of fewer contracts are no greater.
LEMMA TotalNat ==
  ASSUME TypeOK, NEW P \in SUBSET Purchases
  PROVE  /\ IsFiniteSet(P) /\ Total(P) \in Nat
         /\ \A Q \in SUBSET P : Total(Q) <= Total(P)
<1> DEFINE f == [p \in Purchases |-> purchase[p].qty]
<1>1. IsFiniteSet(P) /\ \A p \in P : f[p] \in Nat
  BY PurchasesFinite, RowTyped, FS_Subset
<1>2. \A Q : Total(Q) = SumFunctionOnSet(f, Q)
  BY DEF Total
<1> HIDE DEF f
<1> QED
  BY <1>1, <1>2, SumNat

\* A total with one purchase contract more
LEMMA TotalAdd ==
  ASSUME TypeOK, NEW P \in SUBSET Purchases, NEW p \in Purchases \ P
  PROVE  Total(P \union {p}) = purchase[p].qty + Total(P)
<1> DEFINE f == [q \in Purchases |-> purchase[q].qty]
<1>1. IsFiniteSet(P) /\ \A q \in P \union {p} : f[q] \in Int
  <2>1. \A q \in Purchases : f[q] \in Nat
    BY RowTyped
  <2>2. IsFiniteSet(P)
    BY PurchasesFinite, FS_Subset
  <2> HIDE DEF f
  <2> QED
    BY <2>1, <2>2
<1>2. \A Q : Total(Q) = SumFunctionOnSet(f, Q)
  BY DEF Total
<1>3. f[p] = purchase[p].qty
  OBVIOUS
<1> HIDE DEF f
<1> QED
  BY <1>1, <1>2, <1>3, SumAdd

\* ... and with that one's share apart
LEMMA TotalWithout ==
  ASSUME TypeOK, NEW P \in SUBSET Purchases, NEW p \in P
  PROVE  Total(P) = purchase[p].qty + Total(P \ {p})
<1> DEFINE R == P \ {p}
<1>1. R \in SUBSET Purchases /\ p \in Purchases \ R /\ P = R \union {p}
  OBVIOUS
<1> HIDE DEF R
<1>2. Total(R \union {p}) = purchase[p].qty + Total(R)
  BY <1>1, TotalAdd
<1> QED
  BY <1>1, <1>2 DEF R

\* A total depends on the quantities it adds up.
LEMMA TotalSame ==
  ASSUME TypeOK, NEW P \in SUBSET Purchases, \A p \in P : purchase'[p].qty = purchase[p].qty
  PROVE  Total(P)' = Total(P)
<1> DEFINE f == [q \in Purchases |-> purchase[q].qty]
           g == [q \in Purchases |-> purchase'[q].qty]
<1>1. IsFiniteSet(P) /\ \A q \in P : f[q] = g[q]
  BY PurchasesFinite, FS_Subset
<1>2. Total(P) = SumFunctionOnSet(f, P) /\ Total(P)' = SumFunctionOnSet(g, P)
  BY DEF Total
<1> HIDE DEF f, g
<1> QED
  BY <1>1, <1>2, SumSame

\* No contracts have no quantity.
LEMMA TotalNone == Total({}) = 0
BY SumEmpty DEF Total

\* No purchase contract of a set has more than the whole.
LEMMA TotalCovers ==
  ASSUME TypeOK, NEW P \in SUBSET Purchases
  PROVE  \A p \in P : purchase[p].qty <= Total(P)
<1> SUFFICES ASSUME NEW p \in P
             PROVE  purchase[p].qty <= Total(P)
  OBVIOUS
<1>1. Total(P) = purchase[p].qty + Total(P \ {p})
  BY TotalWithout
<1>2. Total(P \ {p}) \in Nat /\ purchase[p].qty \in Nat
  BY TotalNat, RowTyped
<1> QED
  BY <1>1, <1>2

\* The purchase contracts that count are a finite set of numbers.
LEMMA ActiveFinite == Active \subseteq Purchases /\ Active \subseteq Int /\ IsFiniteSet(Active)
<1>1. Active \subseteq Purchases
  BY DEF Active
<1>2. Active \subseteq Int
  BY <1>1 DEF Purchases
<1>3. IsFiniteSet(Active)
  BY <1>1, PurchasesFinite, FS_Subset
<1> QED
  BY <1>1, <1>2, <1>3

-----------------------------------------------------------------------------
(* Types *)

\* What is shared has its types.
DataTyped ==
  /\ salesQty \in Nat
  /\ purchase \in [Purchases -> [status: Statuses, qty: Nat] \union {Absent}]
  /\ lastId \in 0..MaxPurchases
  /\ links \subseteq Purchases \X Shipments
  /\ shipment \in [Shipments -> ShipmentStatuses]
  /\ queue \in Seq(Purchases)
  /\ holder \in [Purchases -> Workers \union {None}]

\* The next step of w is label, with the local variables j; the other workers stay.
LEMMA Goes ==
  ASSUME Typed, NEW w \in Workers, NEW label \in Labels, NEW j \in Jobs, Goto(w, label, j),
         label \notin {"idle", "ensure", "insert"} => j.id \in Purchases,
         label \in {"insert", "topup"} => j.qty \in Nat, DataTyped'
  PROVE  /\ Typed' /\ pc'[w] = label /\ job'[w] = j
         /\ \A v \in Workers \ {w} : pc'[v] = pc[v] /\ job'[v] = job[v]
<1>1. /\ pc' \in [Workers -> Labels] /\ job' \in [Workers -> Jobs]
      /\ pc'[w] = label /\ job'[w] = j
      /\ \A v \in Workers \ {w} : pc'[v] = pc[v] /\ job'[v] = job[v]
  BY DEF Goto, Typed, TypeOK
<1>2. \A v \in Workers : Named(v)'
  BY <1>1 DEF Named, Typed
<1>3. \A v \in Workers : job'[v].alloc \subseteq Purchases \X Shipments /\ job'[v].dead \subseteq Purchases \X Shipments
  BY <1>1 DEF Jobs
<1>4. TypeOK'
  BY <1>1, <1>3 DEF DataTyped, TypeOK
<1> QED
  BY <1>1, <1>2, <1>4 DEF Typed

\* The types of the tables hold while no table changes.
LEMMA DataKeeps == Typed => DataTyped /\ (UNCHANGED data => DataTyped')
BY DEF Typed, TypeOK, DataTyped, data

\* A worker without a request has a typed job.
LEMMA NoJobTyped == NoJob \in Jobs /\ "idle" \in Labels
BY DEF NoJob, Jobs, Ops, Labels

\* The job and the label of a worker have their types.
LEMMA JobTyped == Typed => \A w \in Workers : job[w] \in Jobs /\ pc[w] \in Labels
BY DEF Typed, TypeOK

\* What requests may ask for
LEMMA QuantityNat ==
  ASSUME NEW q \in 0..(Max(SalesQuantities) + 1) \union {Keep}
  PROVE  q \in Nat \union {Keep}
<1>1. SalesQuantities \subseteq Int
  BY PurchaseAssumption
<1>2. Max(SalesQuantities) \in SalesQuantities
  BY <1>1, PurchaseAssumption, MaxOfFinite
<1> QED
  BY <1>1, <1>2

\* What the sales contract has left
LEMMA RoomNat ==
  ASSUME NEW a \in Nat, NEW b \in Nat
  PROVE  LET room == Max({0, a - b}) IN room \in Nat /\ (room > 0 => b + room = a) /\ room <= a
<1> DEFINE S == {0, a - b}
<1>1. S \subseteq Int /\ S # {} /\ IsFiniteSet(S)
  <2>1. S = {0} \union {a - b} /\ IsFiniteSet({0})
    BY FS_Singleton
  <2>2. IsFiniteSet({0} \union {a - b})
    BY <2>1, FS_AddElement
  <2> QED
    BY <2>1, <2>2
<1>2. Max(S) \in S /\ \A x \in S : x <= Max(S)
  <2> HIDE DEF S
  <2> QED
    BY <1>1, MaxOfFinite
<1> QED
  BY <1>2

\* A request that begins
LEMMA RequestTyped ==
  ASSUME Typed, NEW w \in Workers, Request(w)
  PROVE  Typed'
<1>1. ASSUME NEW s \in Shipments, NEW status \in Delivery \union {Keep}, SaveShipment(w, s, status)
      PROVE  Typed'
  <2> DEFINE j == [NoJob EXCEPT !.op = "shipment", !.ships = {s}, !.qty = 1, !.after = "idle"]
  <2>1. j \in Jobs /\ "ensure" \in Labels
    BY DEF NoJob, Jobs, Ops, Labels
  <2>2. DataTyped'
    BY <1>1, PurchaseAssumption DEF SaveShipment, Typed, TypeOK, DataTyped
  <2> HIDE DEF j
  <2>3. Goto(w, "ensure", j)
    BY <1>1 DEF SaveShipment, Start, j
  <2> QED
    BY <2>1, <2>2, <2>3, Goes
<1>2. CASE StuffingComplete(w)
  <2> DEFINE j == [NoJob EXCEPT !.op = "stuffing", !.after = "idle"]
  <2>1. j \in Jobs /\ "ensure" \in Labels
    BY DEF NoJob, Jobs, Ops, Labels
  <2> HIDE DEF j
  <2>2. Goto(w, "ensure", j) /\ UNCHANGED data
    BY <1>2 DEF StuffingComplete, Start, j
  <2> QED
    BY <2>1, <2>2, DataKeeps, Goes
<1>3. ASSUME NEW S \in {{}} \union {{s} : s \in Shipments}, NEW h \in Headers, Create(w, S, h)
      PROVE  Typed'
  <2> DEFINE j == [NoJob EXCEPT !.op = "create", !.ships = S, !.header = h, !.after = "header"]
  <2>1. j \in Jobs /\ "ensure" \in Labels
    <3>1. S \in SUBSET Shipments /\ h \in BOOLEAN \X BOOLEAN
      BY PurchaseAssumption
    <3> QED
      BY <3>1 DEF NoJob, Jobs, Ops, Labels
  <2> HIDE DEF j
  <2>2. Goto(w, "ensure", j) /\ UNCHANGED data
    BY <1>3 DEF Create, Start, j
  <2> QED
    BY <2>1, <2>2, DataKeeps, Goes
<1>4. ASSUME NEW p \in Purchases, NEW q \in 0..(Max(SalesQuantities) + 1) \union {Keep},
             NEW status \in Patched \union {Keep}, Update(w, p, q, status)
      PROVE  Typed'
  <2> DEFINE j == [NoJob EXCEPT !.op = "update", !.id = p, !.qty = q, !.next = status,
                                !.old = purchase[p].status, !.after = "status"]
  <2>1. j \in Jobs /\ "save" \in Labels /\ j.id = p
    <3>1. q \in Nat \union {Keep} /\ status \in Statuses \union {Keep}
      BY PurchaseAssumption, QuantityNat
    <3>2. purchase[p].status \in Statuses
      BY <1>4 DEF Update, Exists, Typed, TypeOK
    <3> QED
      BY <3>1, <3>2 DEF NoJob, Jobs, Ops, Labels
  <2> HIDE DEF j
  <2>2. Goto(w, "save", j) /\ UNCHANGED data
    BY <1>4 DEF Update, Start, j
  <2> QED
    BY <2>1, <2>2, DataKeeps, Goes
<1>5. ASSUME NEW p \in Purchases, NEW status \in Asked, UpdateStatus(w, p, status)
      PROVE  Typed'
  <2> DEFINE j == [NoJob EXCEPT !.op = "status", !.id = p, !.next = status, !.old = purchase[p].status]
  <2>1. j \in Jobs /\ "begin" \in Labels /\ j.id = p
    <3>1. purchase[p].status \in Statuses /\ status \in Statuses
      BY <1>5, PurchaseAssumption DEF UpdateStatus, Exists, Typed, TypeOK
    <3> QED
      BY <3>1 DEF NoJob, Jobs, Ops, Labels
  <2> HIDE DEF j
  <2>2. Goto(w, "begin", j) /\ UNCHANGED data
    BY <1>5 DEF UpdateStatus, Start, j
  <2> QED
    BY <2>1, <2>2, DataKeeps, Goes
<1>6. ASSUME NEW p \in Purchases, Remove(w, p)
      PROVE  Typed'
  <2> DEFINE j == [NoJob EXCEPT !.op = "remove", !.id = p, !.next = "Cancelled",
                                !.old = purchase[p].status, !.after = "idle"]
  <2>1. j \in Jobs /\ "begin" \in Labels /\ j.id = p
    <3>1. purchase[p].status \in Statuses /\ "Cancelled" \in Statuses
      BY <1>6 DEF Remove, Statuses
    <3> QED
      BY <3>1 DEF NoJob, Jobs, Ops, Labels
  <2> HIDE DEF j
  <2>2. Goto(w, "begin", j) /\ UNCHANGED data
    BY <1>6 DEF Remove, Start, j
  <2> QED
    BY <2>1, <2>2, DataKeeps, Goes
<1>7. CASE ClearDrafts(w)
  <2>1. DataTyped' /\ UNCHANGED <<pc, job>>
    BY <1>7 DEF ClearDrafts, Typed, TypeOK, DataTyped
  <2> QED
    BY <2>1 DEF Typed, TypeOK, DataTyped, Named
<1> QED
  BY <1>1, <1>2, <1>3, <1>4, <1>5, <1>6, <1>7 DEF Request

\* ensureExists reads, tops up an empty draft or inserts one.
LEMMA EnsureTyped ==
  ASSUME Typed, NEW w \in Workers, Ensure(w)
  PROVE  Typed'
<1> DEFINE remaining == Max({0, salesQty - Total(Active)})
           empty == {p \in Active : purchase[p].status = "Draft" /\ purchase[p].qty = 0}
<1>1. Total(Active) \in Nat /\ salesQty \in Nat /\ job[w] \in Jobs
  BY TotalNat, JobTyped DEF Typed, TypeOK, Active
<1>2. remaining \in Nat
  BY <1>1, RoomNat
<1>3. UNCHANGED data
  BY DEF Ensure
<1>4. CASE Active = {}
  <2> DEFINE j == [job[w] EXCEPT !.qty = IF Requested(w) THEN job[w].qty ELSE remaining]
  <2>1. j \in Jobs /\ j.qty \in Nat /\ "insert" \in Labels
    BY <1>1, <1>2 DEF Jobs, Labels, Requested
  <2>2. Goto(w, "insert", j)
    BY <1>4 DEF Ensure
  <2> HIDE DEF j
  <2> QED
    BY <1>3, <2>1, <2>2, DataKeeps, Goes
<1>5. CASE Active # {} /\ empty # {}
  <2> DEFINE j == [job[w] EXCEPT !.id = Min(empty), !.qty = IF remaining > 0 THEN remaining ELSE Keep]
             label == IF remaining > 0 THEN "topup" ELSE "mark"
  <2>1. Min(empty) \in Purchases
    <3>1. empty \subseteq Active
      OBVIOUS
    <3> HIDE DEF empty
    <3>2. empty \subseteq Int /\ IsFiniteSet(empty)
      BY <3>1, ActiveFinite, FS_Subset
    <3>3. Min(empty) \in empty
      BY <1>5, <3>2, MinOfFinite
    <3> QED
      BY <3>1, <3>3, ActiveFinite
  <2>2. /\ j \in Jobs /\ j.id \in Purchases /\ label \in Labels \ {"insert"}
        /\ label = "topup" => j.qty \in Nat
    <3> HIDE DEF remaining, empty
    <3> QED
      BY <1>1, <1>2, <2>1 DEF Jobs, Labels
  <2>3. Goto(w, label, j)
    BY <1>5 DEF Ensure
  <2> HIDE DEF j, label
  <2> QED
    BY <1>3, <2>2, <2>3, DataKeeps, Goes
<1>6. CASE Active # {} /\ empty = {}
  <2> DEFINE j == [job[w] EXCEPT !.id = Min(Active), !.qty = Keep]
  <2>1. Min(Active) \in Purchases
    <3>1. Min(Active) \in Active
      BY <1>6, ActiveFinite, MinOfFinite
    <3> QED
      BY <3>1, ActiveFinite
  <2>2. j \in Jobs /\ j.id \in Purchases /\ "mark" \in Labels
    BY <1>1, <2>1 DEF Jobs, Labels
  <2>3. Goto(w, "mark", j)
    BY <1>6 DEF Ensure
  <2> HIDE DEF j
  <2> QED
    BY <1>3, <2>2, <2>3, DataKeeps, Goes
<1> QED
  BY <1>4, <1>5, <1>6

\* A request that ends
LEMMA EndTyped ==
  ASSUME Typed, NEW w \in Workers, End(w), DataTyped'
  PROVE  /\ Typed' /\ pc'[w] = "idle" /\ job'[w] = NoJob
         /\ \A v \in Workers \ {w} : pc'[v] = pc[v] /\ job'[v] = job[v]
BY NoJobTyped, Goes DEF End

\* The quantity of a purchase contract that is there is replaced.
LEMMA SetQuantityTyped ==
  ASSUME Typed, NEW p, NEW q \in Nat, SetQuantity(p, q)
  PROVE  /\ purchase' \in [Purchases -> [status: Statuses, qty: Nat] \union {Absent}]
         /\ \A r \in Purchases : IF r = p /\ purchase[r] # Absent
                                  THEN purchase'[r] = [status |-> purchase[r].status, qty |-> q]
                                  ELSE purchase'[r] = purchase[r]
<1>1. purchase \in [Purchases -> [status: Statuses, qty: Nat] \union {Absent}]
  BY DEF Typed, TypeOK
<1>2. \A r \in Purchases : purchase[r] # Absent =>
        [purchase[r] EXCEPT !.qty = q] = [status |-> purchase[r].status, qty |-> q]
  BY <1>1
<1>3. purchase' = [r \in Purchases |-> IF r = p THEN IF purchase[r] = Absent THEN purchase[r]
                                                      ELSE [purchase[r] EXCEPT !.qty = q]
                                       ELSE purchase[r]]
  BY <1>1 DEF SetQuantity
<1>4. \A r \in Purchases : IF r = p /\ purchase[r] # Absent
                           THEN purchase'[r] = [status |-> purchase[r].status, qty |-> q]
                           ELSE purchase'[r] = purchase[r]
  BY <1>2, <1>3
<1>5. ASSUME NEW r \in Purchases
      PROVE  purchase'[r] \in [status: Statuses, qty: Nat] \union {Absent}
  <2>1. CASE purchase'[r] = purchase[r]
    BY <1>1, <2>1
  <2>2. CASE purchase[r] # Absent /\ purchase'[r] = [status |-> purchase[r].status, qty |-> q]
    BY <1>1, <2>2
  <2> QED
    BY <1>4, <2>1, <2>2
<1> QED
  BY <1>3, <1>4, <1>5

\* The status of the purchase contract a request works on is replaced.
LEMMA SetStatusTyped ==
  ASSUME Typed, NEW w \in Workers, SetStatus(w)
  PROVE  /\ purchase' \in [Purchases -> [status: Statuses, qty: Nat] \union {Absent}]
         /\ \A r \in Purchases :
              IF r = job[w].id /\ purchase[r] # Absent /\ job[w].next \notin {Keep, job[w].old}
              THEN purchase'[r] = [status |-> job[w].next, qty |-> purchase[r].qty]
              ELSE purchase'[r] = purchase[r]
<1> DEFINE j == job[w]
<1>1. /\ purchase \in [Purchases -> [status: Statuses, qty: Nat] \union {Absent}]
      /\ j.next \in Statuses \union {Keep}
  BY JobTyped DEF Typed, TypeOK, Jobs
<1>2. \A r \in Purchases : purchase[r] # Absent =>
        [purchase[r] EXCEPT !.status = j.next] = [status |-> j.next, qty |-> purchase[r].qty]
  BY <1>1
<1>3. purchase' = [r \in Purchases |->
                     IF r = j.id THEN IF purchase[r] = Absent \/ j.next \in {Keep, j.old} THEN purchase[r]
                                      ELSE [purchase[r] EXCEPT !.status = j.next]
                     ELSE purchase[r]]
  BY <1>1 DEF SetStatus
<1>4. \A r \in Purchases :
        IF r = j.id /\ purchase[r] # Absent /\ j.next \notin {Keep, j.old}
        THEN purchase'[r] = [status |-> j.next, qty |-> purchase[r].qty]
        ELSE purchase'[r] = purchase[r]
  BY <1>2, <1>3
<1>5. ASSUME NEW r \in Purchases
      PROVE  purchase'[r] \in [status: Statuses, qty: Nat] \union {Absent}
  <2>1. CASE purchase'[r] = purchase[r]
    BY <1>1, <2>1
  <2>2. CASE purchase[r] # Absent /\ j.next # Keep /\ purchase'[r] = [status |-> j.next, qty |-> purchase[r].qty]
    BY <1>1, <2>2
  <2> QED
    BY <1>4, <2>1, <2>2
<1> QED
  BY <1>3, <1>4, <1>5

\* Steps of ensureExists and create that write
LEMMA CreateTyped ==
  ASSUME Typed, NEW w \in Workers,
         \/ TopUp(w) \/ InsertPurchase(w) \/ LinkShipments(w) \/ MarkExecuted(w)
         \/ WriteHeader(w) \/ WriteDate(w)
  PROVE  Typed'
<1>1. job[w] \in Jobs /\ Named(w) /\ DataTyped
  BY JobTyped, DataKeeps DEF Typed
<1>2. CASE TopUp(w)
  <2> DEFINE j == [job[w] EXCEPT !.qty = Keep]
  <2>1. j \in Jobs /\ j.id \in Purchases /\ "mark" \in Labels
    BY <1>1, <1>2 DEF TopUp, Jobs, Labels, Named
  <2>2. purchase' \in [Purchases -> [status: Statuses, qty: Nat] \union {Absent}]
    BY <1>1, <1>2, SetQuantityTyped DEF TopUp, Named
  <2>3. DataTyped' /\ Goto(w, "mark", j)
    BY <1>1, <1>2, <2>2 DEF TopUp, DataTyped
  <2> HIDE DEF j
  <2> QED
    BY <2>1, <2>3, Goes
<1>3. CASE InsertPurchase(w)
  <2> DEFINE j == IF job[w].ships # {} THEN [job[w] EXCEPT !.id = lastId + 1, !.qty = Keep]
                  ELSE [job[w] EXCEPT !.id = lastId + 1, !.qty = Keep, !.after = "mark"]
             label == IF job[w].ships # {} THEN "link" ELSE "read"
  <2>1. lastId + 1 \in Purchases /\ lastId + 1 \in 0..MaxPurchases /\ job[w].qty \in Nat
    BY <1>1, <1>3, PurchaseAssumption DEF InsertPurchase, DataTyped, Purchases, Named
  <2>2. j \in Jobs /\ j.id \in Purchases /\ label \in Labels /\ label \notin {"insert", "topup"}
    BY <1>1, <2>1 DEF Jobs, Labels
  <2>3. purchase' \in [Purchases -> [status: Statuses, qty: Nat] \union {Absent}]
    <3>1. [status |-> "Draft", qty |-> job[w].qty] \in [status: Statuses, qty: Nat]
      BY <2>1 DEF Statuses
    <3> QED
      BY <1>1, <1>3, <2>1, <3>1 DEF InsertPurchase, DataTyped
  <2>4. DataTyped' /\ Goto(w, label, j)
    BY <1>1, <1>3, <2>1, <2>3 DEF InsertPurchase, DataTyped
  <2> HIDE DEF j, label
  <2> QED
    BY <2>2, <2>4, Goes
<1>4. CASE LinkShipments(w)
  <2>1. job[w].id \in Purchases /\ job[w].ships \subseteq Shipments
    BY <1>1, <1>4 DEF LinkShipments, Named, Jobs
  <2>2. DataTyped' /\ Goto(w, "mark", job[w]) /\ "mark" \in Labels
    BY <1>1, <1>4, <2>1 DEF LinkShipments, DataTyped, Labels
  <2> QED
    BY <1>1, <2>1, <2>2, Goes
<1>5. CASE MarkExecuted(w)
  <2>1. DataTyped'
    BY <1>1, <1>5 DEF MarkExecuted, DataTyped, ShipmentStatuses
  <2>2. CASE job[w].op = "create"
    <3> DEFINE j == [job[w] EXCEPT !.ships = {}]
    <3>1. j \in Jobs /\ j.id \in Purchases /\ "header" \in Labels
      BY <1>1, <1>5 DEF MarkExecuted, Named, Jobs, Labels
    <3>2. Goto(w, "header", j)
      BY <1>5, <2>2 DEF MarkExecuted
    <3> HIDE DEF j
    <3> QED
      BY <2>1, <3>1, <3>2, Goes
  <2>3. CASE job[w].op # "create"
    BY <1>5, <2>1, <2>3, EndTyped DEF MarkExecuted
  <2> QED
    BY <2>2, <2>3
<1>6. CASE WriteHeader(w)
  <2> DEFINE j == [job[w] EXCEPT !.before = "dated", !.after = "queue"]
  <2>1. j \in Jobs /\ j.id \in Purchases /\ "read" \in Labels
    BY <1>1, <1>6 DEF WriteHeader, Named, Jobs, Labels
  <2>2. DataTyped' /\ Goto(w, "read", j)
    BY <1>1, <1>6 DEF WriteHeader, DataTyped
  <2> HIDE DEF j
  <2> QED
    BY <2>1, <2>2, Goes
<1>7. CASE WriteDate(w)
  <2> DEFINE j == [job[w] EXCEPT !.header = <<FALSE, FALSE>>]
  <2>1. j \in Jobs /\ j.id \in Purchases /\ "commit" \in Labels
    BY <1>1, <1>7 DEF WriteDate, Named, Jobs, Labels
  <2>2. UNCHANGED data /\ Goto(w, "commit", j)
    BY <1>7 DEF WriteDate
  <2> HIDE DEF j
  <2> QED
    BY <2>1, <2>2, DataKeeps, Goes
<1> QED
  BY <1>2, <1>3, <1>4, <1>5, <1>6, <1>7

\* The set of links an allocation plans
LEMMA AllocationTyped ==
  ASSUME NEW P \in SUBSET Purchases
  PROVE  Allocation(P) \in SUBSET (Purchases \X Shipments)
BY DEF Allocation

\* Steps of updates, status changes and reallocations
LEMMA UpdateTyped ==
  ASSUME Typed, NEW w \in Workers,
         \/ SaveQuantity(w) \/ WriteStatus(w) \/ Begin(w)
         \/ ReadAllocation(w) \/ DestroyLinks(w) \/ Commit(w)
  PROVE  Typed'
<1>1. job[w] \in Jobs /\ Named(w) /\ DataTyped
  BY JobTyped, DataKeeps DEF Typed
<1>2. CASE SaveQuantity(w)
  <2> DEFINE j == [job[w] EXCEPT !.qty = Keep]
  <2>1. j \in Jobs /\ j.id \in Purchases /\ "read" \in Labels
    BY <1>1, <1>2 DEF SaveQuantity, Jobs, Labels, Named
  <2>2. purchase' \in [Purchases -> [status: Statuses, qty: Nat] \union {Absent}]
    <3>1. CASE Requested(w)
      <4>1. job[w].qty \in Nat
        BY <1>1, <3>1 DEF Requested, Jobs
      <4> QED
        BY <1>2, <3>1, <4>1, SetQuantityTyped DEF SaveQuantity
    <3>2. CASE ~Requested(w)
      BY <1>1, <1>2, <3>2 DEF SaveQuantity, DataTyped
    <3> QED
      BY <3>1, <3>2
  <2>3. DataTyped' /\ Goto(w, "read", j)
    BY <1>1, <1>2, <2>2 DEF SaveQuantity, DataTyped
  <2> HIDE DEF j
  <2> QED
    BY <2>1, <2>3, Goes
<1>3. CASE WriteStatus(w)
  <2> DEFINE j == [NoJob EXCEPT !.id = job[w].id]
  <2>1. j \in Jobs /\ j.id \in Purchases /\ "queue" \in Labels
    BY <1>1, <1>3 DEF WriteStatus, NoJob, Ops, Jobs, Labels, Named
  <2>2. purchase' \in [Purchases -> [status: Statuses, qty: Nat] \union {Absent}]
    BY <1>3, SetStatusTyped DEF WriteStatus
  <2>3. DataTyped' /\ Goto(w, "queue", j)
    BY <1>1, <1>3, <2>2 DEF WriteStatus, DataTyped
  <2> HIDE DEF j
  <2> QED
    BY <2>1, <2>3, Goes
<1>4. CASE Begin(w)
  <2> DEFINE label == IF job[w].next = "Cancelled" \/ Reactivates(w) THEN "read" ELSE "commit"
  <2>1. job[w].id \in Purchases /\ label \in Labels /\ label \notin {"insert", "topup"}
    BY <1>1, <1>4 DEF Begin, Labels, Named
  <2>2. DataTyped' /\ Goto(w, label, job[w])
    BY <1>1, <1>4 DEF Begin, DataTyped
  <2> HIDE DEF label
  <2> QED
    BY <1>1, <2>1, <2>2, Goes
<1>5. CASE ReadAllocation(w)
  <2> DEFINE j == [job[w] EXCEPT !.alloc = Allocation(ActiveFor(w))]
  <2>1. Allocation(ActiveFor(w)) \in SUBSET (Purchases \X Shipments)
    BY AllocationTyped DEF ActiveFor
  <2>2. j \in Jobs /\ j.id \in Purchases /\ "destroy" \in Labels
    BY <1>1, <1>5, <2>1 DEF ReadAllocation, Named, Jobs, Labels
  <2>3. UNCHANGED data /\ Goto(w, "destroy", j)
    BY <1>5 DEF ReadAllocation
  <2> HIDE DEF j
  <2> QED
    BY <2>2, <2>3, DataKeeps, Goes
<1>6. CASE DestroyLinks(w)
  <2> DEFINE j == [job[w] EXCEPT !.dead = links]
             label == job[w].before
  <2>1. j \in Jobs /\ j.id \in Purchases /\ label \in Labels /\ label \notin {"insert", "topup"}
    BY <1>1, <1>6 DEF DestroyLinks, Named, Jobs, Labels, DataTyped
  <2>2. UNCHANGED data /\ Goto(w, label, j)
    BY <1>6 DEF DestroyLinks
  <2> HIDE DEF j, label
  <2> QED
    BY <2>1, <2>2, DataKeeps, Goes
<1>7. CASE Commit(w)
  <2>1. DataTyped'
    <3>1. purchase' \in [Purchases -> [status: Statuses, qty: Nat] \union {Absent}]
      <4>1. CASE SetStatus(w)
        BY <4>1, SetStatusTyped
      <4>2. CASE UNCHANGED purchase
        BY <1>1, <4>2 DEF DataTyped
      <4> QED
        BY <1>7, <4>1, <4>2 DEF Commit
    <3>2. links' \subseteq Purchases \X Shipments
      BY <1>1, <1>7 DEF Commit, DataTyped, Jobs
    <3>3. holder' \in [Purchases -> Workers \union {None}]
      BY <1>1, <1>7 DEF Commit, DataTyped, Unlock
    <3> QED
      BY <1>1, <1>7, <3>1, <3>2, <3>3 DEF Commit, DataTyped
  <2>2. CASE job[w].after = "idle"
    BY <1>7, <2>1, <2>2, EndTyped DEF Commit
  <2>3. CASE job[w].after = "queue"
    <3> DEFINE j == [NoJob EXCEPT !.id = job[w].id]
    <3>1. j \in Jobs /\ j.id \in Purchases /\ "queue" \in Labels
      BY <1>1, <1>7 DEF Commit, NoJob, Ops, Jobs, Labels, Named
    <3>2. Goto(w, "queue", j)
      BY <1>7, <2>3 DEF Commit
    <3> HIDE DEF j
    <3> QED
      BY <2>1, <3>1, <3>2, Goes
  <2>4. CASE job[w].after \notin {"idle", "queue"}
    <3> DEFINE j == [job[w] EXCEPT !.alloc = {}, !.dead = {}]
               label == job[w].after
    <3>1. j \in Jobs /\ j.id \in Purchases /\ label \in Labels /\ label \notin {"insert", "topup"}
      BY <1>1, <1>7 DEF Commit, Jobs, Labels, Named
    <3>2. Goto(w, label, j)
      BY <1>7, <2>4 DEF Commit
    <3> HIDE DEF j, label
    <3> QED
      BY <2>1, <3>1, <3>2, Goes
  <2> QED
    BY <2>2, <2>3, <2>4
<1> QED
  BY <1>2, <1>3, <1>4, <1>5, <1>6, <1>7

\* Steps of syncTransportQueue, and requests that end early
LEMMA OtherTyped ==
  ASSUME Typed, NEW w \in Workers,
         LookUpQueue(w) \/ Enqueue(w) \/ OutOfIds(w) \/ Throw(w) \/ Crash(w) \/ OtherServices(w)
  PROVE  Typed'
<1>1. job[w] \in Jobs /\ Named(w) /\ DataTyped
  BY JobTyped, DataKeeps DEF Typed
<1>2. CASE LookUpQueue(w)
  <2>1. job[w].id \in Purchases /\ queue \in Seq(Purchases)
    BY <1>1, <1>2 DEF LookUpQueue, Named, DataTyped
  <2>2. CASE End(w) /\ UNCHANGED queue
    <3>1. DataTyped'
      BY <1>1, <1>2, <2>2 DEF LookUpQueue, DataTyped
    <3> QED
      BY <2>2, <3>1, EndTyped
  <2>3. CASE Goto(w, "enqueue", job[w]) /\ UNCHANGED queue
    <3>1. DataTyped' /\ "enqueue" \in Labels
      BY <1>1, <1>2, <2>3 DEF LookUpQueue, DataTyped, Labels
    <3> QED
      BY <1>1, <2>1, <2>3, <3>1, Goes
  <2>4. CASE End(w) /\ \E i \in Found(job[w].id) : queue' = [queue EXCEPT ![i] = job[w].id]
    <3>1. queue' \in Seq(Purchases)
      BY <2>1, <2>4 DEF Found
    <3>2. DataTyped'
      BY <1>1, <1>2, <3>1 DEF LookUpQueue, DataTyped
    <3> QED
      BY <2>4, <3>2, EndTyped
  <2> QED
    BY <1>2, <2>2, <2>3, <2>4 DEF LookUpQueue
<1>3. CASE Enqueue(w)
  <2>1. queue' \in Seq(Purchases)
    BY <1>1, <1>3 DEF Enqueue, Named, DataTyped
  <2>2. DataTyped' /\ End(w)
    BY <1>1, <1>3, <2>1 DEF Enqueue, DataTyped
  <2> QED
    BY <2>2, EndTyped
<1>4. CASE OutOfIds(w)
  BY <1>4, DataKeeps, EndTyped DEF OutOfIds
<1>5. CASE Throw(w) \/ Crash(w)
  <2>1. Fail(w)
    BY <1>5 DEF Throw, Crash
  <2>2. DataTyped' /\ End(w)
    BY <1>1, <2>1 DEF Fail, Unlock, DataTyped
  <2> QED
    BY <2>2, EndTyped
<1>6. CASE OtherServices(w)
  <2>1. DataTyped' /\ UNCHANGED <<pc, job>>
    BY <1>1, <1>6, PurchaseAssumption DEF OtherServices, SetSalesQuantity, SetShipmentStatus, DataTyped
  <2> QED
    BY <2>1 DEF Typed, TypeOK, DataTyped, Named
<1> QED
  BY <1>2, <1>3, <1>4, <1>5, <1>6

\* There are no purchase contracts and no requests to begin with.
LEMMA InitTyped == Init => Typed
<1> SUFFICES ASSUME Init
             PROVE  Typed
  OBVIOUS
<1>1. job \in [Workers -> Jobs] /\ pc \in [Workers -> Labels]
  BY NoJobTyped DEF Init
<1>2. \A w \in Workers : pc[w] = "idle" /\ job[w] = NoJob
  BY DEF Init
<1>3. \A w \in Workers : job[w].alloc \subseteq Purchases \X Shipments /\ job[w].dead \subseteq Purchases \X Shipments
  BY <1>2 DEF NoJob
<1>4. \A w \in Workers : Named(w)
  BY <1>2 DEF Named
<1>5. salesQty \in Nat /\ lastId \in 0..MaxPurchases
  BY PurchaseAssumption DEF Init
<1>6. purchase \in [Purchases -> [status: Statuses, qty: Nat] \union {Absent}]
  BY DEF Init
<1>7. links \subseteq Purchases \X Shipments /\ queue \in Seq(Purchases)
  BY DEF Init
<1>8. shipment \in [Shipments -> ShipmentStatuses]
  BY DEF Init, ShipmentStatuses
<1>9. holder \in [Purchases -> Workers \union {None}]
  BY DEF Init
<1>10. TypeOK
  BY <1>1, <1>3, <1>5, <1>6, <1>7, <1>8, <1>9 DEF TypeOK
<1> QED
  BY <1>1, <1>4, <1>10 DEF Typed

\* Types are kept, however the requests of any number of workers interleave.
LEMMA NextTyped == Typed /\ [Next]_vars => Typed'
<1> SUFFICES ASSUME Typed, [Next]_vars
             PROVE  Typed'
  OBVIOUS
<1>1. CASE UNCHANGED vars
  BY <1>1 DEF vars, Typed, TypeOK, Named
<1>2. ASSUME NEW w \in Workers, OtherServices(w) \/ Request(w) \/ Proceed(w) \/ Crash(w)
      PROVE  Typed'
  <2>1. CASE Proceed(w)
    BY <2>1, EnsureTyped, CreateTyped, UpdateTyped, OtherTyped DEF Proceed
  <2> QED
    BY <1>2, <2>1, RequestTyped, OtherTyped
<1> QED
  BY <1>1, <1>2 DEF Next

\* Every variable has its type in every reachable state.
THEOREM Types == Spec => []TypeOK
<1>1. Typed => TypeOK
  BY DEF Typed
<1> QED
  BY <1>1, InitTyped, NextTyped, PTL DEF Spec

-----------------------------------------------------------------------------
(* No single purchase contract exceeds the sales contract *)

\* A step that enters no greater quantity keeps what everyone asks for within the sales contract.
LEMMA GotoAsks ==
  ASSUME Bounded, NEW w \in Workers, NEW label, NEW j, Goto(w, label, j), salesQty' = salesQty,
         label \in {"insert", "topup"} => j.qty \in 0..Largest,
         label = "save" /\ j.qty # Keep => j.qty \in 0..Largest
  PROVE  \A v \in Workers : Asks(v)'
<1>1. /\ pc'[w] = label /\ job'[w] = j
      /\ \A v \in Workers \ {w} : pc'[v] = pc[v] /\ job'[v] = job[v]
  BY DEF Goto, Bounded, Typed, TypeOK
<1>2. Asks(w)'
  BY <1>1 DEF Asks, Requested
<1>3. ASSUME NEW v \in Workers \ {w}
      PROVE  Asks(v)'
  BY <1>1, <1>3 DEF Asks, Requested, Bounded
<1> QED
  BY <1>2, <1>3

\* A step that raises no quantity above the sales contract keeps all within it.
LEMMA QuantitiesKept ==
  ASSUME EachWithinSales, salesQty' = salesQty,
         \A p \in Purchases : purchase'[p].qty = purchase[p].qty \/ purchase'[p].qty <= Largest
  PROVE  EachWithinSales'
BY DEF EachWithinSales

\* What the sales contract has at most
LEMMA LargestBounds == Largest \in Nat /\ \A q \in SalesQuantities : q \in Nat /\ q <= Largest
<1>1. SalesQuantities \subseteq Int
  BY PurchaseAssumption
<1>2. Max(SalesQuantities) \in SalesQuantities /\ \A q \in SalesQuantities : q <= Max(SalesQuantities)
  BY <1>1, PurchaseAssumption, MaxOfFinite
<1> QED
  BY <1>2, PurchaseAssumption DEF Largest

\* A quantity that fits is no more than the sales contract has ...
LEMMA FitsBounds ==
  ASSUME Typed, NEW p, NEW q \in Nat, Fits(p, q)
  PROVE  q \in 0..salesQty
<1>1. Total(Active \ {p}) \in Nat
  <2>1. Active \ {p} \in SUBSET Purchases
    BY DEF Active
  <2> QED
    BY <2>1, TotalNat DEF Typed
<1> QED
  BY <1>1 DEF Fits, Typed, TypeOK

\* ... and so no more than it has at most.
LEMMA FitsWithin ==
  ASSUME Bounded, NEW p, NEW q \in Nat, Fits(p, q)
  PROVE  q \in 0..Largest
<1>1. q \in 0..salesQty
  BY FitsBounds DEF Bounded
<1>2. salesQty \in Nat /\ salesQty <= Largest /\ Largest \in Nat
  BY LargestBounds DEF Bounded
<1> QED
  BY <1>1, <1>2

\* A request that begins
LEMMA RequestBounded ==
  ASSUME Bounded, NEW w \in Workers, Request(w)
  PROVE  EachWithinSales' /\ \A v \in Workers : Asks(v)'
<1>1. ASSUME NEW s \in Shipments, NEW status \in Delivery \union {Keep}, SaveShipment(w, s, status)
      PROVE  EachWithinSales' /\ \A v \in Workers : Asks(v)'
  <2> DEFINE j == [NoJob EXCEPT !.op = "shipment", !.ships = {s}, !.qty = 1, !.after = "idle"]
  <2>1. Goto(w, "ensure", j) /\ UNCHANGED <<salesQty, purchase>>
    BY <1>1 DEF SaveShipment, Start
  <2> HIDE DEF j
  <2> QED
    BY <2>1, GotoAsks, QuantitiesKept DEF Bounded
<1>2. CASE StuffingComplete(w)
  <2> DEFINE j == [NoJob EXCEPT !.op = "stuffing", !.after = "idle"]
  <2>1. Goto(w, "ensure", j) /\ UNCHANGED <<salesQty, purchase>>
    BY <1>2 DEF StuffingComplete, Start, data
  <2> HIDE DEF j
  <2> QED
    BY <2>1, GotoAsks, QuantitiesKept DEF Bounded
<1>3. ASSUME NEW S, NEW h \in Headers, Create(w, S, h)
      PROVE  EachWithinSales' /\ \A v \in Workers : Asks(v)'
  <2> DEFINE j == [NoJob EXCEPT !.op = "create", !.ships = S, !.header = h, !.after = "header"]
  <2>1. Goto(w, "ensure", j) /\ UNCHANGED <<salesQty, purchase>>
    BY <1>3 DEF Create, Start, data
  <2> HIDE DEF j
  <2> QED
    BY <2>1, GotoAsks, QuantitiesKept DEF Bounded
<1>4. ASSUME NEW p \in Purchases, NEW q \in 0..(Max(SalesQuantities) + 1) \union {Keep},
             NEW status, Update(w, p, q, status)
      PROVE  EachWithinSales' /\ \A v \in Workers : Asks(v)'
  <2> DEFINE j == [NoJob EXCEPT !.op = "update", !.id = p, !.qty = q, !.next = status,
                                !.old = purchase[p].status, !.after = "status"]
  <2>1. Goto(w, "save", j) /\ UNCHANGED <<salesQty, purchase>> /\ j.qty = q
    BY <1>4 DEF Update, Start, data, NoJob
  <2>2. q # Keep => q \in 0..Largest
    BY <1>4, QuantityNat, FitsWithin DEF Update, Bounded
  <2> HIDE DEF j
  <2> QED
    BY <2>1, <2>2, GotoAsks, QuantitiesKept DEF Bounded
<1>5. ASSUME NEW p \in Purchases, NEW status, UpdateStatus(w, p, status)
      PROVE  EachWithinSales' /\ \A v \in Workers : Asks(v)'
  <2> DEFINE j == [NoJob EXCEPT !.op = "status", !.id = p, !.next = status, !.old = purchase[p].status]
  <2>1. Goto(w, "begin", j) /\ UNCHANGED <<salesQty, purchase>>
    BY <1>5 DEF UpdateStatus, Start, data
  <2> HIDE DEF j
  <2> QED
    BY <2>1, GotoAsks, QuantitiesKept DEF Bounded
<1>6. ASSUME NEW p \in Purchases, Remove(w, p)
      PROVE  EachWithinSales' /\ \A v \in Workers : Asks(v)'
  <2> DEFINE j == [NoJob EXCEPT !.op = "remove", !.id = p, !.next = "Cancelled",
                                !.old = purchase[p].status, !.after = "idle"]
  <2>1. Goto(w, "begin", j) /\ UNCHANGED <<salesQty, purchase>>
    BY <1>6 DEF Remove, Start, data
  <2> HIDE DEF j
  <2> QED
    BY <2>1, GotoAsks, QuantitiesKept DEF Bounded
<1>7. CASE ClearDrafts(w)
  <2>1. UNCHANGED <<salesQty, pc, job>>
    BY <1>7 DEF ClearDrafts
  <2>2. \A p \in Purchases : purchase'[p] = purchase[p] \/ purchase'[p] = Absent
    BY <1>7 DEF ClearDrafts
  <2>3. \A p \in Purchases : purchase'[p].qty = purchase[p].qty \/ purchase'[p].qty <= Largest
    BY <2>2, LargestBounds DEF Absent, Bounded, Typed, TypeOK
  <2>4. \A v \in Workers : Asks(v)'
    BY <2>1 DEF Bounded, Asks, Requested
  <2> QED
    BY <2>1, <2>3, <2>4, QuantitiesKept DEF Bounded
<1> QED
  BY <1>1, <1>2, <1>3, <1>4, <1>5, <1>6, <1>7 DEF Request

\* What ensureExists gives a purchase contract is at most what the sales contract has left.
LEMMA EnsureBounded ==
  ASSUME Bounded, NEW w \in Workers, Ensure(w)
  PROVE  EachWithinSales' /\ \A v \in Workers : Asks(v)'
<1> DEFINE remaining == Max({0, salesQty - Total(Active)})
           empty == {p \in Active : purchase[p].status = "Draft" /\ purchase[p].qty = 0}
<1>1. Total(Active) \in Nat /\ salesQty \in Nat /\ job[w] \in Jobs
  BY TotalNat, JobTyped DEF Bounded, Typed, TypeOK, Active
<1>2. remaining \in Nat /\ remaining <= salesQty
  BY <1>1, RoomNat
<1>8. salesQty <= Largest /\ Largest \in Nat
  BY LargestBounds DEF Bounded
<1>3. UNCHANGED <<salesQty, purchase>>
  BY DEF Ensure, data
<1>4. EachWithinSales'
  BY <1>3, QuantitiesKept DEF Bounded
<1>5. CASE Active = {}
  <2> DEFINE j == [job[w] EXCEPT !.qty = IF Requested(w) THEN job[w].qty ELSE remaining]
  <2>1. Requested(w) => job[w].qty \in 0..Largest
    <3>1. Requested(w) => job[w].qty \in Nat
      BY <1>1 DEF Requested, Jobs
    <3> QED
      BY <3>1, FitsWithin DEF Ensure, Refused, Bounded
  <2>2. j.qty = IF Requested(w) THEN job[w].qty ELSE remaining
    BY <1>1 DEF Jobs
  <2>3. Goto(w, "insert", j)
    BY <1>5 DEF Ensure
  <2> HIDE DEF j, remaining
  <2> QED
    BY <1>1, <1>2, <1>8, <1>3, <1>4, <2>1, <2>2, <2>3, GotoAsks
<1>6. CASE Active # {} /\ empty # {}
  <2> DEFINE j == [job[w] EXCEPT !.id = Min(empty), !.qty = IF remaining > 0 THEN remaining ELSE Keep]
             label == IF remaining > 0 THEN "topup" ELSE "mark"
  <2>1. Goto(w, label, j)
    BY <1>6 DEF Ensure
  <2>2. /\ label \notin {"insert", "save"}
        /\ label = "topup" => j.qty \in 0..Largest
    <3> HIDE DEF remaining, empty
    <3> QED
      BY <1>1, <1>2, <1>8 DEF Jobs
  <2> HIDE DEF j, label
  <2> QED
    BY <1>3, <1>4, <2>1, <2>2, GotoAsks
<1>7. CASE Active # {} /\ empty = {}
  <2> DEFINE j == [job[w] EXCEPT !.id = Min(Active), !.qty = Keep]
  <2>1. Goto(w, "mark", j)
    BY <1>7 DEF Ensure
  <2> HIDE DEF j
  <2> QED
    BY <1>3, <1>4, <2>1, GotoAsks
<1> QED
  BY <1>5, <1>6, <1>7

\* Every other step of a request enters what was asked for, or nothing.
LEMMA ProceedBounded ==
  ASSUME Bounded, NEW w \in Workers, Proceed(w) \/ Crash(w), ~Ensure(w)
  PROVE  EachWithinSales' /\ \A v \in Workers : Asks(v)'
<1>1. salesQty' = salesQty
  BY DEF Proceed, Crash, Fail, TopUp, InsertPurchase, LinkShipments, MarkExecuted, WriteHeader, WriteDate,
         SaveQuantity, WriteStatus, Begin, ReadAllocation, DestroyLinks, Commit, LookUpQueue, Enqueue,
         OutOfIds, Throw, data
<1>2. PICK label \in Labels \ {"insert", "topup", "save"} : \E j : Goto(w, label, j)
  <2>1. job[w] \in Jobs
    BY JobTyped DEF Bounded
  <2>2. \A j : End(w) => Goto(w, "idle", NoJob)
    BY DEF End
  <2>3. CASE TopUp(w) \/ LinkShipments(w) \/ WriteHeader(w) \/ WriteDate(w) \/ SaveQuantity(w) \/ WriteStatus(w)
             \/ ReadAllocation(w)
    BY <2>3 DEF TopUp, LinkShipments, WriteHeader, WriteDate, SaveQuantity, WriteStatus, ReadAllocation, Labels
  <2>4. CASE InsertPurchase(w) \/ MarkExecuted(w)
    BY <2>4 DEF InsertPurchase, MarkExecuted, End, Labels
  <2>5. CASE Begin(w)
    BY <2>5 DEF Begin, Labels
  <2>6. CASE DestroyLinks(w)
    BY <2>1, <2>6 DEF DestroyLinks, Jobs, Labels
  <2>7. CASE Commit(w)
    <3>1. CASE job[w].after \in {"idle", "queue"}
      BY <2>7, <3>1 DEF Commit, End, Labels
    <3>2. CASE job[w].after \notin {"idle", "queue"}
      <4>1. Goto(w, job[w].after, [job[w] EXCEPT !.alloc = {}, !.dead = {}])
        BY <2>7, <3>2 DEF Commit
      <4>2. job[w].after \in Labels \ {"insert", "topup", "save"}
        BY <2>1 DEF Jobs, Labels
      <4> QED
        BY <4>1, <4>2
    <3> QED
      BY <3>1, <3>2
  <2>8. CASE LookUpQueue(w)
    BY <2>8 DEF LookUpQueue, End, Labels
  <2>9. CASE Enqueue(w) \/ OutOfIds(w) \/ Throw(w) \/ Crash(w)
    BY <2>9 DEF Enqueue, OutOfIds, Throw, Crash, Fail, End, Labels
  <2> QED
    BY <2>3, <2>4, <2>5, <2>6, <2>7, <2>8, <2>9 DEF Proceed
<1>3. \A v \in Workers : Asks(v)'
  BY <1>1, <1>2, GotoAsks
<1>4. EachWithinSales'
  <2>0. ASSUME NEW q \in 0..Largest, SetQuantity(job[w].id, q)
        PROVE  EachWithinSales'
    <3>1. Typed /\ q \in Nat /\ q <= Largest
      BY LargestBounds DEF Bounded
    <3>2. \A r \in Purchases : IF r = job[w].id /\ purchase[r] # Absent
                                 THEN purchase'[r] = [status |-> purchase[r].status, qty |-> q]
                                 ELSE purchase'[r] = purchase[r]
      BY <2>0, <3>1, SetQuantityTyped
    <3>3. ASSUME NEW r \in Purchases
          PROVE  purchase'[r].qty = purchase[r].qty \/ purchase'[r].qty <= Largest
      <4>1. purchase'[r] = [status |-> purchase[r].status, qty |-> q] \/ purchase'[r] = purchase[r]
        BY <3>2
      <4> QED
        BY <3>1, <4>1
    <3> QED
      BY <1>1, <3>3, QuantitiesKept DEF Bounded
  <2>1. CASE TopUp(w)
    <3>1. job[w].qty \in 0..Largest /\ SetQuantity(job[w].id, job[w].qty)
      BY <2>1 DEF TopUp, Bounded, Asks
    <3> QED
      BY <3>1, <2>0
  <2>2. CASE InsertPurchase(w)
    <3>1. job[w].qty \in 0..Largest
      BY <2>2 DEF InsertPurchase, Bounded, Asks
    <3>2. \A p \in Purchases : purchase'[p] = purchase[p] \/ purchase'[p].qty = job[w].qty
      BY <2>2 DEF InsertPurchase, Bounded, Typed, TypeOK
    <3> QED
      BY <1>1, <3>1, <3>2, LargestBounds, QuantitiesKept DEF Bounded
  <2>3. CASE SaveQuantity(w)
    <3>1. CASE Requested(w)
      <4>1. job[w].qty \in 0..Largest /\ SetQuantity(job[w].id, job[w].qty)
        BY <2>3, <3>1 DEF SaveQuantity, Bounded, Asks
      <4> QED
        BY <4>1, <2>0
    <3>2. CASE ~Requested(w)
      BY <1>1, <2>3, <3>2, QuantitiesKept DEF SaveQuantity, Bounded
    <3> QED
      BY <3>1, <3>2
  <2>4. CASE SetStatus(w)
    <3>1. \A r \in Purchases :
            IF r = job[w].id /\ purchase[r] # Absent /\ job[w].next \notin {Keep, job[w].old}
            THEN purchase'[r] = [status |-> job[w].next, qty |-> purchase[r].qty]
            ELSE purchase'[r] = purchase[r]
      BY <2>4, SetStatusTyped DEF Bounded
    <3>2. \A p \in Purchases : purchase'[p].qty = purchase[p].qty
      <4> SUFFICES ASSUME NEW r \in Purchases
                   PROVE  purchase'[r].qty = purchase[r].qty
        OBVIOUS
      <4>1. purchase'[r] = [status |-> job[w].next, qty |-> purchase[r].qty] \/ purchase'[r] = purchase[r]
        BY <3>1
      <4> QED
        BY <4>1
    <3> QED
      BY <1>1, <3>2, QuantitiesKept DEF Bounded
  <2>5. CASE UNCHANGED purchase
    BY <1>1, <2>5, QuantitiesKept DEF Bounded
  <2>6. TopUp(w) \/ InsertPurchase(w) \/ SaveQuantity(w) \/ SetStatus(w) \/ UNCHANGED purchase
    BY DEF Proceed, Crash, Fail, LinkShipments, MarkExecuted, WriteHeader, WriteDate,
           WriteStatus, Begin, ReadAllocation, DestroyLinks, Commit, LookUpQueue, Enqueue,
           OutOfIds, Throw, data
  <2> QED
    BY <2>1, <2>2, <2>3, <2>4, <2>5, <2>6
<1> QED
  BY <1>3, <1>4

\* Every step keeps each quantity within the most the sales contract has.
LEMMA NextBounded == Bounded /\ [Next]_vars => Bounded'
<1> SUFFICES ASSUME Bounded, [Next]_vars
             PROVE  Bounded'
  OBVIOUS
<1>1. Typed'
  BY NextTyped DEF Bounded
<1>2. CASE UNCHANGED vars
  <2>1. EachWithinSales' /\ \A v \in Workers : Asks(v)'
    BY <1>2 DEF vars, Bounded, EachWithinSales, Asks, Requested
  <2> QED
    BY <1>1, <1>2, <2>1 DEF vars, Bounded
<1>3. ASSUME NEW w \in Workers, OtherServices(w)
      PROVE  Bounded'
  <2>1. UNCHANGED <<purchase, pc, job>> /\ salesQty' \in SalesQuantities
    BY <1>3 DEF OtherServices, SetSalesQuantity, SetShipmentStatus, Bounded
  <2>2. EachWithinSales' /\ \A v \in Workers : Asks(v)'
    BY <2>1 DEF Bounded, EachWithinSales, Asks, Requested
  <2> QED
    BY <1>1, <2>1, <2>2 DEF Bounded
<1>4. ASSUME NEW w \in Workers, Request(w) \/ Proceed(w) \/ Crash(w)
      PROVE  Bounded'
  <2>1. EachWithinSales' /\ \A v \in Workers : Asks(v)'
    BY <1>4, RequestBounded, EnsureBounded, ProceedBounded
  <2>2. salesQty' = salesQty
    BY <1>4 DEF Request, Proceed, Crash, Fail, SaveShipment, StuffingComplete, Create, Update, UpdateStatus, Remove,
         ClearDrafts, Ensure, TopUp, InsertPurchase, LinkShipments, MarkExecuted, WriteHeader, WriteDate,
         SaveQuantity, WriteStatus, Begin, ReadAllocation, DestroyLinks, Commit, LookUpQueue, Enqueue,
         OutOfIds, Throw, data
  <2> QED
    BY <1>1, <2>1, <2>2 DEF Bounded
<1> QED
  BY <1>2, <1>3, <1>4 DEF Next

\* Validation alone keeps each single purchase contract within the most the sales contract
\* had, although it locks nothing, any number of requests interleave, and the quantity of the
\* sales contract is raised and lowered between what they read and what they write.
THEOREM EachWithin == Spec => []EachWithinSales
<1>1. Init => Bounded
  <2> SUFFICES ASSUME Init
               PROVE  Bounded
    OBVIOUS
  <2>1. \A w \in Workers : pc[w] = "idle"
    BY DEF Init
  <2>2. \A p \in Purchases : purchase[p].qty = 0
    BY DEF Init, Absent
  <2>3. EachWithinSales
    BY <2>2, LargestBounds DEF EachWithinSales
  <2>4. salesQty \in SalesQuantities
    BY DEF Init
  <2> QED
    BY <2>1, <2>3, <2>4, InitTyped DEF Bounded, Asks
<1>2. Bounded /\ [Next]_vars => Bounded'
  BY NextBounded
<1>3. Bounded => EachWithinSales
  BY DEF Bounded
<1> QED
  BY <1>1, <1>2, <1>3, PTL DEF Spec

-----------------------------------------------------------------------------
(* One request at a time *)

\* Where a request goes
LEMMA Went ==
  ASSUME Typed, NEW w \in Workers, NEW label, NEW j, Goto(w, label, j)
  PROVE  pc'[w] = label /\ job'[w] = j
BY DEF Goto, Typed, TypeOK

\* A row is held by reallocations only.
LEMMA NotHeld ==
  ASSUME Typed, NEW w \in Workers, Holding(w), pc[w] \notin {"read", "destroy", "dated", "commit"}
  PROVE  \A p \in Purchases : holder[p] = None
BY DEF Holding

\* Where no row is held and nothing is reallocated there is nothing to say of either.
LEMMA Unheld ==
  ASSUME NEW w \in Workers, pc'[w] \notin {"begin", "read", "destroy", "dated", "commit"},
         \A p \in Purchases : holder'[p] = None
  PROVE  Holding(w)' /\ Changes(w)'
BY DEF Holding, Changes

\* A request that has ended relies on nothing.
LEMMA EndAlone ==
  ASSUME Typed, NEW w \in Workers, End(w), \A p \in Purchases : holder'[p] = None
  PROVE  Kinds(w)' /\ Holding(w)' /\ Changes(w)' /\ Reads(w)'
<1>1. pc'[w] = "idle" /\ job'[w] = NoJob
  BY Went DEF End
<1>2. Kinds(w)'
  BY <1>1 DEF Kinds, NoJob, Making
<1>3. Reads(w)'
  BY <1>1 DEF Reads
<1> QED
  BY <1>1, <1>2, <1>3, Unheld

\* Nothing is left to do but the queue.
LEMMA QueueAlone ==
  ASSUME Typed, NEW w \in Workers, NEW id, Goto(w, "queue", [NoJob EXCEPT !.id = id]),
         \A p \in Purchases : holder'[p] = None
  PROVE  Kinds(w)' /\ Holding(w)' /\ Changes(w)' /\ Reads(w)'
<1> DEFINE j == [NoJob EXCEPT !.id = id]
<1>1. pc'[w] = "queue" /\ job'[w] = j
  BY Went
<1>2. j.op = "none" /\ j.after = "queue" /\ j.before = "commit"
  BY DEF NoJob
<1> HIDE DEF j
<1>3. Kinds(w)'
  BY <1>1, <1>2 DEF Kinds, Making
<1>4. Reads(w)'
  BY <1>1 DEF Reads
<1> QED
  BY <1>1, <1>3, <1>4, Unheld

\* What fits depends on the purchase contracts and on the sales contract.
LEMMA FitsSame ==
  ASSUME UNCHANGED <<salesQty, purchase>>
  PROVE  \A p, q : Fits(p, q)' <=> Fits(p, q)
BY DEF Fits, Total, Active, Counted

\* A request that begins
LEMMA RequestAlone ==
  ASSUME NEW w \in Workers, Alone(w), Request(w)
  PROVE  Kinds(w)' /\ Holding(w)' /\ Changes(w)' /\ Reads(w)'
<1>1. pc[w] = "idle"
  BY DEF Request, SaveShipment, StuffingComplete, Create, Update, UpdateStatus, Remove, ClearDrafts, Start
<1>2. \A p \in Purchases : holder[p] = None
  BY <1>1, NotHeld DEF Alone
<1>3. UNCHANGED holder
  BY DEF Request, SaveShipment, StuffingComplete, Create, Update, UpdateStatus, Remove, ClearDrafts, data
<1>4. ASSUME NEW j, Goto(w, "ensure", j), j.op \in Making, j.next = Keep, j.after # "status"
      PROVE  Kinds(w)' /\ Holding(w)' /\ Changes(w)' /\ Reads(w)'
  <2>1. pc'[w] = "ensure" /\ job'[w] = j
    BY <1>4, Went DEF Alone
  <2>2. Kinds(w)'
    BY <1>4, <2>1 DEF Kinds, Making
  <2>3. Reads(w)'
    BY <2>1 DEF Reads
  <2> QED
    BY <1>2, <1>3, <2>1, <2>2, <2>3, Unheld
<1>5. ASSUME NEW s, NEW status, SaveShipment(w, s, status)
      PROVE  Kinds(w)' /\ Holding(w)' /\ Changes(w)' /\ Reads(w)'
  <2> DEFINE j == [NoJob EXCEPT !.op = "shipment", !.ships = {s}, !.qty = 1, !.after = "idle"]
  <2>1. Goto(w, "ensure", j) /\ j.op \in Making /\ j.next = Keep /\ j.after # "status"
    BY <1>5 DEF SaveShipment, Start, NoJob, Making
  <2> QED
    BY <1>4, <2>1
<1>6. CASE StuffingComplete(w)
  <2> DEFINE j == [NoJob EXCEPT !.op = "stuffing", !.after = "idle"]
  <2>1. Goto(w, "ensure", j) /\ j.op \in Making /\ j.next = Keep /\ j.after # "status"
    BY <1>6 DEF StuffingComplete, Start, NoJob, Making
  <2> QED
    BY <1>4, <2>1
<1>7. ASSUME NEW S, NEW h, Create(w, S, h)
      PROVE  Kinds(w)' /\ Holding(w)' /\ Changes(w)' /\ Reads(w)'
  <2> DEFINE j == [NoJob EXCEPT !.op = "create", !.ships = S, !.header = h, !.after = "header"]
  <2>1. Goto(w, "ensure", j) /\ j.op \in Making /\ j.next = Keep /\ j.after # "status"
    BY <1>7 DEF Create, Start, NoJob, Making
  <2> QED
    BY <1>4, <2>1
<1>8. ASSUME NEW p \in Purchases, NEW q, NEW status \in Patched \union {Keep}, Update(w, p, q, status)
      PROVE  Kinds(w)' /\ Holding(w)' /\ Changes(w)' /\ Reads(w)'
  <2> DEFINE j == [NoJob EXCEPT !.op = "update", !.id = p, !.qty = q, !.next = status,
                                !.old = purchase[p].status, !.after = "status"]
  <2>1. /\ Goto(w, "save", j) /\ UNCHANGED <<salesQty, purchase>>
        /\ q # Keep => Fits(p, q)
    BY <1>8 DEF Update, Start, data
  <2>2. j.op = "update" /\ j.id = p /\ j.qty = q /\ j.next = status /\ j.after = "status" /\ j.before = "commit"
    BY DEF NoJob
  <2> HIDE DEF j
  <2>3. pc'[w] = "save" /\ job'[w] = j
    BY <2>1, Went DEF Alone
  <2>4. Kinds(w)'
    BY <2>2, <2>3 DEF Kinds, Making
  <2>5. Reads(w)'
    <3>1. q # Keep => Fits(p, q)'
      BY <2>1, FitsSame
    <3> QED
      BY <2>2, <2>3, <3>1 DEF Reads, Requested, Fits, Total, Active
  <2> QED
    BY <1>2, <1>3, <2>3, <2>4, <2>5, Unheld
<1>9. ASSUME NEW p \in Purchases, NEW j, j.id = p, j.op \in Changing, j.next \in Statuses,
             j.old = purchase[p].status, j.after \in {"queue", "idle"}, j.before = "commit",
             j.alloc = {}, j.dead = {}, Goto(w, "begin", j), Exists(p), UNCHANGED purchase,
             purchase[p].status = "Cancelled" => j.next \in {"Draft", "Cancelled"}
      PROVE  Kinds(w)' /\ Holding(w)' /\ Changes(w)' /\ Reads(w)'
  <2>1. pc'[w] = "begin" /\ job'[w] = j
    BY <1>9, Went DEF Alone
  <2>2. Kinds(w)'
    BY <1>9, <2>1 DEF Kinds, Making, Changing
  <2>3. Reads(w)'
    BY <2>1 DEF Reads
  <2>4. Holding(w)'
    BY <1>2, <1>3 DEF Holding
  <2>5. Changes(w)'
    BY <1>9, <2>1 DEF Changes, Exists
  <2> QED
    BY <2>2, <2>3, <2>4, <2>5
<1>10. ASSUME NEW p \in Purchases, NEW status \in Asked, UpdateStatus(w, p, status)
       PROVE  Kinds(w)' /\ Holding(w)' /\ Changes(w)' /\ Reads(w)'
  <2> DEFINE j == [NoJob EXCEPT !.op = "status", !.id = p, !.next = status, !.old = purchase[p].status]
  <2>1. status \in Statuses /\ UNCHANGED purchase /\ Exists(p) /\ Goto(w, "begin", j)
    BY <1>10, PurchaseAssumption DEF UpdateStatus, data, Start
  <2>2. purchase[p].status = "Cancelled" => status \in {"Draft", "Cancelled"}
    BY <1>10 DEF UpdateStatus, Transitions, Statuses
  <2>3. /\ j.id = p /\ j.op \in Changing /\ j.next = status /\ j.old = purchase[p].status
        /\ j.after = "queue" /\ j.before = "commit" /\ j.alloc = {} /\ j.dead = {}
    BY DEF NoJob, Changing
  <2> HIDE DEF j
  <2> QED
    BY <1>9, <2>1, <2>2, <2>3
<1>11. ASSUME NEW p \in Purchases, Remove(w, p)
       PROVE  Kinds(w)' /\ Holding(w)' /\ Changes(w)' /\ Reads(w)'
  <2> DEFINE j == [NoJob EXCEPT !.op = "remove", !.id = p, !.next = "Cancelled",
                                !.old = purchase[p].status, !.after = "idle"]
  <2>1. UNCHANGED purchase /\ Exists(p) /\ Goto(w, "begin", j)
    BY <1>11 DEF Remove, data, Start
  <2>2. /\ j.id = p /\ j.op \in Changing /\ j.next = "Cancelled" /\ j.next \in Statuses
        /\ j.old = purchase[p].status /\ j.after = "idle" /\ j.before = "commit" /\ j.alloc = {} /\ j.dead = {}
    BY DEF NoJob, Changing, Statuses
  <2> HIDE DEF j
  <2> QED
    BY <1>9, <2>1, <2>2
<1>12. CASE ClearDrafts(w)
  <2>1. UNCHANGED <<pc, job>>
    BY <1>12 DEF ClearDrafts
  <2>2. Kinds(w)' /\ Reads(w)'
    BY <1>1, <2>1 DEF Kinds, Reads, Alone
  <2> QED
    BY <1>1, <1>2, <1>3, <2>1, <2>2, Unheld
<1> QED
  BY <1>5, <1>6, <1>7, <1>8, <1>10, <1>11, <1>12 DEF Request

\* A step of a request that holds no row, to one that neither relies on what it has read nor holds one
LEMMA StepAlone ==
  ASSUME NEW w \in Workers, Alone(w), NEW label, NEW j, Goto(w, label, j),
         label \in {"link", "mark", "header", "status", "enqueue"}, \A p \in Purchases : holder'[p] = None,
         j.op = job[w].op, j.next = job[w].next, j.after = job[w].after, j.before = job[w].before,
         pc[w] # "idle", label \in {"link", "mark", "header"} => j.op \in Making,
         label = "status" => j.op = "update"
  PROVE  Kinds(w)' /\ Holding(w)' /\ Changes(w)' /\ Reads(w)'
<1>1. pc'[w] = label /\ job'[w] = j
  BY Went DEF Alone
<1>2. Kinds(w)'
  BY <1>1 DEF Kinds, Alone
<1>3. Reads(w)'
  BY <1>1 DEF Reads
<1> QED
  BY <1>1, <1>2, <1>3, Unheld

\* What ensureExists has read holds until it writes.
LEMMA EnsureAlone ==
  ASSUME NEW w \in Workers, Alone(w), Ensure(w)
  PROVE  Kinds(w)' /\ Holding(w)' /\ Changes(w)' /\ Reads(w)'
<1> DEFINE remaining == Max({0, salesQty - Total(Active)})
           empty == {p \in Active : purchase[p].status = "Draft" /\ purchase[p].qty = 0}
<1>1. Total(Active) \in Nat /\ salesQty \in Nat /\ job[w] \in Jobs /\ job[w].op \in Making
  BY TotalNat, JobTyped DEF Alone, Typed, TypeOK, Active, Ensure, Kinds
<1>2. remaining \in Nat /\ remaining <= salesQty /\ (remaining > 0 => Total(Active) + remaining = salesQty)
  BY <1>1, RoomNat
<1>3. UNCHANGED <<salesQty, purchase, holder>> /\ pc[w] = "ensure"
  BY DEF Ensure, data
<1>4. \A p \in Purchases : holder'[p] = None
  BY <1>3, NotHeld DEF Alone
<1>5. Active' = Active /\ Total(Active)' = Total(Active)
  BY <1>3 DEF Active, Counted, Total
<1>6. ASSUME NEW label \in {"insert", "topup", "mark"}, NEW j, Goto(w, label, j),
             j.op = job[w].op, j.next = job[w].next, j.after = job[w].after, j.before = job[w].before
      PROVE  /\ Kinds(w)' /\ Holding(w)' /\ Changes(w)'
             /\ pc'[w] = label /\ job'[w] = j
  <2>1. pc'[w] = label /\ job'[w] = j
    BY <1>6, Went DEF Alone
  <2>2. Kinds(w)'
    BY <1>1, <1>3, <1>6, <2>1 DEF Kinds, Alone
  <2> QED
    BY <1>4, <2>1, <2>2, Unheld
<1>7. CASE Active = {}
  <2> DEFINE j == [job[w] EXCEPT !.qty = IF Requested(w) THEN job[w].qty ELSE remaining]
  <2>1. Requested(w) => job[w].qty \in 0..salesQty
    <3>1. Requested(w) => job[w].qty \in Nat
      BY <1>1 DEF Requested, Jobs
    <3> QED
      BY <3>1, FitsBounds DEF Ensure, Refused, Alone
  <2>2. /\ j.qty = IF Requested(w) THEN job[w].qty ELSE remaining
        /\ j.op = job[w].op /\ j.next = job[w].next /\ j.after = job[w].after /\ j.before = job[w].before
    BY <1>1 DEF Jobs
  <2>3. Goto(w, "insert", j)
    BY <1>7 DEF Ensure
  <2> HIDE DEF j, remaining
  <2>4. Kinds(w)' /\ Holding(w)' /\ Changes(w)' /\ pc'[w] = "insert" /\ job'[w] = j
    BY <1>6, <2>2, <2>3
  <2>5. j.qty \in 0..salesQty
    BY <1>1, <1>2, <2>1, <2>2
  <2>6. Reads(w)'
    BY <1>3, <1>5, <1>7, <2>4, <2>5 DEF Reads
  <2> QED
    BY <2>4, <2>6
<1>8. CASE Active # {} /\ empty # {}
  <2> DEFINE j == [job[w] EXCEPT !.id = Min(empty), !.qty = IF remaining > 0 THEN remaining ELSE Keep]
             label == IF remaining > 0 THEN "topup" ELSE "mark"
  <2>1. Goto(w, label, j)
    BY <1>8 DEF Ensure
  <2>2. j.id \in Active /\ purchase[j.id].qty = 0
    <3>1. \A p \in empty : p \in Active /\ purchase[p].qty = 0
      OBVIOUS
    <3>2. j.id = Min(empty)
      <4> HIDE DEF remaining, empty
      <4> QED
        BY <1>1 DEF Jobs
    <3> HIDE DEF empty
    <3>3. empty \subseteq Int /\ IsFiniteSet(empty)
      BY <3>1, ActiveFinite, FS_Subset
    <3>4. Min(empty) \in empty
      BY <1>8, <3>3, MinOfFinite
    <3> QED
      BY <3>1, <3>2, <3>4
  <2>3. /\ label \in {"insert", "topup", "mark"} /\ label # "insert"
        /\ label = "topup" => j.qty = remaining /\ remaining > 0
        /\ j.op = job[w].op /\ j.next = job[w].next /\ j.after = job[w].after /\ j.before = job[w].before
    <3> HIDE DEF remaining, empty
    <3> QED
      BY <1>1 DEF Jobs
  <2> HIDE DEF j, label, remaining
  <2>4. Kinds(w)' /\ Holding(w)' /\ Changes(w)' /\ pc'[w] = label /\ job'[w] = j
    BY <1>6, <2>1, <2>3
  <2>5. label = "topup" => Total(Active) + j.qty <= salesQty
    BY <1>1, <1>2, <2>3
  <2>6. Reads(w)'
    BY <1>3, <1>5, <2>2, <2>3, <2>4, <2>5 DEF Reads
  <2> QED
    BY <2>4, <2>6
<1>9. CASE Active # {} /\ empty = {}
  <2> DEFINE j == [job[w] EXCEPT !.id = Min(Active), !.qty = Keep]
  <2>1. Goto(w, "mark", j)
    BY <1>9 DEF Ensure
  <2>2. j.op = job[w].op /\ j.next = job[w].next /\ j.after = job[w].after /\ j.before = job[w].before
    BY <1>1 DEF Jobs
  <2> HIDE DEF j
  <2> QED
    BY <1>1, <1>3, <1>4, <2>1, <2>2, StepAlone
<1> QED
  BY <1>7, <1>8, <1>9

\* Steps of ensureExists and create that write, up to the reallocation
LEMMA CreateAlone ==
  ASSUME NEW w \in Workers, Alone(w), TopUp(w) \/ LinkShipments(w) \/ MarkExecuted(w)
  PROVE  Kinds(w)' /\ Holding(w)' /\ Changes(w)' /\ Reads(w)'
<1>1. job[w] \in Jobs /\ job[w].op \in Making
  BY JobTyped DEF Alone, Kinds, TopUp, LinkShipments, MarkExecuted
<1>2. \A p \in Purchases : holder'[p] = None
  BY NotHeld DEF Alone, TopUp, LinkShipments, MarkExecuted
<1>3. CASE TopUp(w)
  <2> DEFINE j == [job[w] EXCEPT !.qty = Keep]
  <2>1. j.op = job[w].op /\ j.next = job[w].next /\ j.after = job[w].after /\ j.before = job[w].before
    BY <1>1 DEF Jobs
  <2>2. Goto(w, "mark", j) /\ pc[w] # "idle"
    BY <1>3 DEF TopUp
  <2> HIDE DEF j
  <2> QED
    BY <1>1, <1>2, <2>1, <2>2, StepAlone
<1>4. CASE LinkShipments(w)
  <2>1. Goto(w, "mark", job[w]) /\ pc[w] # "idle"
    BY <1>4 DEF LinkShipments
  <2> QED
    BY <1>1, <1>2, <2>1, StepAlone
<1>5. CASE MarkExecuted(w)
  <2>1. CASE job[w].op = "create"
    <3> DEFINE j == [job[w] EXCEPT !.ships = {}]
    <3>1. j.op = job[w].op /\ j.next = job[w].next /\ j.after = job[w].after /\ j.before = job[w].before
      BY <1>1 DEF Jobs
    <3>2. Goto(w, "header", j) /\ pc[w] # "idle"
      BY <1>5, <2>1 DEF MarkExecuted
    <3> HIDE DEF j
    <3> QED
      BY <1>1, <1>2, <3>1, <3>2, StepAlone
  <2>2. CASE job[w].op # "create"
    BY <1>2, <1>5, <2>2, EndAlone DEF MarkExecuted, Alone
  <2> QED
    BY <2>1, <2>2
<1> QED
  BY <1>3, <1>4, <1>5

\* A request that enters a reallocation without a status to write
LEMMA EntersAlone ==
  ASSUME NEW w \in Workers, Alone(w), NEW j, Goto(w, "read", j), j.op \in Making \union {"update"},
         j.op \in Making => j.next = Keep, j.op = "update" => j.next \in Patched \union {Keep},
         j.after \in {"mark", "header"} \/ j.before = "dated" => j.op \in Making,
         j.after = "status" => j.op = "update", j.id \in Purchases,
         \A p \in Purchases : holder'[p] = None \/ (holder'[p] = w /\ p = j.id /\ j.op \in Making)
  PROVE  Kinds(w)' /\ Holding(w)' /\ Changes(w)' /\ Reads(w)'
<1>1. pc'[w] = "read" /\ job'[w] = j
  BY Went DEF Alone
<1>2. Kinds(w)'
  BY <1>1 DEF Kinds
<1>3. Holding(w)'
  BY <1>1 DEF Holding
<1>4. Changes(w)'
  <2>1. j.op \notin Changing
    BY DEF Making, Changing
  <2>2. j.next = Keep \/ \A p \in Purchases : holder'[p] # w
    BY PurchaseAssumption
  <2> QED
    BY <1>1, <2>1, <2>2 DEF Changes
<1>5. Reads(w)'
  BY <1>1 DEF Reads
<1> QED
  BY <1>2, <1>3, <1>4, <1>5

\* The steps before a reallocation
LEMMA BeforeAlone ==
  ASSUME NEW w \in Workers, Alone(w), InsertPurchase(w) \/ WriteHeader(w) \/ SaveQuantity(w)
  PROVE  Kinds(w)' /\ Holding(w)' /\ Changes(w)' /\ Reads(w)'
<1>1. job[w] \in Jobs /\ Kinds(w) /\ Named(w)
  BY JobTyped DEF Alone, Typed
<1>2. \A p \in Purchases : holder[p] = None
  BY NotHeld DEF Alone, InsertPurchase, WriteHeader, SaveQuantity
<1>3. CASE InsertPurchase(w) /\ job[w].ships # {}
  <2> DEFINE j == [job[w] EXCEPT !.id = lastId + 1, !.qty = Keep]
  <2>1. j.op = job[w].op /\ j.next = job[w].next /\ j.after = job[w].after /\ j.before = job[w].before
    BY <1>1 DEF Jobs
  <2>2. Goto(w, "link", j) /\ pc[w] = "insert" /\ UNCHANGED holder
    BY <1>3 DEF InsertPurchase
  <2> HIDE DEF j
  <2> QED
    BY <1>1, <1>2, <2>1, <2>2, StepAlone DEF Kinds
<1>4. CASE InsertPurchase(w) /\ job[w].ships = {}
  <2> DEFINE j == [job[w] EXCEPT !.id = lastId + 1, !.qty = Keep, !.after = "mark"]
  <2>1. j.op = job[w].op /\ j.next = job[w].next /\ j.after = "mark" /\ j.before = job[w].before
        /\ j.id = lastId + 1
    BY <1>1 DEF Jobs
  <2>2. Goto(w, "read", j) /\ pc[w] = "insert" /\ UNCHANGED holder
    BY <1>4 DEF InsertPurchase
  <2>3. lastId + 1 \in Purchases
    BY <1>4, PurchaseAssumption DEF InsertPurchase, Purchases, Alone, Typed, TypeOK
  <2> HIDE DEF j
  <2>4. j.op \in Making /\ j.op # "update" /\ j.next = Keep
    BY <1>1, <2>1, <2>2 DEF Kinds, Making
  <2> QED
    BY <1>2, <2>1, <2>2, <2>3, <2>4, EntersAlone
<1>5. CASE WriteHeader(w)
  <2> DEFINE j == [job[w] EXCEPT !.before = "dated", !.after = "queue"]
  <2>1. j.op = job[w].op /\ j.next = job[w].next /\ j.after = "queue" /\ j.id = job[w].id
    BY <1>1 DEF Jobs
  <2>2. Goto(w, "read", j) /\ pc[w] = "header"
    BY <1>5 DEF WriteHeader
  <2> HIDE DEF j
  <2>3. j.op \in Making /\ j.op # "update" /\ j.next = Keep /\ j.id \in Purchases
    BY <1>1, <2>1, <2>2 DEF Kinds, Making, Named
  <2>4. \A p \in Purchases : holder'[p] = None \/ (holder'[p] = w /\ p = j.id)
    BY <1>2, <1>5, <2>1 DEF WriteHeader, Alone, Typed, TypeOK
  <2> QED
    BY <2>1, <2>2, <2>3, <2>4, EntersAlone
<1>6. CASE SaveQuantity(w)
  <2> DEFINE j == [job[w] EXCEPT !.qty = Keep]
  <2>1. j.op = job[w].op /\ j.next = job[w].next /\ j.after = job[w].after /\ j.before = job[w].before
        /\ j.id = job[w].id
    BY <1>1 DEF Jobs
  <2>2. Goto(w, "read", j) /\ pc[w] = "save" /\ UNCHANGED holder
    BY <1>6 DEF SaveQuantity
  <2> HIDE DEF j
  <2>3. /\ j.op = "update" /\ j.next \in Patched \union {Keep} /\ j.id \in Purchases
        /\ j.op \notin Making /\ j.after \notin {"mark", "header"} /\ j.before # "dated"
    BY <1>1, <2>1, <2>2 DEF Kinds, Making, Named
  <2> QED
    BY <1>2, <2>1, <2>2, <2>3, EntersAlone
<1> QED
  BY <1>3, <1>4, <1>5, <1>6

\* A reallocation goes on: it holds the same row for the same change.
LEMMA GoesOnAlone ==
  ASSUME NEW w \in Workers, Alone(w), pc[w] \in {"read", "destroy", "dated"}, NEW label, NEW j,
         Goto(w, label, j), label \in {"destroy", "dated", "commit"}, UNCHANGED <<salesQty, purchase, holder>>,
         j.op = job[w].op, j.next = job[w].next, j.after = job[w].after, j.before = job[w].before,
         j.id = job[w].id, j.old = job[w].old, label = "dated" => j.op \in Making
  PROVE  Kinds(w)' /\ Holding(w)' /\ Changes(w)' /\ Reads(w)'
<1>1. pc'[w] = label /\ job'[w] = j
  BY Went DEF Alone
<1>2. Kinds(w)'
  BY <1>1 DEF Kinds, Alone
<1>3. Holding(w)'
  BY <1>1 DEF Holding, Alone
<1>4. Changes(w)'
  <2>1. Changes(w)
    BY DEF Alone
  <2>2. Fits(j.id, purchase[j.id].qty)' <=> Fits(job[w].id, purchase[job[w].id].qty)
    BY DEF Fits, Active, Counted, Total
  <2> QED
    BY <1>1, <2>1, <2>2 DEF Changes, Reactivates, Exists
<1>5. Reads(w)'
  BY <1>1 DEF Reads
<1> QED
  BY <1>2, <1>3, <1>4, <1>5

\* The steps of a status change and of the reallocations
LEMMA ReallocateAlone ==
  ASSUME NEW w \in Workers, Alone(w),
         Begin(w) \/ ReadAllocation(w) \/ DestroyLinks(w) \/ WriteDate(w)
  PROVE  Kinds(w)' /\ Holding(w)' /\ Changes(w)' /\ Reads(w)'
<1>1. job[w] \in Jobs /\ Kinds(w) /\ Named(w)
  BY JobTyped DEF Alone, Typed
<1>2. CASE Begin(w)
  <2> DEFINE j == job[w]
             label == IF job[w].next = "Cancelled" \/ Reactivates(w) THEN "read" ELSE "commit"
  <2>1. Goto(w, label, job[w]) /\ pc[w] = "begin" /\ label \in {"read", "commit"}
    BY <1>2 DEF Begin
  <2>2. \A p \in Purchases : holder[p] = None
    BY <2>1, NotHeld DEF Alone
  <2>3. j.id \in Purchases /\ holder' = [holder EXCEPT ![j.id] = IF j.next = j.old THEN holder[j.id] ELSE w]
    BY <1>1, <1>2 DEF Begin, Named
  <2> HIDE DEF label
  <2>4. pc'[w] = label /\ job'[w] = job[w]
    BY <2>1, Went DEF Alone
  <2>5. Kinds(w)'
    BY <1>1, <2>1, <2>4 DEF Kinds, Making, Changing
  <2>6. \A p \in Purchases : holder'[p] = IF p = j.id /\ j.next # j.old THEN w ELSE None
    BY <2>2, <2>3 DEF Alone, Typed, TypeOK
  <2>7. Holding(w)'
    BY <2>1, <2>4, <2>6 DEF Holding
  <2>8. Changes(w)'
    <3>1. Changes(w) /\ j.op \in Changing
      BY <1>1, <2>1 DEF Alone, Kinds
    <3>2. UNCHANGED <<salesQty, purchase>>
      BY <1>2 DEF Begin
    <3>3. Reactivates(w) => Fits(job[w].id, purchase[job[w].id].qty)
      BY <1>2 DEF Begin
    <3>4. Fits(j.id, purchase[j.id].qty)' <=> Fits(job[w].id, purchase[job[w].id].qty)
      BY <3>2, <2>4 DEF Fits, Active, Counted, Total
    <3>5. holder'[j.id] = w <=> j.next # j.old
      BY <2>3, <2>6, PurchaseAssumption
    <3> QED
      BY <2>1, <2>4, <3>1, <3>2, <3>3, <3>4, <3>5 DEF Changes, Reactivates, Exists
  <2>9. Reads(w)'
    BY <2>1, <2>4 DEF Reads
  <2> QED
    BY <2>5, <2>7, <2>8, <2>9
<1>3. CASE ReadAllocation(w)
  <2> DEFINE j == [job[w] EXCEPT !.alloc = Allocation(ActiveFor(w))]
  <2>1. /\ j.op = job[w].op /\ j.next = job[w].next /\ j.after = job[w].after /\ j.before = job[w].before
        /\ j.id = job[w].id /\ j.old = job[w].old
    BY <1>1 DEF Jobs
  <2>2. Goto(w, "destroy", j) /\ pc[w] = "read" /\ UNCHANGED <<salesQty, purchase, holder>>
    BY <1>3 DEF ReadAllocation, data
  <2> HIDE DEF j
  <2> QED
    BY <2>1, <2>2, GoesOnAlone
<1>4. CASE DestroyLinks(w)
  <2> DEFINE j == [job[w] EXCEPT !.dead = links]
             label == job[w].before
  <2>1. /\ j.op = job[w].op /\ j.next = job[w].next /\ j.after = job[w].after /\ j.before = job[w].before
        /\ j.id = job[w].id /\ j.old = job[w].old /\ label \in {"commit", "dated"}
    BY <1>1 DEF Jobs
  <2>2. Goto(w, label, j) /\ pc[w] = "destroy" /\ UNCHANGED <<salesQty, purchase, holder>>
    BY <1>4 DEF DestroyLinks, data
  <2>3. label = "dated" => job[w].op \in Making
    BY <1>1, <2>2 DEF Kinds
  <2> HIDE DEF j, label
  <2> QED
    BY <2>1, <2>2, <2>3, GoesOnAlone
<1>5. CASE WriteDate(w)
  <2> DEFINE j == [job[w] EXCEPT !.header = <<FALSE, FALSE>>]
  <2>1. /\ j.op = job[w].op /\ j.next = job[w].next /\ j.after = job[w].after /\ j.before = job[w].before
        /\ j.id = job[w].id /\ j.old = job[w].old
    BY <1>1 DEF Jobs
  <2>2. Goto(w, "commit", j) /\ pc[w] = "dated" /\ UNCHANGED <<salesQty, purchase, holder>>
    BY <1>5 DEF WriteDate, data
  <2> HIDE DEF j
  <2> QED
    BY <2>1, <2>2, GoesOnAlone
<1> QED
  BY <1>2, <1>3, <1>4, <1>5

\* When nobody else holds a row, nothing is held after the end of a transaction.
LEMMA UnlockAll ==
  ASSUME NEW w \in Workers, Alone(w), Unlock(w)
  PROVE  \A p \in Purchases : holder'[p] = None
BY DEF Unlock, Alone, Holding

\* The ends of reallocations and of requests
LEMMA AfterAlone ==
  ASSUME NEW w \in Workers, Alone(w),
         \/ Commit(w) \/ WriteStatus(w) \/ LookUpQueue(w) \/ Enqueue(w) \/ OutOfIds(w)
         \/ Throw(w) \/ Crash(w)
  PROVE  Kinds(w)' /\ Holding(w)' /\ Changes(w)' /\ Reads(w)'
<1>1. job[w] \in Jobs /\ Kinds(w) /\ Typed
  BY JobTyped DEF Alone, Typed
<1>2. CASE Commit(w)
  <2>1. \A p \in Purchases : holder'[p] = None
    BY <1>2, UnlockAll DEF Commit
  <2>2. CASE job[w].after = "idle"
    BY <1>1, <1>2, <2>1, <2>2, EndAlone DEF Commit
  <2>3. CASE job[w].after = "queue"
    BY <1>1, <1>2, <2>1, <2>3, QueueAlone DEF Commit
  <2>4. CASE job[w].after \notin {"idle", "queue"}
    <3> DEFINE j == [job[w] EXCEPT !.alloc = {}, !.dead = {}]
               label == job[w].after
    <3>1. /\ j.op = job[w].op /\ j.next = job[w].next /\ j.after = job[w].after /\ j.before = job[w].before
          /\ label \in {"mark", "header", "status"}
      BY <1>1, <2>4 DEF Jobs
    <3>2. Goto(w, label, j) /\ pc[w] = "commit"
      BY <1>2, <2>4 DEF Commit
    <3>3. (label \in {"mark", "header"} => job[w].op \in Making) /\ (label = "status" => job[w].op = "update")
      BY <1>1, <3>2 DEF Kinds
    <3> HIDE DEF j, label
    <3> QED
      BY <2>1, <3>1, <3>2, <3>3, StepAlone
  <2> QED
    BY <2>2, <2>3, <2>4
<1>3. CASE WriteStatus(w)
  <2>1. \A p \in Purchases : holder'[p] = None
    BY <1>3, NotHeld DEF WriteStatus, Alone
  <2> QED
    BY <1>1, <1>3, <2>1, QueueAlone DEF WriteStatus
<1>4. CASE LookUpQueue(w)
  <2>1. pc[w] = "queue" /\ \A p \in Purchases : holder'[p] = None
    BY <1>4, NotHeld DEF LookUpQueue, Alone
  <2>2. CASE End(w)
    BY <1>1, <2>1, <2>2, EndAlone
  <2>3. CASE Goto(w, "enqueue", job[w])
    BY <2>1, <2>3, StepAlone
  <2> QED
    BY <1>4, <2>2, <2>3 DEF LookUpQueue
<1>5. CASE Enqueue(w) \/ OutOfIds(w)
  <2>1. \A p \in Purchases : holder'[p] = None
    BY <1>5, NotHeld DEF Enqueue, OutOfIds, data, Alone
  <2> QED
    BY <1>1, <1>5, <2>1, EndAlone DEF Enqueue, OutOfIds
<1>6. CASE Throw(w) \/ Crash(w)
  <2>1. Fail(w)
    BY <1>6 DEF Throw, Crash
  <2> QED
    BY <1>1, <2>1, UnlockAll, EndAlone DEF Fail
<1> QED
  BY <1>2, <1>3, <1>4, <1>5, <1>6

\* What a request relies on holds after each of its steps, when no other request is under way.
LEMMA NextAlone ==
  ASSUME NEW w, Workers = {w}
  PROVE  Alone(w) /\ [Next]_vars => Alone(w)'
<1> SUFFICES ASSUME Alone(w), [Next]_vars
             PROVE  Alone(w)'
  OBVIOUS
<1>1. Typed' /\ w \in Workers
  BY NextTyped DEF Alone
<1>2. CASE UNCHANGED vars
  <2>1. Fits(job[w].id, purchase[job[w].id].qty)' <=> Fits(job[w].id, purchase[job[w].id].qty)
    BY <1>2 DEF vars, Fits, Active, Counted, Total
  <2>2. Changes(w)'
    BY <1>2, <2>1 DEF vars, Alone, Changes, Reactivates, Exists
  <2>3. Kinds(w)' /\ Holding(w)' /\ Reads(w)'
    BY <1>2 DEF vars, Alone, Kinds, Holding, Reads, Requested, Fits, Active, Counted, Total
  <2> QED
    BY <1>1, <2>2, <2>3 DEF Alone
<1>3. CASE OtherServices(w)
  <2>1. pc[w] = "idle" /\ UNCHANGED <<pc, job, holder>>
    BY <1>3 DEF OtherServices, SetSalesQuantity, SetShipmentStatus
  <2>2. \A p \in Purchases : holder'[p] = None
    BY <2>1, <1>1, NotHeld DEF Alone
  <2>3. Kinds(w)' /\ Reads(w)'
    BY <2>1 DEF Kinds, Reads, Alone
  <2>4. Holding(w)' /\ Changes(w)'
    BY <1>1, <2>1, <2>2, Unheld
  <2> QED
    BY <1>1, <2>3, <2>4 DEF Alone
<1>4. CASE Request(w)
  BY <1>1, <1>4, RequestAlone DEF Alone
<1>5. CASE Proceed(w) \/ Crash(w)
  <2>1. Kinds(w)' /\ Holding(w)' /\ Changes(w)' /\ Reads(w)'
    BY <1>1, <1>5, EnsureAlone, CreateAlone, BeforeAlone, ReallocateAlone, AfterAlone DEF Proceed
  <2> QED
    BY <1>1, <2>1 DEF Alone
<1> QED
  BY <1>2, <1>3, <1>4, <1>5 DEF Next

\* There is no request to begin with.
LEMMA InitAlone ==
  ASSUME NEW w \in Workers
  PROVE  Init => Alone(w)
<1> SUFFICES ASSUME Init
             PROVE  Alone(w)
  OBVIOUS
<1>1. pc[w] = "idle" /\ job[w] = NoJob /\ \A p \in Purchases : holder[p] = None
  BY DEF Init
<1>2. Kinds(w)
  BY <1>1 DEF Kinds, NoJob, Making
<1> QED
  BY <1>1, <1>2, InitTyped DEF Alone, Holding, Changes, Reads

-----------------------------------------------------------------------------
(* Nothing is booked beyond the sales contract *)

\* What is booked after a step, when the purchase contracts that count are those of S
LEMMA BookedThen ==
  ASSUME NEW S, Active' = S
  PROVE  /\ Total(Active)' = Total(S)' /\ S \in SUBSET Purchases
         /\ \A p \in Purchases : p \in S <=> purchase'[p].status \notin {"Absent", "Cancelled"}
BY DEF Total, Active, Counted

\* Fewer purchase contracts that count, with the quantities they had, book no more.
LEMMA BooksLess ==
  ASSUME Typed, Active' \subseteq Active, \A p \in Active' : purchase'[p].qty = purchase[p].qty
  PROVE  Total(Active)' <= Total(Active)
<1>1. PICK S : S = Active'
  OBVIOUS
<1>2. S \in SUBSET Active /\ Active \in SUBSET Purchases /\ S \in SUBSET Purchases
  BY <1>1 DEF Active
<1>3. Total(S)' = Total(S)
  BY <1>1, <1>2, TotalSame DEF Typed
<1>4. Total(S) <= Total(Active)
  BY <1>2, TotalNat DEF Typed
<1> QED
  BY <1>1, <1>3, <1>4, BookedThen

\* The purchase contract p is given another quantity, the others that count keep theirs.
LEMMA BooksOne ==
  ASSUME Typed, Typed', NEW p \in Active, Active' = Active,
         \A q \in Active \ {p} : purchase'[q].qty = purchase[q].qty
  PROVE  Total(Active)' = Total(Active \ {p}) + purchase'[p].qty
<1>1. PICK S : S = Active
  OBVIOUS
<1>2. S \in SUBSET Purchases /\ p \in S /\ IsFiniteSet(S) /\ S \ {p} \in SUBSET Purchases
  BY <1>1, ActiveFinite DEF Active
<1> DEFINE f == [q \in Purchases |-> purchase[q].qty]
           g == [q \in Purchases |-> purchase'[q].qty]
<1>3. \A q \in Purchases : f[q] \in Nat /\ g[q] \in Nat
  <2>1. \A q \in Purchases : purchase[q].qty \in Nat
    BY RowTyped DEF Typed
  <2>2. \A q \in Purchases : purchase'[q].qty \in Nat
    <3>1. \A q \in Purchases : purchase'[q] \in [status : Statuses, qty : Nat] \union {Absent}
      BY DEF Typed, TypeOK
    <3>2. ASSUME NEW q \in Purchases
          PROVE  purchase'[q].qty \in Nat
      <4>1. CASE purchase'[q] \in [status : Statuses, qty : Nat]
        BY <4>1
      <4>2. CASE purchase'[q] = Absent
        BY <4>2 DEF Absent
      <4> QED
        BY <3>1, <4>1, <4>2
    <3> QED
      BY <3>2
  <2> QED
    BY <2>1, <2>2
<1>4. \A q \in S \ {p} : f[q] = g[q]
  BY <1>1, <1>2
<1>5. Total(Active)' = SumFunctionOnSet(g, S) /\ Total(S) = SumFunctionOnSet(f, S)
  BY <1>1 DEF Total
<1>6. f[p] = purchase[p].qty /\ g[p] = purchase'[p].qty
  BY <1>2
<1>7. Total(S) = purchase[p].qty + Total(S \ {p})
  BY <1>2, TotalWithout DEF Typed
<1>8. Total(S \ {p}) \in Nat
  BY <1>2, TotalNat DEF Typed
<1>9. f[p] \in Nat /\ g[p] \in Nat
  BY <1>2, <1>3
<1> HIDE DEF f, g
<1>10. SumFunctionOnSet(g, S) = SumFunctionOnSet(f, S) - f[p] + g[p]
  <2>1. \A q \in S : f[q] \in Int /\ g[q] \in Int
    BY <1>2, <1>3
  <2> QED
    BY <1>2, <1>4, <2>1, SumUpdate
<1>11. Total(Active \ {p}) = Total(S \ {p})
  BY <1>1
<1>12. SumFunctionOnSet(f, S) = f[p] + Total(S \ {p})
  BY <1>5, <1>6, <1>7
<1>13. SumFunctionOnSet(g, S) = Total(S \ {p}) + g[p]
  BY <1>8, <1>9, <1>10, <1>12
<1>14. Total(Active)' = SumFunctionOnSet(g, S)
  BY <1>5
<1> QED
  BY <1>6, <1>11, <1>13, <1>14

\* A purchase contract is given a quantity that fits, or does not count.
LEMMA SetQuantityBooks ==
  ASSUME Typed, Typed', NEW p \in Purchases, NEW q \in Nat, SetQuantity(p, q), salesQty' = salesQty,
         p \in Active => Total(Active \ {p}) + q <= salesQty, Total(Active)' > Total(Active)
  PROVE  WithinSales'
<1>1. \A r \in Purchases : IF r = p /\ purchase[r] # Absent
                           THEN purchase'[r] = [status |-> purchase[r].status, qty |-> q]
                           ELSE purchase'[r] = purchase[r]
  BY SetQuantityTyped
<1>2. \A r \in Purchases : purchase'[r].status = purchase[r].status
  <2> SUFFICES ASSUME NEW r \in Purchases
               PROVE  purchase'[r].status = purchase[r].status
    OBVIOUS
  <2>1. purchase'[r] = [status |-> purchase[r].status, qty |-> q] \/ purchase'[r] = purchase[r]
    BY <1>1
  <2> QED
    BY <2>1
<1>3. Active' = Active
  BY <1>2 DEF Active, Counted
<1>4. CASE p \in Active
  <2>1. purchase[p].status # "Absent"
    BY <1>4 DEF Active, Counted
  <2>2. purchase'[p] = [status |-> purchase[p].status, qty |-> q]
    BY <1>1, <2>1 DEF Absent
  <2>3. purchase'[p].qty = q
    BY <2>2
  <2>4. \A r \in Active \ {p} : purchase'[r].qty = purchase[r].qty
    BY <1>1 DEF Active
  <2>5. Total(Active)' = Total(Active \ {p}) + purchase'[p].qty
    BY <1>3, <1>4, <2>4, BooksOne
  <2> QED
    BY <1>4, <2>3, <2>5 DEF WithinSales
<1>5. CASE p \notin Active
  <2>1. \A r \in Active' : purchase'[r].qty = purchase[r].qty
    BY <1>1, <1>3, <1>5 DEF Active
  <2>2. Total(Active)' <= Total(Active)
    BY <1>3, <2>1, BooksLess
  <2>3. Total(Active) \in Nat /\ Total(Active)' \in Nat
    <3>1. Total(Active) \in Nat
      BY TotalNat DEF Typed, Active
    <3>2. PICK S : S = Active'
      OBVIOUS
    <3>3. S \in SUBSET Purchases
      BY <3>2, BookedThen
    <3>4. Total(S) \in Nat /\ Total(S)' = Total(S)
      BY <2>1, <3>2, <3>3, TotalNat, TotalSame DEF Typed
    <3> QED
      BY <3>1, <3>2, <3>4, BookedThen
  <2> QED
    BY <2>2, <2>3
<1> QED
  BY <1>4, <1>5

\* A status is written: a purchase contract stops counting, or is given back what fits.
LEMMA SetStatusBooks ==
  ASSUME Typed, NEW w \in Workers, SetStatus(w), salesQty' = salesQty, Total(Active)' > Total(Active),
         job[w].id \in Purchases,
         \/ job[w].next \in {"Cancelled", Keep}
         \/ job[w].id \in Active
         \/ Fits(job[w].id, purchase[job[w].id].qty)
  PROVE  WithinSales'
<1>0. PICK p \in Purchases : p = job[w].id
  OBVIOUS
<1>1. \A r \in Purchases :
        IF r = p /\ purchase[r] # Absent /\ job[w].next \notin {Keep, job[w].old}
        THEN purchase'[r] = [status |-> job[w].next, qty |-> purchase[r].qty]
        ELSE purchase'[r] = purchase[r]
  BY <1>0, SetStatusTyped
<1>2. \A r \in Purchases : purchase'[r].qty = purchase[r].qty
  <2> SUFFICES ASSUME NEW r \in Purchases
               PROVE  purchase'[r].qty = purchase[r].qty
    OBVIOUS
  <2>1. purchase'[r] = [status |-> job[w].next, qty |-> purchase[r].qty] \/ purchase'[r] = purchase[r]
    BY <1>1
  <2> QED
    BY <2>1
<1>3. \A r \in Purchases \ {p} : r \in Active' <=> r \in Active
  BY <1>1 DEF Active, Counted
<1>4. PICK S : S = Active'
  OBVIOUS
<1>5. Total(Active)' = Total(S)' /\ S \in SUBSET Purchases /\ Active \in SUBSET Purchases
  BY <1>4, BookedThen DEF Active
<1>6. Total(S)' = Total(S) /\ Total(S) \in Nat /\ Total(Active) \in Nat
  BY <1>2, <1>5, TotalSame, TotalNat DEF Typed
<1>7. ~(S \subseteq Active)
  <2>1. S \subseteq Active => Total(S) <= Total(Active)
    BY <1>5, TotalNat DEF Typed
  <2> QED
    BY <1>5, <1>6, <2>1
<1>8. p \in S /\ p \notin Active
  BY <1>3, <1>4, <1>5, <1>7
<1>9. job[w].next \notin {"Cancelled", Keep}
  <2>1. purchase'[p].status # "Cancelled" /\ purchase'[p] # purchase[p]
    BY <1>4, <1>8 DEF Active, Counted
  <2>2. purchase'[p] = [status |-> job[w].next, qty |-> purchase[p].qty] /\ job[w].next # Keep
    BY <1>1, <2>1
  <2> QED
    BY <2>1, <2>2
<1>10. Fits(p, purchase[p].qty)
  BY <1>0, <1>8, <1>9
<1>11. Total(Active) + purchase[p].qty <= salesQty
  <2>1. Active \ {p} = Active
    BY <1>8
  <2> QED
    BY <1>10, <2>1 DEF Fits
<1>12. S = Active \union {p}
  BY <1>3, <1>4, <1>5, <1>8
<1>13. Total(S) = purchase[p].qty + Total(Active)
  BY <1>5, <1>8, <1>12, TotalAdd DEF Typed
<1>14. purchase[p].qty \in Nat
  BY RowTyped DEF Typed
<1> QED
  BY <1>5, <1>6, <1>11, <1>13, <1>14 DEF WithinSales

\* The first purchase contract is booked.
LEMMA InsertBooks ==
  ASSUME Typed, Typed', NEW w \in Workers, InsertPurchase(w), Active = {}, job[w].qty \in 0..salesQty
  PROVE  WithinSales'
<1>1. PICK n \in Purchases : n = lastId + 1
  BY PurchaseAssumption DEF InsertPurchase, Purchases, Typed, TypeOK
<1>2. purchase' = [purchase EXCEPT ![n] = [status |-> "Draft", qty |-> job[w].qty]] /\ salesQty' = salesQty
  BY <1>1 DEF InsertPurchase
<1>3. purchase'[n] = [status |-> "Draft", qty |-> job[w].qty] /\ \A r \in Purchases \ {n} : purchase'[r] = purchase[r]
  BY <1>2 DEF Typed, TypeOK
<1>4. purchase'[n].status = "Draft" /\ purchase'[n].qty = job[w].qty
  BY <1>3
<1>5. Active' = {n}
  BY <1>3, <1>4 DEF Active, Counted
<1> DEFINE g == [q \in Purchases |-> purchase'[q].qty]
<1>6. g[n] = job[w].qty /\ g[n] \in Int
  BY <1>4 DEF Typed, TypeOK
<1>7. Total(Active)' = SumFunctionOnSet(g, {n})
  BY <1>5 DEF Total
<1> HIDE DEF g
<1>8. SumFunctionOnSet(g, {} \union {n}) = g[n] + SumFunctionOnSet(g, {})
  BY <1>6, SumAdd, FS_EmptySet
<1>9. {} \union {n} = {n} /\ SumFunctionOnSet(g, {}) = 0
  BY SumEmpty
<1> QED
  BY <1>2, <1>6, <1>7, <1>8, <1>9 DEF WithinSales, Typed, TypeOK

\* A step that books more books what the sales contract has.
LEMMA NextBooks ==
  ASSUME NEW w, Workers = {w}, Patched \subseteq {"Cancelled"}, Alone(w), Next, Total(Active)' > Total(Active)
  PROVE  WithinSales'
<1>1. w \in Workers /\ Typed /\ Typed' /\ Named(w) /\ Kinds(w) /\ Changes(w) /\ Holding(w) /\ Reads(w) /\ job[w] \in Jobs
  BY NextTyped, JobTyped DEF Alone, Typed
<1>2. Total(Active) \in Nat
  BY <1>1, TotalNat DEF Typed, Active
<1>3. ~ UNCHANGED purchase
  <2>1. UNCHANGED purchase => Total(Active)' = Total(Active)
    BY DEF Total, Active, Counted
  <2> QED
    BY <1>2, <2>1
<1>4. \/ TopUp(w) \/ InsertPurchase(w) \/ SaveQuantity(w) \/ WriteStatus(w) \/ Commit(w) \/ ClearDrafts(w)
  <2>1. OtherServices(w) \/ Request(w) \/ Proceed(w) \/ Crash(w)
    BY DEF Next
  <2>2. ~OtherServices(w) /\ ~Crash(w) /\ ~Throw(w)
    BY <1>3 DEF OtherServices, Crash, Throw, Fail, SetSalesQuantity, SetShipmentStatus
  <2>3. Request(w) => ClearDrafts(w)
    BY <1>3 DEF Request, SaveShipment, StuffingComplete, Create, Update, UpdateStatus, Remove, data
  <2> QED
    BY <1>3, <2>1, <2>2, <2>3 DEF Proceed, Ensure, LinkShipments, MarkExecuted, WriteHeader, WriteDate,
         Begin, ReadAllocation, DestroyLinks, LookUpQueue, Enqueue, OutOfIds, data
<1>5. CASE TopUp(w)
  <2>1. PICK p \in Purchases : p = job[w].id
    BY <1>1, <1>5 DEF TopUp, Named
  <2>2. /\ job[w].qty \in Nat /\ p \in Active /\ purchase[p].qty = 0
        /\ Total(Active) + job[w].qty <= salesQty
    BY <1>1, <1>5, <2>1 DEF TopUp, Named, Reads
  <2>3. Total(Active) = purchase[p].qty + Total(Active \ {p}) /\ Total(Active \ {p}) \in Nat
    BY <1>1, <2>2, TotalWithout, TotalNat DEF Typed, Active
  <2>4. Total(Active \ {p}) + job[w].qty <= salesQty
    BY <1>2, <2>2, <2>3
  <2>5. SetQuantity(p, job[w].qty) /\ salesQty' = salesQty
    BY <1>5, <2>1 DEF TopUp
  <2> QED
    BY <1>1, <2>2, <2>4, <2>5, SetQuantityBooks
<1>6. CASE InsertPurchase(w)
  BY <1>1, <1>6, InsertBooks DEF InsertPurchase, Reads
<1>7. CASE SaveQuantity(w)
  <2>1. PICK p \in Purchases : p = job[w].id
    BY <1>1, <1>7 DEF SaveQuantity, Named
  <2>2. Requested(w) /\ SetQuantity(p, job[w].qty) /\ salesQty' = salesQty
    BY <1>3, <1>7, <2>1 DEF SaveQuantity
  <2>3. job[w].qty \in Nat /\ Fits(p, job[w].qty)
    BY <1>1, <1>7, <2>1, <2>2 DEF SaveQuantity, Requested, Reads, Jobs
  <2> QED
    BY <1>1, <2>2, <2>3, SetQuantityBooks DEF Fits
<1>8. CASE WriteStatus(w)
  <2>1. SetStatus(w) /\ salesQty' = salesQty /\ job[w].id \in Purchases /\ job[w].next \in {"Cancelled", Keep}
    BY <1>1, <1>8 DEF WriteStatus, Named, Kinds
  <2> QED
    BY <1>1, <2>1, SetStatusBooks
<1>9. CASE Commit(w)
  <2>1. PICK p \in Purchases : holder[p] = w
    BY <1>3, <1>9 DEF Commit
  <2>2. p = job[w].id /\ pc[w] = "commit" /\ SetStatus(w) /\ salesQty' = salesQty
    BY <1>1, <1>9, <2>1, PurchaseAssumption DEF Commit, Holding
  <2>3. CASE job[w].op \notin Changing
    <3>1. job[w].next = Keep
      BY <1>1, <2>1, <2>2, <2>3 DEF Changes
    <3> QED
      BY <1>1, <2>2, <3>1, SetStatusBooks
  <2>4. CASE job[w].op \in Changing
    <3>1. /\ Exists(job[w].id) /\ purchase[job[w].id].status = job[w].old
          /\ job[w].old = "Cancelled" => job[w].next \in {"Draft", "Cancelled"}
          /\ Reactivates(w) => Fits(job[w].id, purchase[job[w].id].qty)
      BY <1>1, <2>2, <2>4 DEF Changes
    <3>2. job[w].old # "Cancelled" => job[w].id \in Active
      <4>1. purchase[job[w].id].status # "Absent"
        BY <1>1, <2>2, <3>1, RowTyped DEF Typed, Exists
      <4> QED
        BY <2>2, <3>1, <4>1 DEF Active, Counted
    <3>3. \/ job[w].next \in {"Cancelled", Keep}
          \/ job[w].id \in Active
          \/ Fits(job[w].id, purchase[job[w].id].qty)
      BY <3>1, <3>2 DEF Reactivates
    <3> QED
      BY <1>1, <2>2, <3>3, SetStatusBooks
  <2> QED
    BY <2>3, <2>4
<1>10. CASE ClearDrafts(w)
  <2>1. \A p \in Purchases : purchase'[p] = purchase[p] \/ purchase'[p] = Absent
    BY <1>10 DEF ClearDrafts
  <2>2. \A p \in Active' : purchase'[p] = purchase[p] /\ p \in Active
    <3> SUFFICES ASSUME NEW p \in Active'
                 PROVE  purchase'[p] = purchase[p] /\ p \in Active
      OBVIOUS
    <3>1. p \in Purchases /\ purchase'[p].status \notin {"Absent", "Cancelled"}
      BY DEF Active, Counted
    <3>2. purchase'[p] = purchase[p]
      BY <2>1, <3>1 DEF Absent
    <3> QED
      BY <3>1, <3>2 DEF Active, Counted
  <2>3. Total(Active)' <= Total(Active)
    BY <1>1, <2>2, BooksLess
  <2>4. PICK S : S = Active'
    OBVIOUS
  <2>5. Total(S)' = Total(S) /\ Total(S) \in Nat
    BY <1>1, <2>2, <2>4, BookedThen, TotalSame, TotalNat DEF Typed
  <2>6. Total(Active)' \in Nat
    BY <2>4, <2>5, BookedThen
  <2> QED
    BY <1>2, <2>3, <2>6
<1> QED
  BY <1>4, <1>5, <1>6, <1>7, <1>8, <1>9, <1>10

\* One request at a time, no step books more than the sales contract has, if update is not asked for a
\* status that revives a cancelled purchase contract (which it writes without a check).
THEOREM NoneOverbooks ==
  ASSUME NEW CONSTANT w, Workers = {w}, Patched \subseteq {"Cancelled"}
  PROVE  Spec => NeverOverbooks
<1>1. Init => Alone(w)
  BY InitAlone
<1>2. Alone(w) /\ [Next]_vars => Alone(w)'
  BY NextAlone
<1>3. Alone(w) /\ [Next]_vars => [Total(Active)' > Total(Active) => WithinSales']_vars
  BY NextBooks
<1> QED
  BY <1>1, <1>2, <1>3, PTL DEF Spec, NeverOverbooks

-----------------------------------------------------------------------------
(* The links and the queue *)

\* Each purchase contract is allocated the shipments after those of the ones before it.
LEMMA AllocationApart ==
  ASSUME TypeOK, NEW P \in SUBSET Purchases, NEW k \in Allocation(P), NEW l \in Allocation(P), k[2] = l[2]
  PROVE  k = l
<1> DEFINE Before(p) == {q \in P : q < p}
<1>1. /\ k \in P \X Shipments /\ l \in P \X Shipments
      /\ Total(Before(k[1])) < k[2] /\ k[2] <= Total(Before(k[1])) + purchase[k[1]].qty
      /\ Total(Before(l[1])) < l[2] /\ l[2] <= Total(Before(l[1])) + purchase[l[1]].qty
  BY DEF Allocation
<1>2. ASSUME NEW a \in P, NEW b \in P, a < b
      PROVE  Total(Before(a)) + purchase[a].qty <= Total(Before(b))
  <2>0. \A q \in P : q \in Nat
    BY PurchasesFinite
  <2>1. Before(a) \in SUBSET Purchases /\ a \in Purchases \ Before(a)
    BY <2>0
  <2>2. Before(b) \in SUBSET Purchases /\ Before(a) \union {a} \in SUBSET Before(b)
    <3>1. \A q \in Before(a) \union {a} : q \in Before(b)
      BY <1>2, <2>0
    <3> QED
      BY <3>1
  <2> HIDE DEF Before
  <2>3. Total(Before(a) \union {a}) = purchase[a].qty + Total(Before(a))
    BY <2>1, TotalAdd
  <2>4. Total(Before(a) \union {a}) <= Total(Before(b))
    BY <2>2, TotalNat
  <2>5. Total(Before(a)) \in Nat /\ purchase[a].qty \in Nat
    BY <2>1, TotalNat, RowTyped
  <2> QED
    BY <2>3, <2>4, <2>5
<1>3. \A a \in P : Total(Before(a)) \in Nat /\ purchase[a].qty \in Nat
  <2> SUFFICES ASSUME NEW a \in P
               PROVE  Total(Before(a)) \in Nat /\ purchase[a].qty \in Nat
    OBVIOUS
  <2>1. Before(a) \in SUBSET Purchases
    OBVIOUS
  <2> HIDE DEF Before
  <2> QED
    BY <2>1, TotalNat, RowTyped
<1>4. k[1] \in P /\ l[1] \in P /\ k[1] \in Int /\ l[1] \in Int /\ k[2] \in Int /\ l[2] \in Int
  <2>1. k[1] \in P /\ l[1] \in P /\ k[2] \in Shipments /\ l[2] \in Shipments
    BY DEF Allocation
  <2>2. \A s \in Shipments : s \in Int
    BY PurchaseAssumption DEF Shipments
  <2>3. \A p \in P : p \in Int
    BY PurchasesFinite
  <2> HIDE DEF Before
  <2> QED
    BY <2>1, <2>2, <2>3
<1> HIDE DEF Before
<1>5. ~(k[1] < l[1])
  <2> SUFFICES ASSUME k[1] < l[1]
               PROVE  FALSE
    OBVIOUS
  <2>1. Total(Before(k[1])) + purchase[k[1]].qty <= Total(Before(l[1]))
    BY <1>2, <1>4
  <2> QED
    BY <1>1, <1>3, <1>4, <2>1
<1>6. ~(l[1] < k[1])
  <2> SUFFICES ASSUME l[1] < k[1]
               PROVE  FALSE
    OBVIOUS
  <2>1. Total(Before(l[1])) + purchase[l[1]].qty <= Total(Before(k[1]))
    BY <1>2, <1>4
  <2> QED
    BY <1>1, <1>3, <1>4, <2>1
<1>7. k[1] = l[1]
  BY <1>4, <1>5, <1>6
<1> QED
  BY <1>1, <1>7

\* A step that adds no link and no record, and takes no purchase contract with links out of the count
LEMMA PlainLinked ==
  ASSUME NEW w \in Workers, Linked(w), links' \subseteq links, queue' = queue,
         \A l \in links' : Counted(purchase'[l[1]]),
         pc'[w] \notin {"destroy", "dated", "commit", "enqueue", "link"}
  PROVE  Linked(w)'
<1>1. NoOverlap'
  BY DEF Linked, NoOverlap
<1>2. LinksCount'
  BY DEF LinksCount
<1>3. QueueOnce(w)'
  BY DEF Linked, QueueOnce, OneQueueRecord
<1> QED
  BY <1>1, <1>2, <1>3 DEF Linked, Planned, LinksFirst

\* The same for a step to a label
LEMMA PlainGoto ==
  ASSUME NEW w \in Workers, Typed, Linked(w), NEW label, NEW j, Goto(w, label, j), UNCHANGED <<links, queue>>,
         \A p \in Purchases : Counted(purchase[p]) => Counted(purchase'[p]),
         label \notin {"destroy", "dated", "commit", "enqueue", "link"}
  PROVE  Linked(w)'
<1>1. pc'[w] = label
  BY Went
<1>2. \A l \in links' : Counted(purchase'[l[1]])
  BY DEF Linked, LinksCount, Typed, TypeOK
<1> QED
  BY <1>1, <1>2, PlainLinked

\* Requests, as they begin
LEMMA RequestLinked ==
  ASSUME NEW w \in Workers, Typed, Linked(w), Request(w)
  PROVE  Linked(w)'
<1>1. ASSUME NEW label \in {"ensure", "save", "begin"}, NEW j, Start(w, label, j),
             UNCHANGED <<purchase, links, queue>>
      PROVE  Linked(w)'
  BY <1>1, PlainGoto DEF Start
<1>2. ASSUME NEW s, NEW status, SaveShipment(w, s, status)
      PROVE  Linked(w)'
  BY <1>1, <1>2 DEF SaveShipment
<1>3. CASE StuffingComplete(w)
  BY <1>1, <1>3 DEF StuffingComplete, data
<1>4. ASSUME NEW S, NEW h, Create(w, S, h)
      PROVE  Linked(w)'
  BY <1>1, <1>4 DEF Create, data
<1>5. ASSUME NEW p, NEW q, NEW status, Update(w, p, q, status)
      PROVE  Linked(w)'
  BY <1>1, <1>5 DEF Update, data
<1>6. ASSUME NEW p, NEW status, UpdateStatus(w, p, status)
      PROVE  Linked(w)'
  BY <1>1, <1>6 DEF UpdateStatus, data
<1>7. ASSUME NEW p, Remove(w, p)
      PROVE  Linked(w)'
  BY <1>1, <1>7 DEF Remove, data
<1>8. CASE ClearDrafts(w)
  <2>1. /\ links' \subseteq links /\ queue' = queue /\ pc[w] = "idle" /\ pc' = pc
        /\ \A l \in links' : l[1] \in Purchases => purchase'[l[1]] = purchase[l[1]]
    BY <1>8 DEF ClearDrafts
  <2>2. \A l \in links' : Counted(purchase'[l[1]])
    BY <2>1 DEF Linked, LinksCount, Typed, TypeOK
  <2> QED
    BY <2>1, <2>2, PlainLinked
<1> QED
  BY <1>2, <1>3, <1>4, <1>5, <1>6, <1>7, <1>8 DEF Request

\* The steps of ensureExists and create
LEMMA CreateLinked ==
  ASSUME NEW w \in Workers, Alone(w), Linked(w),
         \/ Ensure(w) \/ TopUp(w) \/ InsertPurchase(w) \/ LinkShipments(w) \/ MarkExecuted(w)
         \/ WriteHeader(w) \/ OutOfIds(w)
  PROVE  Linked(w)'
<1>1. Typed /\ job[w] \in Jobs /\ Named(w) /\ Reads(w)
  BY JobTyped DEF Alone, Typed
<1>2. CASE Ensure(w)
  <2>1. UNCHANGED <<purchase, links, queue>>
    BY <1>2 DEF Ensure, data
  <2>2. PICK label \in {"insert", "topup", "mark"} : \E j : Goto(w, label, j)
    BY <1>2 DEF Ensure
  <2> QED
    BY <1>1, <2>1, <2>2, PlainGoto
<1>3. CASE TopUp(w)
  <2>1. \E j : Goto(w, "mark", j)
    BY <1>3 DEF TopUp
  <2>2. job[w].qty \in Nat /\ SetQuantity(job[w].id, job[w].qty) /\ UNCHANGED <<links, queue>>
    BY <1>1, <1>3 DEF TopUp, Named
  <2>3. \A r \in Purchases : \/ purchase'[r] = purchase[r]
                             \/ purchase'[r] = [status |-> purchase[r].status, qty |-> job[w].qty]
    BY <1>1, <2>2, SetQuantityTyped
  <2>4. \A p \in Purchases : Counted(purchase[p]) => Counted(purchase'[p])
    <3> SUFFICES ASSUME NEW p \in Purchases
                 PROVE  purchase'[p].status = purchase[p].status
      BY DEF Counted
    <3>1. \/ purchase'[p] = purchase[p]
          \/ purchase'[p] = [status |-> purchase[p].status, qty |-> job[w].qty]
      BY <2>3
    <3> QED
      BY <3>1
  <2> QED
    BY <1>1, <2>1, <2>2, <2>4, PlainGoto
<1>4. CASE InsertPurchase(w)
  <2>1. PICK n \in Purchases : n = lastId + 1
    BY <1>1, <1>4, PurchaseAssumption DEF InsertPurchase, Purchases, Typed, TypeOK
  <2>2. /\ purchase'[n].status = "Draft" /\ \A r \in Purchases \ {n} : purchase'[r] = purchase[r]
        /\ UNCHANGED <<links, queue>> /\ Active = {}
    <3>1. purchase' = [purchase EXCEPT ![n] = [status |-> "Draft", qty |-> job[w].qty]]
      BY <1>4, <2>1 DEF InsertPurchase
    <3>2. purchase'[n] = [status |-> "Draft", qty |-> job[w].qty] /\ \A r \in Purchases \ {n} : purchase'[r] = purchase[r]
      BY <1>1, <3>1 DEF Typed, TypeOK
    <3> QED
      BY <1>1, <1>4, <3>2 DEF InsertPurchase, Reads
  <2>3. links = {}
    BY <1>1, <2>2 DEF Linked, LinksCount, Active, Typed, TypeOK
  <2>4. CASE job[w].ships # {}
    <3> DEFINE j == [job[w] EXCEPT !.id = lastId + 1, !.qty = Keep]
    <3>1. j.id = n /\ Goto(w, "link", j)
      BY <1>1, <1>4, <2>1, <2>4 DEF InsertPurchase, Jobs
    <3> HIDE DEF j
    <3>2. pc'[w] = "link" /\ job'[w] = j
      BY <1>1, <3>1, Went
    <3>3. NoOverlap' /\ LinksCount'
      BY <2>2, <2>3 DEF NoOverlap, LinksCount
    <3>4. Planned(w)' /\ QueueOnce(w)'
      BY <2>2, <3>2 DEF Planned, QueueOnce, Linked, OneQueueRecord
    <3>5. LinksFirst(w)'
      BY <2>2, <2>3, <3>1, <3>2 DEF LinksFirst, Counted
    <3> QED
      BY <3>3, <3>4, <3>5 DEF Linked
  <2>5. CASE job[w].ships = {}
    <3>1. \E j : Goto(w, "read", j)
      BY <1>4, <2>5 DEF InsertPurchase
    <3>2. \A p \in Purchases : Counted(purchase[p]) => Counted(purchase'[p])
      BY <2>2 DEF Counted
    <3> QED
      BY <1>1, <2>2, <3>1, <3>2, PlainGoto
  <2> QED
    BY <2>4, <2>5
<1>5. CASE LinkShipments(w)
  <2>1. links = {} /\ Counted(purchase[job[w].id]) /\ pc[w] = "link"
    BY <1>5 DEF LinkShipments, Linked, LinksFirst
  <2>2. pc'[w] = "mark"
    BY <1>1, <1>5, Went DEF LinkShipments
  <2>3. links' = {job[w].id} \X job[w].ships /\ UNCHANGED <<purchase, queue>>
    BY <1>5, <2>1 DEF LinkShipments
  <2>4. NoOverlap' /\ LinksCount'
    BY <2>1, <2>3 DEF NoOverlap, LinksCount
  <2>5. Planned(w)' /\ QueueOnce(w)' /\ LinksFirst(w)'
    BY <2>2, <2>3 DEF Planned, QueueOnce, Linked, OneQueueRecord, LinksFirst
  <2> QED
    BY <2>4, <2>5 DEF Linked
<1>6. CASE MarkExecuted(w)
  <2>1. \E label \in {"header", "idle"} : \E j : Goto(w, label, j)
    BY <1>6 DEF MarkExecuted, End
  <2>2. UNCHANGED <<purchase, links, queue>>
    BY <1>6 DEF MarkExecuted
  <2> QED
    BY <1>1, <2>1, <2>2, PlainGoto
<1>7. CASE WriteHeader(w)
  <2>1. \E j : Goto(w, "read", j)
    BY <1>7 DEF WriteHeader
  <2>2. UNCHANGED <<purchase, links, queue>>
    BY <1>7 DEF WriteHeader
  <2> QED
    BY <1>1, <2>1, <2>2, PlainGoto
<1>8. CASE OutOfIds(w)
  BY <1>1, <1>8, PlainGoto DEF OutOfIds, End, data
<1> QED
  BY <1>2, <1>3, <1>4, <1>5, <1>6, <1>7, <1>8

\* A status that does not cancel keeps every purchase contract that counts.
LEMMA StatusCounts ==
  ASSUME Typed, NEW w \in Workers, SetStatus(w), job[w].next # "Cancelled"
  PROVE  \A p \in Purchases : Counted(purchase[p]) => Counted(purchase'[p])
<1> SUFFICES ASSUME NEW p \in Purchases, Counted(purchase[p])
             PROVE  Counted(purchase'[p])
  OBVIOUS
<1>1. \/ purchase'[p] = [status |-> job[w].next, qty |-> purchase[p].qty] /\ job[w].next # Keep
      \/ purchase'[p] = purchase[p]
  BY SetStatusTyped
<1>2. CASE purchase'[p] = purchase[p]
  BY <1>2
<1>3. CASE purchase'[p] = [status |-> job[w].next, qty |-> purchase[p].qty] /\ job[w].next # Keep
  <2>1. job[w].next \in Statuses
    BY <1>3, JobTyped DEF Jobs
  <2>2. purchase'[p].status = job[w].next
    BY <1>3
  <2> QED
    BY <2>1, <2>2 DEF Counted, Statuses
<1> QED
  BY <1>1, <1>2, <1>3

\* What a transaction sees is what its commit makes visible.
LEMMA CommitShows ==
  ASSUME NEW w \in Workers, Alone(w), Commit(w), NEW p \in Purchases
  PROVE  Counted(View(w, p)) => Counted(purchase'[p])
<1> DEFINE j == job[w]
<1>1. /\ Typed /\ Holding(w) /\ Changes(w) /\ pc[w] = "commit" /\ w # None /\ j \in Jobs
      /\ purchase[p] \in [status : Statuses, qty : Nat] \union {Absent}
  BY JobTyped, PurchaseAssumption DEF Alone, Commit, Typed, TypeOK
<1>2. CASE \A r \in Purchases : holder[r] # w
  BY <1>2 DEF Commit, View
<1>3. CASE \E r \in Purchases : holder[r] = w
  <2>1. SetStatus(w) /\ holder[j.id] = w /\ j.id \in Purchases
    BY <1>1, <1>3 DEF Commit, Holding
  <2>2. IF p = j.id /\ purchase[p] # Absent /\ j.next \notin {Keep, j.old}
        THEN purchase'[p] = [status |-> j.next, qty |-> purchase[p].qty]
        ELSE purchase'[p] = purchase[p]
    BY <1>1, <2>1, SetStatusTyped
  <2>3. CASE p # j.id \/ purchase[p] = Absent \/ j.next = Keep
    <3>1. View(w, p) = purchase[p]
      BY <1>1, <2>3 DEF View, Holding
    <3> QED
      BY <2>2, <2>3, <3>1
  <2>4. CASE p = j.id /\ purchase[p] # Absent /\ j.next # Keep
    <3>1. View(w, p) = [purchase[p] EXCEPT !.status = j.next]
      BY <2>1, <2>4 DEF View
    <3>2. View(w, p).status = j.next
      BY <1>1, <2>4, <3>1
    <3>3. purchase'[p].status = j.next
      <4>1. CASE j.next = j.old
        BY <1>1, <2>1, <2>2, <2>4, <4>1 DEF Changes
      <4>2. CASE j.next # j.old
        BY <2>2, <2>4, <4>2
      <4> QED
        BY <4>1, <4>2
    <3> QED
      BY <3>2, <3>3 DEF Counted
  <2> QED
    BY <2>3, <2>4
<1> QED
  BY <1>2, <1>3

\* The steps of updates, status changes and reallocations
LEMMA ReallocateLinked ==
  ASSUME NEW w \in Workers, Alone(w), Linked(w), "Cancelled" \notin Patched,
         \/ SaveQuantity(w) \/ WriteStatus(w) \/ Begin(w) \/ ReadAllocation(w) \/ DestroyLinks(w)
         \/ WriteDate(w) \/ Commit(w)
  PROVE  Linked(w)'
<1>1. Typed /\ job[w] \in Jobs /\ Named(w) /\ Kinds(w) /\ Changes(w)
  BY JobTyped DEF Alone, Typed
<1>2. CASE SaveQuantity(w)
  <2>1. \E j : Goto(w, "read", j)
    BY <1>2 DEF SaveQuantity
  <2>2. UNCHANGED <<links, queue>>
    BY <1>2 DEF SaveQuantity
  <2>3. \A p \in Purchases : Counted(purchase[p]) => Counted(purchase'[p])
    <3>1. CASE Requested(w)
      <4>1. job[w].qty \in Nat /\ SetQuantity(job[w].id, job[w].qty)
        BY <1>1, <1>2, <3>1 DEF SaveQuantity, Requested, Jobs
      <4>2. \A r \in Purchases : \/ purchase'[r] = purchase[r]
                                 \/ purchase'[r] = [status |-> purchase[r].status, qty |-> job[w].qty]
        BY <1>1, <4>1, SetQuantityTyped
      <4> SUFFICES ASSUME NEW p \in Purchases
                   PROVE  purchase'[p].status = purchase[p].status
        BY DEF Counted
      <4>3. \/ purchase'[p] = purchase[p]
            \/ purchase'[p] = [status |-> purchase[p].status, qty |-> job[w].qty]
        BY <4>2
      <4> QED
        BY <4>3
    <3>2. CASE ~Requested(w)
      BY <1>2, <3>2 DEF SaveQuantity
    <3> QED
      BY <3>1, <3>2
  <2> QED
    BY <1>1, <2>1, <2>2, <2>3, PlainGoto
<1>3. CASE WriteStatus(w)
  <2>1. \E j : Goto(w, "queue", j)
    BY <1>3 DEF WriteStatus
  <2>2. SetStatus(w) /\ UNCHANGED <<links, queue>> /\ job[w].next # "Cancelled"
    BY <1>1, <1>3, PurchaseAssumption DEF WriteStatus, Kinds, Statuses
  <2>3. \A p \in Purchases : Counted(purchase[p]) => Counted(purchase'[p])
    BY <1>1, <2>2, StatusCounts
  <2> QED
    BY <1>1, <2>1, <2>2, <2>3, PlainGoto
<1>4. CASE Begin(w)
  <2>1. UNCHANGED <<purchase, links, queue>>
    BY <1>4 DEF Begin
  <2>2. CASE Goto(w, "read", job[w])
    BY <1>1, <2>1, <2>2, PlainGoto
  <2>3. CASE Goto(w, "commit", job[w]) /\ job[w].next # "Cancelled"
    <3>1. pc'[w] = "commit" /\ job'[w] = job[w] /\ job[w].alloc = {} /\ job[w].dead = {}
      BY <1>1, <1>4, <2>3, Went DEF Kinds, Begin
    <3>2. Planned(w)'
      BY <2>3, <3>1 DEF Planned
    <3>3. NoOverlap' /\ LinksCount' /\ QueueOnce(w)' /\ LinksFirst(w)'
      BY <2>1, <3>1 DEF Linked, NoOverlap, LinksCount, Counted, QueueOnce, OneQueueRecord, LinksFirst
    <3> QED
      BY <3>2, <3>3 DEF Linked
  <2> QED
    BY <1>4, <2>2, <2>3 DEF Begin
<1>5. CASE ReadAllocation(w) \/ DestroyLinks(w) \/ WriteDate(w)
  <2>1. UNCHANGED data
    BY <1>5 DEF ReadAllocation, DestroyLinks, WriteDate
  <2>2. pc'[w] \in {"destroy", "dated", "commit"} /\ job'[w].next = job[w].next
    <3>1. CASE ReadAllocation(w)
      BY <1>1, <3>1, Went DEF ReadAllocation, Jobs
    <3>2. CASE DestroyLinks(w)
      BY <1>1, <3>2, Went DEF DestroyLinks, Jobs
    <3>3. CASE WriteDate(w)
      BY <1>1, <3>3, Went DEF WriteDate, Jobs
    <3> QED
      BY <1>5, <3>1, <3>2, <3>3
  <2>3. \A p \in Purchases : View(w, p)' = View(w, p)
    BY <2>1, <2>2 DEF View, data
  <2>4. /\ \A k, l \in job'[w].alloc : k[2] = l[2] => k = l
        /\ \A l \in job'[w].alloc : l[1] \in Purchases /\ Counted(View(w, l[1]))
        /\ pc'[w] # "destroy" => job'[w].dead = links
    <3>1. CASE ReadAllocation(w)
      <4>1. pc'[w] = "destroy" /\ job'[w] = [job[w] EXCEPT !.alloc = Allocation(ActiveFor(w))]
        BY <1>1, <3>1, Went DEF ReadAllocation
      <4>2. job'[w].alloc = Allocation(ActiveFor(w))
        BY <1>1, <4>1 DEF Jobs
      <4>3. PICK P \in SUBSET Purchases : P = ActiveFor(w)
        BY DEF ActiveFor
      <4>4. \A k, l \in Allocation(P) : k[2] = l[2] => k = l
        BY <1>1, AllocationApart DEF Typed
      <4>5. \A l \in Allocation(P) : l[1] \in P
        BY DEF Allocation
      <4>6. \A p \in P : p \in Purchases /\ Counted(View(w, p))
        BY <4>3 DEF ActiveFor
      <4> QED
        BY <4>1, <4>2, <4>3, <4>4, <4>5, <4>6
    <3>2. CASE DestroyLinks(w)
      <4>1. job'[w] = [job[w] EXCEPT !.dead = links] /\ pc[w] = "destroy"
        BY <1>1, <3>2, Went DEF DestroyLinks
      <4>2. job'[w].dead = links /\ job'[w].alloc = job[w].alloc /\ job[w].alloc \subseteq Purchases \X Shipments
        BY <1>1, <4>1 DEF Jobs
      <4>3. Planned(w)
        BY DEF Linked
      <4> QED
        BY <4>1, <4>2, <4>3 DEF Planned
    <3>3. CASE WriteDate(w)
      <4>1. job'[w] = [job[w] EXCEPT !.header = <<FALSE, FALSE>>] /\ pc[w] = "dated"
        BY <1>1, <3>3, Went DEF WriteDate
      <4>2. job'[w].dead = job[w].dead /\ job'[w].alloc = job[w].alloc /\ job[w].alloc \subseteq Purchases \X Shipments
        BY <1>1, <4>1 DEF Jobs
      <4>3. Planned(w)
        BY DEF Linked
      <4> QED
        BY <4>1, <4>2, <4>3 DEF Planned
    <3> QED
      BY <1>5, <3>1, <3>2, <3>3
  <2>5. \A l \in job'[w].alloc : Counted(View(w, l[1]))'
    <3> SUFFICES ASSUME NEW l, l \in job'[w].alloc
                 PROVE  Counted(View(w, l[1])')
      BY DEF Counted
    <3>1. PICK p \in Purchases : p = l[1]
      BY <2>4
    <3>2. Counted(View(w, p))
      BY <2>4, <3>1
    <3> QED
      BY <2>3, <3>1, <3>2
  <2>6. Planned(w)'
    BY <2>1, <2>4, <2>5 DEF Planned, data
  <2>7. NoOverlap' /\ LinksCount' /\ QueueOnce(w)' /\ LinksFirst(w)'
    BY <2>1, <2>2 DEF data, Linked, NoOverlap, LinksCount, Counted, QueueOnce, OneQueueRecord, LinksFirst
  <2> QED
    BY <2>6, <2>7 DEF Linked
<1>6. CASE Commit(w)
  <2>1. pc'[w] \notin {"destroy", "dated", "commit", "enqueue", "link"}
    <3>1. CASE job[w].after \in {"idle", "queue"}
      BY <1>1, <1>6, <3>1, Went DEF Commit, End
    <3>2. CASE job[w].after \notin {"idle", "queue"}
      <4>1. pc'[w] = job[w].after
        BY <1>1, <1>6, <3>2, Went DEF Commit
      <4> QED
        BY <1>1, <4>1 DEF Jobs
    <3> QED
      BY <3>1, <3>2
  <2>2. queue' = queue /\ links' = (links \ job[w].dead) \union job[w].alloc
    BY <1>6 DEF Commit
  <2>3. CASE job[w].alloc = {} /\ job[w].dead = {} /\ job[w].next # "Cancelled"
    <3>1. links' = links
      BY <2>2, <2>3
    <3>2. \A p \in Purchases : Counted(purchase[p]) => Counted(purchase'[p])
      <4>1. CASE SetStatus(w)
        BY <1>1, <2>3, <4>1, StatusCounts
      <4> QED
        BY <1>6, <4>1 DEF Commit
    <3>3. \A l \in links' : Counted(purchase'[l[1]])
      BY <1>1, <3>1, <3>2 DEF Linked, LinksCount, Typed, TypeOK
    <3> QED
      BY <2>1, <2>2, <3>1, <3>3, PlainLinked
  <2>4. CASE /\ \A k, l \in job[w].alloc : k[2] = l[2] => k = l
             /\ \A l \in job[w].alloc : Counted(View(w, l[1]))
             /\ job[w].dead = links
    <3>1. links' = job[w].alloc
      BY <2>2, <2>4
    <3>2. NoOverlap'
      BY <2>4, <3>1 DEF NoOverlap
    <3>3. LinksCount'
      <4> SUFFICES ASSUME NEW l \in links'
                   PROVE  Counted(purchase'[l[1]])
        BY DEF LinksCount, Counted
      <4>1. PICK p \in Purchases : p = l[1]
        BY <1>1, <3>1 DEF Jobs
      <4>2. Counted(View(w, p))
        BY <2>4, <3>1, <4>1
      <4> QED
        BY <1>6, <4>1, <4>2, CommitShows
    <3>4. Planned(w)' /\ QueueOnce(w)' /\ LinksFirst(w)'
      BY <2>1, <2>2 DEF Planned, Linked, QueueOnce, OneQueueRecord, LinksFirst
    <3> QED
      BY <3>2, <3>3, <3>4 DEF Linked
  <2> QED
    BY <1>6, <2>3, <2>4 DEF Linked, Planned, Commit
<1> QED
  BY <1>2, <1>3, <1>4, <1>5, <1>6

\* The queue, and requests that end early
LEMMA QueueLinked ==
  ASSUME NEW w \in Workers, Alone(w), Linked(w),
         LookUpQueue(w) \/ Enqueue(w) \/ Throw(w) \/ Crash(w) \/ OtherServices(w)
  PROVE  Linked(w)'
<1>1. Typed /\ Named(w) /\ queue \in Seq(Purchases) /\ QueueOnce(w)
  BY DEF Alone, Typed, TypeOK, Linked
<1>2. CASE Throw(w) \/ Crash(w)
  <2>1. Fail(w)
    BY <1>2 DEF Throw, Crash
  <2> QED
    BY <1>1, <2>1, PlainGoto DEF Fail, End
<1>3. CASE OtherServices(w)
  <2>1. pc[w] = "idle" /\ UNCHANGED <<pc, purchase, links, queue>>
    BY <1>3 DEF OtherServices, SetSalesQuantity, SetShipmentStatus
  <2>2. \A l \in links' : Counted(purchase'[l[1]])
    BY <2>1 DEF Linked, LinksCount
  <2> QED
    BY <2>1, <2>2, PlainLinked
<1>4. CASE LookUpQueue(w)
  <2>1. UNCHANGED <<purchase, links>> /\ pc[w] = "queue"
    BY <1>4 DEF LookUpQueue
  <2>2. NoOverlap' /\ LinksCount'
    BY <2>1 DEF Linked, NoOverlap, LinksCount, Counted
  <2>3. CASE End(w) /\ UNCHANGED queue
    BY <1>1, <2>1, <2>3, PlainGoto DEF End
  <2>4. CASE Goto(w, "enqueue", job[w]) /\ UNCHANGED queue /\ Found(job[w].id) = {}
    <3>1. pc'[w] = "enqueue" /\ job'[w] = job[w]
      BY <1>1, <2>4, Went
    <3>2. QueueOnce(w)'
      BY <1>1, <2>4, <3>1 DEF QueueOnce, OneQueueRecord, Found
    <3> QED
      BY <2>2, <3>1, <3>2 DEF Linked, Planned, LinksFirst
  <2>5. CASE End(w) /\ \E i \in Found(job[w].id) : queue' = [queue EXCEPT ![i] = job[w].id]
    <3>1. PICK i \in Found(job[w].id) : queue' = [queue EXCEPT ![i] = job[w].id]
      BY <2>5
    <3>2. pc'[w] = "idle"
      BY <1>1, <2>5, Went DEF End
    <3>3. DOMAIN queue' = DOMAIN queue /\ Len(queue') = Len(queue)
      BY <1>1, <3>1
    <3>4. OneQueueRecord'
      <4>1. CASE FromEnquiry
        <5>1. Len(queue) \in Nat /\ Len(queue) <= 1 /\ DOMAIN queue = 1..Len(queue)
          BY <1>1, <4>1 DEF QueueOnce
        <5>2. \A a, b \in DOMAIN queue : a = b
          BY <5>1
        <5> QED
          BY <3>3, <5>2 DEF OneQueueRecord
      <4>2. CASE ~FromEnquiry
        <5>1. queue[i] = job[w].id /\ i \in DOMAIN queue
          BY <3>1, <4>2 DEF Found
        <5>2. queue' = queue
          BY <1>1, <3>1, <5>1
        <5> QED
          BY <1>1, <5>2 DEF QueueOnce, OneQueueRecord
      <4> QED
        BY <4>1, <4>2
    <3>5. QueueOnce(w)'
      BY <1>1, <3>2, <3>3, <3>4 DEF QueueOnce
    <3> QED
      BY <2>2, <3>2, <3>5 DEF Linked, Planned, LinksFirst
  <2> QED
    BY <1>4, <2>3, <2>4, <2>5 DEF LookUpQueue
<1>5. CASE Enqueue(w)
  <2>1. /\ UNCHANGED <<purchase, links>> /\ queue' = Append(queue, job[w].id) /\ job[w].id \in Purchases
        /\ Found(job[w].id) = {}
    BY <1>1, <1>5 DEF Enqueue, Named, QueueOnce
  <2>2. pc'[w] = "idle"
    BY <1>1, <1>5, Went DEF Enqueue, End
  <2>3. NoOverlap' /\ LinksCount'
    BY <2>1 DEF Linked, NoOverlap, LinksCount, Counted
  <2>4. /\ Len(queue') = Len(queue) + 1 /\ DOMAIN queue' = 1..(Len(queue) + 1) /\ Len(queue) \in Nat
        /\ DOMAIN queue = 1..Len(queue)
        /\ queue'[Len(queue) + 1] = job[w].id
        /\ \A i \in 1..Len(queue) : queue'[i] = queue[i]
    BY <1>1, <2>1
  <2>5. FromEnquiry => Len(queue) = 0
    <3> SUFFICES ASSUME FromEnquiry, Len(queue) # 0
                 PROVE  FALSE
      BY <2>4
    <3>1. 1 \in DOMAIN queue
      BY <2>4
    <3> QED
      BY <2>1, <3>1 DEF Found
  <2>6. \A i \in DOMAIN queue : queue[i] # job[w].id
    BY <2>1 DEF Found
  <2>7. OneQueueRecord'
    <3> SUFFICES ASSUME NEW i \in 1..(Len(queue) + 1), NEW k \in 1..(Len(queue) + 1), queue'[i] = queue'[k]
                 PROVE  i = k
      BY <2>4 DEF OneQueueRecord
    <3>1. CASE i \in DOMAIN queue /\ k \in DOMAIN queue
      BY <1>1, <2>4, <3>1 DEF QueueOnce, OneQueueRecord
    <3>2. i \in DOMAIN queue \/ i = Len(queue) + 1
      BY <2>4
    <3>3. k \in DOMAIN queue \/ k = Len(queue) + 1
      BY <2>4
    <3> QED
      BY <2>4, <2>6, <3>1, <3>2, <3>3
  <2>8. QueueOnce(w)'
    BY <2>2, <2>4, <2>5, <2>7 DEF QueueOnce
  <2> QED
    BY <2>2, <2>3, <2>8 DEF Linked, Planned, LinksFirst
<1> QED
  BY <1>2, <1>3, <1>4, <1>5

\* The records stay sound after each step, when no other request is under way.
LEMMA NextLinked ==
  ASSUME NEW w, Workers = {w}, "Cancelled" \notin Patched
  PROVE  Alone(w) /\ Linked(w) /\ [Next]_vars => Linked(w)'
<1> SUFFICES ASSUME Alone(w), Linked(w), [Next]_vars
             PROVE  Linked(w)'
  OBVIOUS
<1>1. w \in Workers
  OBVIOUS
<1>2. CASE UNCHANGED vars
  <2>1. NoOverlap' /\ LinksCount' /\ QueueOnce(w)' /\ LinksFirst(w)'
    BY <1>2 DEF vars, Linked, NoOverlap, LinksCount, Counted, QueueOnce, OneQueueRecord, LinksFirst, Found
  <2>2. Planned(w)'
    BY <1>2 DEF vars, Linked, Planned, View, Counted
  <2> QED
    BY <2>1, <2>2 DEF Linked
<1>3. CASE Next
  <2>1. OtherServices(w) \/ Request(w) \/ Proceed(w) \/ Crash(w)
    BY <1>3 DEF Next
  <2>2. CASE Request(w)
    BY <1>1, <2>2, RequestLinked DEF Alone
  <2>3. CASE Proceed(w)
    BY <1>1, <2>3, CreateLinked, ReallocateLinked, QueueLinked DEF Proceed
  <2> QED
    BY <1>1, <2>1, <2>2, <2>3, QueueLinked
<1> QED
  BY <1>2, <1>3

\* One request at a time, crashes included: every shipment belongs to one purchase contract at most, a
\* cancelled one holds none, and the queue has no duplicate; if update is not asked to cancel, which it
\* does without touching the shipments.
THEOREM Records ==
  ASSUME NEW CONSTANT w, Workers = {w}, "Cancelled" \notin Patched
  PROVE  Spec => []RecordsSound
<1> DEFINE IInv == Alone(w) /\ Linked(w)
<1>1. Init => IInv
  <2> SUFFICES ASSUME Init
               PROVE  IInv
    OBVIOUS
  <2>1. links = {} /\ queue = <<>> /\ pc[w] = "idle"
    BY DEF Init
  <2>2. Linked(w)
    BY <2>1 DEF Linked, NoOverlap, LinksCount, Planned, QueueOnce, OneQueueRecord, LinksFirst
  <2> QED
    BY <2>2, InitAlone
<1>2. IInv /\ [Next]_vars => IInv'
  BY NextAlone, NextLinked
<1>3. IInv => RecordsSound
  <2> SUFFICES ASSUME IInv
               PROVE  RecordsSound
    OBVIOUS
  <2>1. TypeOK /\ NoOverlap /\ OneQueueRecord
    BY DEF Alone, Typed, Linked, QueueOnce
  <2>2. CancelledHoldsNothing
    BY DEF Linked, LinksCount, CancelledHoldsNothing, Counted
  <2> QED
    BY <2>1, <2>2 DEF RecordsSound
<1> HIDE DEF IInv
<1> QED
  BY <1>1, <1>2, <1>3, PTL DEF Spec
=============================================================================
