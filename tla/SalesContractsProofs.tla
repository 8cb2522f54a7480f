------------------------- MODULE SalesContractsProofs -------------------------
(***************************************************************************)
(* Proofs about SalesContracts, for any contracts, sellers, numbers users  *)
(* type and request handlers.                                              *)
(*                                                                         *)
(* Inv is the inductive invariant: every contract's number was typed or    *)
(* generated for its own seller (Booked), no two are equal (Distinct), and *)
(* a create that is about to insert holds the locks of the rows its number *)
(* was computed from (Issues).  SerialInv adds what a request that runs    *)
(* alone may rely on: those rows are all of the seller's.                  *)
(***************************************************************************)
EXTENDS MCSalesContracts, SetLemmas

-----------------------------------------------------------------------------
(* The inductive invariant *)

\* What a create carries, before and after its number is generated.
NewRows == [status: Statuses, number: Numbers \union {None}, enquiry: Enquiries \union {None},
            seller: Sellers, buyer: Buyers]

Creates == [op: {"create"}, id: Contracts, seen: SUBSET Contracts, row: NewRows]

\* What a request to an existing contract carries.
News == [status: Statuses \union {Keep}, number: Typed \union {Keep},
         enquiry: Enquiries \union {None, Keep}, seller: Sellers \union {Keep},
         buyer: Buyers \union {Keep}]

Edits == [op: {"update", "status", "remove"}, id: Contracts, was: Rows, new: News]

Creating(w) == pc[w] \in {"check", "snapshot", "lock", "insert"}

Types ==
  /\ contract \in [Contracts -> Rows \union {Absent}]
  /\ issued \subseteq AutoSellers \X Nat
  /\ moved \subseteq Contracts
  /\ locked \in [Workers -> SUBSET Contracts]
  /\ pc \in [Workers -> Labels]
  /\ job \in [Workers -> {NoJob} \union Creates \union Edits]
  /\ \A w \in Workers :
       /\ pc[w] = "idle" => job[w] = NoJob
       /\ Creating(w) => job[w] \in Creates
       /\ pc[w] = "save" => job[w] \in Edits

\* A number generated for a seller.
Generated(n) ==
  /\ n.seller \in AutoSellers
  /\ n.spelling = "generated"
  /\ n.seller \notin Initialled => n.initial = None

Sourced(r) == r.number \in Typed \/ Generated(r.number)

\* Every number was typed or generated, for the seller the contract has unless it was moved,
\* and its sequence is kept in issued.
Booked ==
  /\ \A c \in moved : contract[c] # Absent
  /\ \A c \in Contracts : contract[c] # Absent =>
       /\ Sourced(contract[c]) /\ Carries(contract[c]) \subseteq issued
       /\ c \notin moved /\ contract[c].number \notin Typed => contract[c].number.seller = contract[c].seller

\* The unique index.
Distinct ==
  \A c, d \in Contracts : contract[c] # Absent /\ contract[d] # Absent /\ c # d =>
    contract[c].number # contract[d].number

\* A create has an id of its own, and has seen committed contracts of its seller.
Fresh(w) ==
  Creating(w) =>
    /\ contract[job[w].id] = Absent
    /\ \A v \in Workers : Creating(v) /\ v # w => job[v].id # job[w].id
    /\ \A c \in job[w].seen : contract[c] # Absent
    /\ \A c \in job[w].seen \ moved : contract[c].seller = job[w].row.seller
    /\ job[w].row.seller = None => job[w].row.number \in Typed
    /\ pc[w] \in {"snapshot", "lock"} => job[w].row.seller # None

\* A generated number exceeds those of the rows it was computed from, which are locked.
Follows(s, n) == n = InitialSequence[s] \/ <<s, n - 4>> \in issued

Issues(w) ==
  pc[w] = "insert" =>
    /\ job[w].row.number \in Numbers /\ Sourced(job[w].row)
    /\ job[w].row.seller # None =>
         /\ Generated(job[w].row.number) /\ job[w].row.number.seller = job[w].row.seller
         /\ job[w].seen \ moved \subseteq locked[w] /\ locked[w] \subseteq job[w].seen
         /\ Follows(job[w].row.seller, job[w].row.number.seq)
         /\ \A c \in locked[w] : contract[c].number.seller = job[w].row.seller
              => contract[c].number.seq < job[w].row.number.seq

\* A contract that is edited, or locked, exists.
Exists(w) == pc[w] = "save" => contract[job[w].id] # Absent

Held(w) == \A c \in locked[w] : contract[c] # Absent

Inv ==
  /\ Types /\ Booked /\ Distinct /\ NoSequenceSkipped
  /\ \A w \in Workers : Fresh(w) /\ Issues(w) /\ Exists(w) /\ Held(w)

-----------------------------------------------------------------------------
(* Rows and numbers *)

\* A row that exists is not the absent one.
LEMMA RowExists == \A r \in Rows : r # Absent
<1> SUFFICES ASSUME NEW r \in Rows, r = Absent
             PROVE  FALSE
  OBVIOUS
<1>1. r.status \in {"Draft", "Active", "Cancelled", "Closed"}
  BY DEF Rows, Statuses
<1>2. r.status = "Absent"
  BY DEF Absent
<1> QED
  BY <1>1, <1>2

\* The next sequence of a seller is the first one, or 4 more than one it has seen, and
\* exceeds all those it has seen.
LEMMA NextSequenceFollows ==
  ASSUME Inv, NEW s \in AutoSellers, NEW C \in SUBSET Contracts
  PROVE  /\ NextSequence(s, C) \in Nat
         /\ Follows(s, NextSequence(s, C))
         /\ \A c \in C : contract[c] # Absent /\ contract[c].number.seller = s
              => contract[c].number.seq < NextSequence(s, C)
<1> DEFINE D == {d \in C \intersect Numbered : contract[d].number.seller = s}
           Q == Sequences(s, C)
<1>0. InitialSequence \in [AutoSellers -> Nat \ {0}] /\ IsFiniteSet(Contracts) /\ s # None
  BY SalesAssumption
<1>1. Q = {contract[c].number.seq : c \in D}
  BY DEF Sequences
<1>2. \A c \in D : contract[c] \in Rows /\ contract[c].number.seq \in Nat /\ <<s, contract[c].number.seq>> \in issued
  <2> SUFFICES ASSUME NEW c \in D
               PROVE  contract[c] \in Rows /\ contract[c].number.seq \in Nat /\ <<s, contract[c].number.seq>> \in issued
    OBVIOUS
  <2>1. c \in Contracts /\ contract[c] # Absent /\ contract[c].number.seller = s
    BY DEF Numbered, Existing
  <2>2. contract[c] \in Rows
    BY <2>1 DEF Inv, Types
  <2>3. Carries(contract[c]) = {<<s, contract[c].number.seq>>}
    BY <1>0, <2>1 DEF Carries
  <2> QED
    BY <2>1, <2>2, <2>3 DEF Inv, Booked, Rows, Numbers
<1>3. IsFiniteSet(Q)
  <2>1. IsFiniteSet(D)
    BY <1>0, FS_Subset DEF Numbered, Existing
  <2>2. [c \in D |-> contract[c].number.seq] \in Surjection(D, Q)
    BY <1>1 DEF Surjection
  <2> QED
    BY <2>1, <2>2, FS_Surjection
<1>4. \A c \in C : contract[c] # Absent /\ contract[c].number.seller = s => c \in D
  BY <1>0 DEF Numbered, Existing
<1>7. \A c \in D : Q # {}
  <2> HIDE DEF D, Q
  <2> QED
    BY <1>1
<1>5. CASE Q = {}
  <2>1. NextSequence(s, C) = InitialSequence[s]
    BY <1>5 DEF NextSequence
  <2> HIDE DEF D, Q
  <2> QED
    BY <1>0, <1>4, <1>5, <1>7, <2>1 DEF Follows
<1>6. CASE Q # {}
  <2>1. NextSequence(s, C) = Max(Q) + 4
    BY <1>6 DEF NextSequence
  <2>2. Q \subseteq Int
    <3> SUFFICES ASSUME NEW x \in Q
                 PROVE  x \in Int
      OBVIOUS
    <3>1. PICK c \in D : x = contract[c].number.seq
      BY <1>1
    <3> HIDE DEF D, Q
    <3>2. x \in Nat
      BY <1>2, <3>1
    <3> QED
      BY <3>2
  <2>3. Max(Q) \in Q /\ \A x \in Q : x <= Max(Q)
    BY <1>3, <1>6, <2>2, MaxOfFinite
  <2>4. PICK d \in D : Max(Q) = contract[d].number.seq
    BY <1>1, <2>3
  <2>5. Max(Q) \in Nat /\ <<s, Max(Q)>> \in issued
    BY <1>2, <2>4
  <2>6. \A c \in D : contract[c].number.seq <= Max(Q) /\ contract[c].number.seq \in Nat
    BY <1>1, <1>2, <2>3
  <2> DEFINE m == Max(Q)
  <2> HIDE DEF D, Q, m
  <2>7. m \in Nat /\ <<s, m>> \in issued /\ NextSequence(s, C) = m + 4
        /\ \A c \in D : contract[c].number.seq <= m /\ contract[c].number.seq \in Nat
    BY <2>1, <2>5, <2>6 DEF m
  <2>8. m + 4 \in Nat /\ (m + 4) - 4 = m
    BY <2>7
  <2>9. \A c \in D : contract[c].number.seq < m + 4
    BY <2>7
  <2> QED
    BY <1>4, <2>7, <2>8, <2>9 DEF Follows
<1> QED
  BY <1>5, <1>6

-----------------------------------------------------------------------------
(* Steps that write no contract *)

\* What one worker's step leaves to the others.
Alone(w) == \A v \in Workers \ {w} : pc'[v] = pc[v] /\ job'[v] = job[v] /\ locked'[v] = locked[v]

\* The variables of a worker.
LEMMA GotoWorker ==
  ASSUME Types, NEW w \in Workers, NEW label \in Labels, NEW j, Goto(w, label, j)
  PROVE  /\ pc' \in [Workers -> Labels] /\ pc'[w] = label /\ job'[w] = j
         /\ j \in {NoJob} \union Creates \union Edits => job' \in [Workers -> {NoJob} \union Creates \union Edits]
         /\ \A v \in Workers \ {w} : pc'[v] = pc[v] /\ job'[v] = job[v]
BY DEF Goto, Types

\* A step that changes only a worker's own state keeps the invariant, if the worker's part
\* of it holds afterwards.
LEMMA StandInv ==
  ASSUME Inv, NEW w \in Workers, UNCHANGED <<contract, issued, moved>>, Alone(w),
         pc' \in [Workers -> Labels], job' \in [Workers -> {NoJob} \union Creates \union Edits],
         locked' \in [Workers -> SUBSET Contracts],
         pc'[w] = "idle" => job'[w] = NoJob,
         Creating(w)' => job'[w] \in Creates,
         pc'[w] = "save" => job'[w] \in Edits,
         \A v \in Workers \ {w} : Creating(w)' /\ Creating(v) => job'[w].id # job[v].id,
         Creating(w)' => /\ contract[job'[w].id] = Absent
                         /\ \A c \in job'[w].seen : contract[c] # Absent
                         /\ \A c \in job'[w].seen \ moved : contract[c].seller = job'[w].row.seller
                         /\ job'[w].row.seller = None => job'[w].row.number \in Typed
                         /\ pc'[w] \in {"snapshot", "lock"} => job'[w].row.seller # None,
         Issues(w)', Exists(w)',
         locked'[w] \in {{}, locked[w]} \/ \A c \in locked'[w] : contract[c] # Absent
  PROVE  Inv'
<1>1. Types'
  BY DEF Inv, Types, Alone, Creating
<1>2. Booked' /\ Distinct' /\ NoSequenceSkipped'
  BY DEF Inv, Booked, Distinct, NoSequenceSkipped, Sourced, Generated, Carries, TypedSequences
<1>3. Fresh(w)'
  BY DEF Fresh, Creating, Alone
<1>4. ASSUME NEW v \in Workers \ {w}
      PROVE  Fresh(v)' /\ Issues(v)' /\ Exists(v)' /\ Held(v)'
  BY DEF Inv, Fresh, Issues, Exists, Held, Creating, Alone, Sourced, Generated, Follows
<1>5. Held(w)'
  BY DEF Inv, Held
<1> QED
  BY <1>1, <1>2, <1>3, <1>4, <1>5 DEF Inv

\* A request ends without having written anything.
LEMMA EndInv ==
  ASSUME Inv, NEW w \in Workers, UNCHANGED <<contract, issued, moved>>, End(w)
  PROVE  Inv'
<1>1. /\ pc' \in [Workers -> Labels] /\ pc'[w] = "idle" /\ job'[w] = NoJob
      /\ job' \in [Workers -> {NoJob} \union Creates \union Edits]
      /\ \A v \in Workers \ {w} : pc'[v] = pc[v] /\ job'[v] = job[v]
  BY GotoWorker DEF End, Labels, Inv
<1>2. locked' \in [Workers -> SUBSET Contracts] /\ locked'[w] = {}
      /\ \A v \in Workers \ {w} : locked'[v] = locked[v]
  BY DEF End, Inv, Types
<1> QED
  BY <1>1, <1>2, StandInv DEF Alone, Creating, Issues, Exists

\* A client's request is taken up.
LEMMA RequestInv ==
  ASSUME Inv, NEW w \in Workers, Request(w)
  PROVE  Inv'
<1>0. Types
  BY DEF Inv
<1>1. ASSUME NEW c \in Contracts, NEW e \in Enquiries \union {None}, NEW s \in Sellers,
             NEW b \in Buyers, NEW number \in Typed \union {None}, NEW status \in Asked,
             s = None => number \in Typed, Create(w, c, e, s, b, number, status)
      PROVE  Inv'
  <2> DEFINE r == [status |-> status, number |-> number, enquiry |-> e, seller |-> s, buyer |-> b]
             j == [op |-> "create", id |-> c, seen |-> {}, row |-> r]
  <2>1. r \in NewRows
    BY SalesAssumption, TypedAssumption DEF NewRows, Statuses
  <2>2. r.seller = s /\ r.number = number
    OBVIOUS
  <2>3. Goto(w, "check", j) /\ UNCHANGED <<contract, issued, moved, locked>>
    BY <1>1 DEF Create, Start, Goto
  <2>4. contract[c] = Absent /\ \A v \in Workers : job[v].op = "create" => job[v].id # c
    BY <1>1 DEF Create
  <2> HIDE DEF r
  <2>5. j \in Creates /\ j.id = c /\ j.seen = {} /\ j.row = r
    BY <2>1 DEF Creates
  <2> HIDE DEF j
  <2>6. /\ pc' \in [Workers -> Labels] /\ pc'[w] = "check" /\ job'[w] = j
        /\ job' \in [Workers -> {NoJob} \union Creates \union Edits]
        /\ \A v \in Workers \ {w} : pc'[v] = pc[v] /\ job'[v] = job[v]
    BY <1>0, <2>3, <2>5, GotoWorker DEF Labels
  <2>7. \A v \in Workers : Creating(v) => job[v].id # c
    BY <1>0, <2>4 DEF Types, Creates
  <2> QED
    BY <1>0, <1>1, <2>2, <2>3, <2>4, <2>5, <2>6, <2>7, StandInv DEF Alone, Creating, Issues, Exists, Types
<1>2. ASSUME NEW c \in Contracts, NEW op \in {"update", "status", "remove"}, NEW new \in News,
             Load(w, c, op, new)
      PROVE  Inv'
  <2> DEFINE j == [op |-> op, id |-> c, was |-> contract[c], new |-> new]
  <2>1. Goto(w, "save", j) /\ UNCHANGED <<contract, issued, moved, locked>> /\ contract[c] # Absent
    BY <1>2 DEF Load, Start, Goto, Existing
  <2>2. contract[c] \in Rows
    BY <1>0, <2>1 DEF Types
  <2>3. j \in Edits /\ j.id = c
    BY <2>2 DEF Edits
  <2> HIDE DEF j
  <2>4. /\ pc' \in [Workers -> Labels] /\ pc'[w] = "save" /\ job'[w] = j
        /\ job' \in [Workers -> {NoJob} \union Creates \union Edits]
        /\ \A v \in Workers \ {w} : pc'[v] = pc[v] /\ job'[v] = job[v]
    BY <1>0, <2>1, <2>3, GotoWorker DEF Labels
  <2> QED
    BY <1>0, <2>1, <2>3, <2>4, StandInv DEF Alone, Creating, Issues, Exists, Types
<1>3. PICK c \in Contracts :
        \/ \E e \in Enquiries \union {None}, b \in Buyers, status \in Asked :
             \/ \E s \in AutoSellers : Create(w, c, e, s, b, None, status)
             \/ \E number \in Typed : Create(w, c, e, None, b, number, status)
        \/ \E new \in Changes : Update(w, c, new)
        \/ \E status \in Asked : UpdateStatus(w, c, status)
        \/ Remove(w, c)
  BY DEF Request
<1>4. /\ Asked \subseteq Statuses /\ None \notin AutoSellers /\ Changes \subseteq News
      /\ \A status \in Statuses : Written(status) \in News
  BY SalesAssumption, ChangesAssumption DEF Statuses, News, Written, NoChange
<1>7. "Cancelled" \in Statuses
  BY DEF Statuses
<1>5. CASE \E e \in Enquiries \union {None}, b \in Buyers, status \in Asked :
             \/ \E s \in AutoSellers : Create(w, c, e, s, b, None, status)
             \/ \E number \in Typed : Create(w, c, e, None, b, number, status)
  BY <1>1, <1>4, <1>5 DEF Sellers
<1>6. CASE \/ \E new \in Changes : Update(w, c, new)
           \/ \E status \in Asked : UpdateStatus(w, c, status)
           \/ Remove(w, c)
  BY <1>2, <1>4, <1>6, <1>7 DEF Update, UpdateStatus, Remove
<1> QED
  BY <1>3, <1>5, <1>6

\* The steps of a create before its INSERT.
LEMMA PrepareInv ==
  ASSUME Inv, NEW w \in Workers, CheckConverted(w) \/ TakeSnapshot(w) \/ LockAndNumber(w)
  PROVE  Inv'
<1> DEFINE j == job[w]
           s == j.row.seller
<1>0. /\ Types /\ Creating(w) /\ j \in Creates /\ j.row \in NewRows /\ Fresh(w) /\ s \in Sellers
      /\ UNCHANGED <<contract, issued, moved>>
  BY DEF Inv, Types, Creating, CheckConverted, TakeSnapshot, LockAndNumber, Creates, NewRows
<1>1. CASE CheckConverted(w)
  <2>1. PICK label \in {"insert", "snapshot"} : Goto(w, label, j) /\ (label = "insert" <=> s = None)
    BY <1>1 DEF CheckConverted
  <2>2. /\ pc' \in [Workers -> Labels] /\ pc'[w] = label /\ job'[w] = j
        /\ job' \in [Workers -> {NoJob} \union Creates \union Edits]
        /\ \A v \in Workers \ {w} : pc'[v] = pc[v] /\ job'[v] = job[v]
    BY <1>0, <2>1, GotoWorker DEF Labels
  <2>3. UNCHANGED locked
    BY <1>1 DEF CheckConverted
  <2>4. Issues(w)'
    BY <1>0, <2>1, <2>2, TypedAssumption DEF Issues, Fresh, Sourced
  <2> QED
    BY <1>0, <2>1, <2>2, <2>3, <2>4, StandInv DEF Alone, Creating, Exists, Types, Fresh
<1>2. CASE TakeSnapshot(w)
  <2> DEFINE k == [j EXCEPT !.seen = OfSeller(s)]
  <2>1. Goto(w, "lock", k) /\ UNCHANGED locked /\ pc[w] = "snapshot"
    BY <1>2 DEF TakeSnapshot
  <2>2. k \in Creates /\ k.id = j.id /\ k.row = j.row /\ k.seen = OfSeller(s)
    <3>1. OfSeller(s) \in SUBSET Contracts
      BY DEF OfSeller, Existing
    <3> HIDE DEF s
    <3> QED
      BY <1>0, <3>1 DEF Creates
  <2>3. \A c \in OfSeller(s) : contract[c] # Absent /\ contract[c].seller = s
    BY DEF OfSeller, Existing
  <2> HIDE DEF k
  <2>4. /\ pc' \in [Workers -> Labels] /\ pc'[w] = "lock" /\ job'[w] = k
        /\ job' \in [Workers -> {NoJob} \union Creates \union Edits]
        /\ \A v \in Workers \ {w} : pc'[v] = pc[v] /\ job'[v] = job[v]
    BY <1>0, <2>1, <2>2, GotoWorker DEF Labels
  <2> QED
    BY <1>0, <2>1, <2>2, <2>3, <2>4, StandInv DEF Alone, Creating, Issues, Exists, Types, Fresh
<1>3. CASE LockAndNumber(w)
  <2> DEFINE rows == j.seen \intersect OfSeller(s)
             n == NextSequence(s, rows)
             number == ContractNumber(s, j.row.buyer, n)
             r == [j.row EXCEPT !.number = number]
             k == [j EXCEPT !.row = r]
  <2>1. /\ locked' = [locked EXCEPT ![w] = rows]
        /\ Goto(w, "insert", [j EXCEPT !.row.number = number])
        /\ pc[w] = "lock"
    BY <1>3 DEF LockAndNumber
  <2>2. [j EXCEPT !.row.number = number] = k
    BY <1>0 DEF Creates
  <2>3. s \in AutoSellers /\ s # None
    BY <1>0, <2>1 DEF Fresh, Sellers
  <2>4. rows \subseteq j.seen /\ j.seen \ moved \subseteq rows /\ j.seen \in SUBSET Contracts
    BY <1>0 DEF Fresh, OfSeller, Existing, Creates
  <2>5. /\ n \in Nat /\ Follows(s, n)
        /\ \A c \in rows : contract[c] # Absent /\ contract[c].number.seller = s => contract[c].number.seq < n
    BY <2>3, <2>4, NextSequenceFollows
  <2>6. j.row.buyer \in Buyers
    BY <1>0 DEF NewRows
  <2> HIDE DEF rows, n
  <2>7. number \in Numbers /\ number.seller = s /\ number.seq = n /\ Generated(number)
    BY <2>3, <2>5, <2>6 DEF ContractNumber, Numbers, Sellers, Generated
  <2> HIDE DEF number
  <2>8. r \in NewRows /\ r.seller = s /\ r.number = number
    BY <1>0, <2>7 DEF NewRows
  <2> HIDE DEF r
  <2>9. k \in Creates /\ k.id = j.id /\ k.row = r /\ k.seen = j.seen
    BY <1>0, <2>8 DEF Creates
  <2> HIDE DEF k
  <2>10. /\ pc' \in [Workers -> Labels] /\ pc'[w] = "insert" /\ job'[w] = k
         /\ job' \in [Workers -> {NoJob} \union Creates \union Edits]
         /\ \A v \in Workers \ {w} : pc'[v] = pc[v] /\ job'[v] = job[v]
    BY <1>0, <2>1, <2>2, <2>9, GotoWorker DEF Labels
  <2>11. /\ locked' \in [Workers -> SUBSET Contracts] /\ locked'[w] = rows
         /\ \A v \in Workers \ {w} : locked'[v] = locked[v]
    BY <1>0, <2>1, <2>4 DEF Types
  <2>12. Issues(w)'
    <3>1. \A c \in rows : contract[c].number.seller = s => contract[c].number.seq < n
      BY <1>0, <2>4, <2>5 DEF Fresh
    <3> QED
      BY <1>0, <2>3, <2>4, <2>5, <2>7, <2>8, <2>9, <2>10, <2>11, <3>1 DEF Issues, Sourced, Generated, Follows
  <2>13. /\ \A c \in j.seen : contract[c] # Absent
         /\ \A c \in j.seen \ moved : contract[c].seller = s
    BY <1>0 DEF Fresh
  <2> QED
    BY <1>0, <2>1, <2>3, <2>8, <2>9, <2>4, <2>10, <2>11, <2>12, <2>13, StandInv DEF Alone, Creating, Exists, Fresh
<1> QED
  BY <1>1, <1>2, <1>3

-----------------------------------------------------------------------------
(* Steps that write a contract *)

\* A worker writes one contract, which nobody else has locked or is about to create, and
\* ends.
LEMMA WriteInv ==
  ASSUME Inv, NEW w \in Workers, NEW c \in Contracts, NEW r \in Rows, End(w),
         contract' = [contract EXCEPT ![c] = r], issued' = issued \union Carries(r),
         Sourced(r),
         moved' \in {moved, moved \union {c}},
         c \notin moved' =>
           /\ contract[c] # Absent => r.seller = contract[c].seller
           /\ r.number \notin Typed => r.number.seller = r.seller,
         \A d \in Contracts \ {c} : contract[d] # Absent => contract[d].number # r.number,
         \A v \in Workers \ {w} : c \notin locked[v],
         \A v \in Workers \ {w} : Creating(v) => job[v].id # c,
         r.number \in Typed \/ Carries(r) \subseteq issued \/ Follows(r.number.seller, r.number.seq)
  PROVE  Inv'
<1>0. Types /\ r # Absent
  BY RowExists DEF Inv
<1>1. /\ pc' \in [Workers -> Labels] /\ pc'[w] = "idle" /\ job'[w] = NoJob
      /\ job' \in [Workers -> {NoJob} \union Creates \union Edits]
      /\ \A v \in Workers \ {w} : pc'[v] = pc[v] /\ job'[v] = job[v]
  BY <1>0, GotoWorker DEF End, Labels
<1>2. locked' \in [Workers -> SUBSET Contracts] /\ locked'[w] = {}
      /\ \A v \in Workers \ {w} : locked'[v] = locked[v]
  BY <1>0 DEF End, Types
<1>3. /\ contract' \in [Contracts -> Rows \union {Absent}] /\ contract'[c] = r
      /\ \A d \in Contracts : d # c => contract'[d] = contract[d]
  BY <1>0 DEF Types
<1>4. r.number \in Numbers /\ r.number.seq \in Nat /\ r.number.seller \in Sellers
  BY DEF Rows, Numbers
<1>5. Types'
  <2>1. Carries(r) \subseteq AutoSellers \X Nat
    BY <1>4 DEF Carries, Sellers
  <2>2. issued' \subseteq AutoSellers \X Nat
    BY <1>0, <2>1 DEF Types
  <2> QED
    BY <1>0, <1>1, <1>2, <1>3, <2>2 DEF Types, Creating
<1>14. \A d \in moved' : contract'[d] # Absent
  BY <1>0, <1>3 DEF Inv, Booked, Types
<1>6. Booked'
  <2> SUFFICES ASSUME NEW d \in Contracts, contract'[d] # Absent
               PROVE  /\ Sourced(contract'[d]) /\ Carries(contract'[d]) \subseteq issued'
                      /\ d \notin moved' /\ contract'[d].number \notin Typed =>
                           contract'[d].number.seller = contract'[d].seller
    BY <1>14 DEF Booked, Sourced, Generated, Carries
  <2>1. CASE d = c
    BY <1>3, <2>1
  <2>2. CASE d # c
    BY <1>3, <2>2 DEF Inv, Booked
  <2> QED
    BY <2>1, <2>2
<1>7. Distinct'
  BY <1>3 DEF Inv, Distinct
<1>8. NoSequenceSkipped'
  <2> SUFFICES ASSUME NEW p \in issued' \ TypedSequences
               PROVE  p[2] = InitialSequence[p[1]] \/ <<p[1], p[2] - 4>> \in issued'
    BY DEF NoSequenceSkipped, TypedSequences
  <2>1. CASE p \in issued
    BY <2>1 DEF Inv, NoSequenceSkipped
  <2>2. CASE p \notin issued
    <3>1. p = <<r.number.seller, r.number.seq>>
      BY <2>2 DEF Carries
    <3>2. r.number \notin Typed
      BY <3>1 DEF TypedSequences
    <3>3. Follows(r.number.seller, r.number.seq)
      BY <2>2, <3>2
    <3> QED
      BY <3>1, <3>3 DEF Follows
  <2> QED
    BY <2>1, <2>2
<1>9. ASSUME NEW v \in Workers \ {w}
      PROVE  Fresh(v)'
  <2> SUFFICES ASSUME Creating(v)
               PROVE  Fresh(v)'
    BY <1>1 DEF Fresh, Creating
  <2>1. Fresh(v) /\ job[v].id # c /\ job[v] \in Creates
    BY <1>0 DEF Inv, Types
  <2>2. \A u \in Workers : Creating(u)' => Creating(u) /\ job'[u] = job[u]
    BY <1>1 DEF Creating
  <2>3. ASSUME NEW d \in job[v].seen
        PROVE  /\ contract'[d] # Absent
               /\ d \notin moved' => contract'[d].seller = job[v].row.seller
    <3>1. /\ d \in Contracts /\ contract[d] # Absent
          /\ d \notin moved => contract[d].seller = job[v].row.seller
      BY <2>1 DEF Fresh, Creates
    <3>2. CASE d = c
      BY <1>0, <1>3, <3>1, <3>2
    <3>3. CASE d # c
      BY <1>0, <1>3, <3>1, <3>3
    <3> QED
      BY <3>2, <3>3
  <2>4. contract'[job[v].id] = Absent
    BY <1>3, <2>1 DEF Fresh, Creates
  <2> QED
    BY <1>1, <2>1, <2>2, <2>3, <2>4 DEF Fresh
<1>10. ASSUME NEW v \in Workers \ {w}
       PROVE  Issues(v)'
  <2> SUFFICES ASSUME pc[v] = "insert"
               PROVE  Issues(v)'
    BY <1>1 DEF Issues
  <2>1. Issues(v) /\ Fresh(v) /\ job[v] \in Creates
    BY <1>0 DEF Inv, Types, Creating
  <2>2. ASSUME NEW d \in locked[v]
        PROVE  contract'[d] = contract[d]
    <3>1. d \in Contracts /\ d # c
      BY <1>0, <2>2 DEF Types
    <3> QED
      BY <1>3, <3>1
  <2>4. moved \subseteq moved'
    OBVIOUS
  <2>3. \A s, n : Follows(s, n) => Follows(s, n)'
    BY DEF Follows
  <2> QED
    BY <1>1, <1>2, <2>1, <2>2, <2>3, <2>4 DEF Issues, Sourced, Generated, Follows
<1>11. ASSUME NEW v \in Workers \ {w}
       PROVE  Exists(v)'
  <2> SUFFICES ASSUME pc[v] = "save"
               PROVE  Exists(v)'
    BY <1>1 DEF Exists
  <2>1. Exists(v) /\ job[v] \in Edits /\ job[v].id \in Contracts
    BY <1>0 DEF Inv, Types, Edits
  <2> QED
    BY <1>0, <1>1, <1>3, <2>1 DEF Exists
<1>12. Fresh(w)' /\ Issues(w)' /\ Exists(w)' /\ Held(w)'
  BY <1>1, <1>2 DEF Fresh, Creating, Issues, Exists, Held
<1>13. ASSUME NEW v \in Workers \ {w}
       PROVE  Held(v)'
  <2>1. \A d \in locked[v] : d \in Contracts /\ contract[d] # Absent
    BY <1>0 DEF Inv, Types, Held
  <2> QED
    BY <1>0, <1>2, <1>3, <2>1 DEF Held
<1> QED
  BY <1>5, <1>6, <1>7, <1>8, <1>9, <1>10, <1>11, <1>12, <1>13 DEF Inv

\* The INSERT of a create.
LEMMA InsertInv ==
  ASSUME Inv, NEW w \in Workers, Insert(w)
  PROVE  Inv'
<1> DEFINE j == job[w]
           r == j.row
<1>0. Types /\ pc[w] = "insert" /\ Creating(w) /\ j \in Creates /\ Fresh(w) /\ Issues(w)
  BY DEF Inv, Types, Creating, Insert
<1>1. j.id \in Contracts /\ r \in NewRows /\ j.seen \in SUBSET Contracts
  BY <1>0 DEF Creates
<1>2. r \in Rows /\ Sourced(r)
  <2>1. r.number \in Numbers /\ Sourced(r)
    BY <1>0 DEF Issues
  <2> HIDE DEF r
  <2> QED
    BY <1>1, <2>1 DEF NewRows, Rows
<1>3. /\ ~Taken(r.number) /\ contract' = [contract EXCEPT ![j.id] = r]
      /\ issued' = issued \union Carries(r) /\ moved' = moved /\ End(w)
  BY DEF Insert
<1>4. \A d \in Contracts : contract[d] # Absent => contract[d].number # r.number
  BY <1>3 DEF Taken, Existing
<1>5. contract[j.id] = Absent
  BY <1>0 DEF Fresh
<1>6. ASSUME NEW v \in Workers \ {w}
      PROVE  j.id \notin locked[v] /\ (Creating(v) => job[v].id # j.id)
  <2>1. Fresh(w) /\ Held(v)
    BY DEF Inv
  <2> QED
    BY <1>0, <1>5, <2>1 DEF Fresh, Held
<1>7. r.number \in Typed \/ (Follows(r.number.seller, r.number.seq) /\ r.number.seller = r.seller)
  BY <1>0 DEF Issues, Fresh, Generated
<1> HIDE DEF r, j
<1> QED
  BY <1>1, <1>2, <1>3, <1>4, <1>5, <1>6, <1>7, WriteInv

\* The commit of a request that edits a contract.
LEMMA SaveInv ==
  ASSUME Inv, NEW w \in Workers, Save(w)
  PROVE  Inv'
<1> DEFINE j == job[w]
           now == contract[j.id]
           r == Saved(w)
           new == j.new
<1>0. Types /\ pc[w] = "save" /\ j \in Edits /\ Exists(w)
  BY DEF Inv, Types, Save
<1>1. j.id \in Contracts /\ j.was \in Rows /\ new \in News
  BY <1>0 DEF Edits
<1>2. now \in Rows
  BY <1>0, <1>1 DEF Types, Exists
<1>3. /\ r.number = Field(new.number, j.was.number, now.number)
      /\ r.seller = Field(new.seller, j.was.seller, now.seller)
  BY DEF Saved
<1>4. r \in Rows
  <2> HIDE DEF j, now, new
  <2>1. /\ now.status \in Statuses /\ now.number \in Numbers /\ now.enquiry \in Enquiries \union {None}
        /\ now.seller \in Sellers /\ now.buyer \in Buyers
    BY <1>2 DEF Rows
  <2>2. /\ new.status \in Statuses \union {Keep} /\ new.number \in Typed \union {Keep}
        /\ new.enquiry \in Enquiries \union {None, Keep} /\ new.seller \in Sellers \union {Keep}
        /\ new.buyer \in Buyers \union {Keep}
    BY <1>1 DEF News
  <2>3. /\ Field(new.status, j.was.status, now.status) \in Statuses
        /\ Field(new.number, j.was.number, now.number) \in Numbers
        /\ Field(new.enquiry, j.was.enquiry, now.enquiry) \in Enquiries \union {None}
    BY <2>1, <2>2, TypedAssumption DEF Field
  <2>4. /\ Field(new.seller, j.was.seller, now.seller) \in Sellers
        /\ Field(new.buyer, j.was.buyer, now.buyer) \in Buyers
    BY <2>1, <2>2 DEF Field
  <2> QED
    BY <2>3, <2>4 DEF Saved, Rows, j, now, new
<1>5. /\ \A v \in Workers \ {w} : j.id \notin locked[v]
      /\ contract' = [contract EXCEPT ![j.id] = r]
      /\ issued' = issued \union Carries(r) /\ End(w)
      /\ new.number \in {Keep, j.was.number} \/ ~Taken(new.number)
      /\ moved' = moved \union (IF r.seller # now.seller THEN {j.id} ELSE {})
  BY DEF Save, Unlocked, Renumbers, Moves
<1>6. \/ r.number = now.number
      \/ r.number = new.number /\ new.number \in Typed /\ ~Taken(new.number)
  <2>1. new.number \in Typed \union {Keep}
    BY <1>1 DEF News
  <2> QED
    BY <2>1, <1>3, <1>5 DEF Field
<1>7. /\ Sourced(now) /\ Carries(now) \subseteq issued
      /\ j.id \notin moved /\ now.number \notin Typed => now.number.seller = now.seller
  BY <1>0, <1>1 DEF Inv, Booked, Exists
<1>8. Sourced(r)
  BY <1>6, <1>7 DEF Sourced, Generated
<1>9. \A d \in Contracts \ {j.id} : contract[d] # Absent => contract[d].number # r.number
  <2>1. CASE r.number = now.number
    BY <1>0, <1>1, <2>1 DEF Inv, Distinct, Exists
  <2>2. CASE ~Taken(r.number)
    BY <2>2 DEF Taken, Existing
  <2> QED
    BY <1>6, <2>1, <2>2
<1>10. ASSUME NEW v \in Workers \ {w}
       PROVE  Creating(v) => job[v].id # j.id
  <2>1. Fresh(v)
    BY DEF Inv
  <2> QED
    BY <1>0, <2>1 DEF Fresh, Exists
<1>11. r.number \in Typed \/ Carries(r) \subseteq issued
  BY <1>6, <1>7 DEF Carries
<1>12. /\ moved' \in {moved, moved \union {j.id}}
       /\ j.id \notin moved' => r.seller = now.seller /\ j.id \notin moved
  BY <1>5
<1>13. j.id \notin moved' /\ r.number \notin Typed => r.number.seller = r.seller
  BY <1>6, <1>7, <1>12
<1> HIDE DEF r, j
<1> QED
  BY <1>12, <1>13, <1>1, <1>3, <1>4, <1>5, <1>8, <1>9, <1>10, <1>11, WriteInv

-----------------------------------------------------------------------------
(* The invariant *)

\* The invariant holds initially.
LEMMA InitInv == Init => Inv
<1> SUFFICES ASSUME Init
             PROVE  Inv
  OBVIOUS
<1>1. Types
  BY DEF Init, Types, Labels, Creating
<1>2. Booked /\ Distinct /\ NoSequenceSkipped
  BY DEF Init, Booked, Distinct, NoSequenceSkipped
<1>3. \A w \in Workers : Fresh(w) /\ Issues(w) /\ Exists(w) /\ Held(w)
  BY DEF Init, Fresh, Creating, Issues, Exists, Held
<1> QED
  BY <1>1, <1>2, <1>3 DEF Inv

\* Every step keeps it.
LEMMA StepInv == Inv /\ [Next]_vars => Inv'
<1> SUFFICES ASSUME Inv, [Next]_vars
             PROVE  Inv'
  OBVIOUS
<1>1. ASSUME NEW w \in Workers, Request(w)
      PROVE  Inv'
  BY <1>1, RequestInv
<1>2. ASSUME NEW w \in Workers, Proceed(w)
      PROVE  Inv'
  <2>1. CASE CheckConverted(w) \/ TakeSnapshot(w) \/ LockAndNumber(w)
    BY <2>1, PrepareInv
  <2>2. CASE Insert(w)
    BY <2>2, InsertInv
  <2>3. CASE Save(w)
    BY <2>3, SaveInv
  <2>4. CASE Refuse(w)
    BY <2>4, EndInv DEF Refuse
  <2> QED
    BY <1>2, <2>1, <2>2, <2>3, <2>4 DEF Proceed
<1>3. ASSUME NEW w \in Workers, Crash(w)
      PROVE  Inv'
  BY <1>3, EndInv DEF Crash
<1>4. CASE UNCHANGED vars
  BY <1>4 DEF vars, Inv, Types, Creating, Booked, Distinct, Sourced, Generated, Carries,
     NoSequenceSkipped, TypedSequences, Fresh, Issues, Follows, Exists, Held
<1> QED
  BY <1>1, <1>2, <1>3, <1>4 DEF Next

\* The invariant holds of every behaviour.
THEOREM Invariance == Spec => []Inv
<1>1. Init => Inv
  BY InitInv
<1>2. Inv /\ [Next]_vars => Inv'
  BY StepInv
<1> QED
  BY <1>1, <1>2, PTL DEF Spec

-----------------------------------------------------------------------------
(* Sequences *)

\* The invariant says that sequences advance.
LEMMA InvAdvances == Inv => SequencesAdvance
<1> SUFFICES ASSUME Inv
             PROVE  SequencesAdvance
  OBVIOUS
<1>1. TypeOK
  <2> SUFFICES ASSUME NEW w \in Workers
               PROVE  /\ job[w].op \in {"none", "create", "update", "status", "remove"}
                      /\ pc[w] # "idle" => job[w].id \in Contracts
    BY DEF TypeOK, Inv, Types
  <2>1. job[w] \in {NoJob} \union Creates \union Edits /\ pc[w] \in Labels
    BY DEF Inv, Types
  <2>2. pc[w] # "idle" => job[w] \in Creates \union Edits
    BY <2>1 DEF Inv, Types, Labels, Creating
  <2> QED
    BY <2>1, <2>2 DEF NoJob, Creates, Edits
<1>2. NumberExceedsSeen
  <2> SUFFICES ASSUME NEW w \in Workers, Issuing(w), NEW n \in Sequences(job[w].row.seller, job[w].seen \ moved)
               PROVE  n < job[w].row.number.seq
    BY DEF NumberExceedsSeen
  <2>1. Issues(w) /\ pc[w] = "insert" /\ job[w].row.seller # None
    BY DEF Inv, Issuing
  <2>2. PICK c \in job[w].seen \ moved : contract[c].number.seller = job[w].row.seller /\ n = contract[c].number.seq
    BY DEF Sequences
  <2> QED
    BY <2>1, <2>2 DEF Issues
<1> QED
  BY <1>1, <1>2 DEF SequencesAdvance, Inv

\* A number is what its fields are.
LEMMA NumberExt ==
  ASSUME NEW n \in Numbers, NEW m \in Numbers,
         n.seller = m.seller, n.initial = m.initial, n.seq = m.seq, n.spelling = m.spelling
  PROVE  n = m
<1>1. /\ n = [seller |-> n.seller, initial |-> n.initial, seq |-> n.seq, spelling |-> n.spelling]
      /\ m = [seller |-> m.seller, initial |-> m.initial, seq |-> m.seq, spelling |-> m.spelling]
  BY DEF Numbers
<1> QED
  BY <1>1

\* Two contracts share a generated sequence only across buyers: the unique index.
LEMMA InvShares == Inv => SharedOnlyAcrossBuyers
<1> SUFFICES ASSUME Inv, NEW c \in Numbered, NEW d \in Numbered, c # d,
                    contract[d].number.seller = contract[c].number.seller,
                    contract[d].number.seq = contract[c].number.seq,
                    <<contract[c].number.seller, contract[c].number.seq>> \notin TypedSequences
             PROVE  /\ contract[c].number.seller \in Initialled
                    /\ contract[d].number.initial # contract[c].number.initial
  BY DEF SharedOnlyAcrossBuyers
<1> DEFINE n == contract[c].number
           m == contract[d].number
<1>1. /\ c \in Contracts /\ d \in Contracts /\ contract[c] # Absent /\ contract[d] # Absent
      /\ contract[c] \in Rows /\ contract[d] \in Rows
  BY DEF Numbered, Existing, Inv, Types
<1>2. n \in Numbers /\ m \in Numbers
  BY <1>1 DEF Rows
<1>3. n \notin Typed /\ m \notin Typed
  <2>1. \A x \in Typed : <<x.seller, x.seq>> \in TypedSequences
    BY DEF TypedSequences
  <2> QED
    BY <2>1
<1>4. Generated(n) /\ Generated(m)
  BY <1>1, <1>3 DEF Inv, Booked, Sourced
<1>5. n # m
  BY <1>1 DEF Inv, Distinct
<1>6. n.spelling = m.spelling
  BY <1>4 DEF Generated
<1>7. n.initial # m.initial
  BY <1>2, <1>5, <1>6, NumberExt
<1>8. n.seller \in Initialled
  BY <1>4, <1>7 DEF Generated
<1> QED
  BY <1>7, <1>8

\* Every sequence the service generates advances the ones before it, however requests race.
THEOREM Advance == Spec => []SequencesAdvance
BY Invariance, InvAdvances, PTL

\* Two contracts of a seller share a generated sequence only across buyers, however
\* requests race.
THEOREM Shared == Spec => []SharedOnlyAcrossBuyers
BY Invariance, InvShares, PTL

-----------------------------------------------------------------------------
(* One request at a time *)

\* A create that runs alone has seen all contracts of its seller.
Whole(w) ==
  pc[w] \in {"lock", "insert"} /\ job[w].row.seller # None =>
    job[w].seen = OfSeller(job[w].row.seller)
Serial == OneAtATime /\ SequencesUnique /\ \A w \in Workers : Whole(w)

SerialInv == mode = "serial" => Serial

\* The others are idle while a worker steps, and its own part of Serial is all that matters.
LEMMA AloneSerial ==
  ASSUME Types, Serial, OneAtATime', NEW w \in Workers, pc[w] # "idle" \/ pc'[w] # "idle",
         pc' \in [Workers -> Labels], \A v \in Workers \ {w} : pc'[v] = pc[v],
         SequencesUnique', Whole(w)'
  PROVE  Serial'
<1>1. ASSUME NEW v \in Workers \ {w}
      PROVE  pc'[v] = "idle"
  BY DEF Serial, OneAtATime
<1>2. \A v \in Workers \ {w} : Whole(v)'
  BY <1>1 DEF Whole
<1> QED
  BY <1>2 DEF Serial

\* A step that writes no contract keeps the sequences unique.
LEMMA StandUnique == SequencesUnique /\ UNCHANGED <<contract, moved>> => SequencesUnique'
BY DEF SequencesUnique, Numbered, Existing, TypedSequences

\* A row whose sequence was typed, or is not carried by others, keeps them unique.
LEMMA WriteUnique ==
  ASSUME Types, SequencesUnique, NEW c \in Contracts, NEW r \in Rows,
         contract' = [contract EXCEPT ![c] = r], moved \subseteq moved',
         \/ r.number \in Typed
         \/ contract[c] # Absent /\ r.number = contract[c].number
         \/ \A d \in Numbered \ moved : /\ contract[d].number.seller = r.number.seller
                                        /\ contract[d].number.seq = r.number.seq
              => <<r.number.seller, r.number.seq>> \in TypedSequences
  PROVE  SequencesUnique'
<1>1. /\ contract'[c] = r
      /\ \A d \in Contracts \ {c} : contract'[d] = contract[d]
  BY DEF Types
<1>2. ASSUME NEW d \in Contracts \ {c}, contract[d] # Absent, contract[d].number.seller # None,
             c \notin moved', d \notin moved',
             r.number.seller = contract[d].number.seller, r.number.seq = contract[d].number.seq
      PROVE  <<r.number.seller, r.number.seq>> \in TypedSequences
  <2>1. d \in Numbered \ moved /\ c \notin moved
    BY <1>2 DEF Numbered, Existing
  <2>2. CASE r.number \in Typed
    BY <2>2 DEF TypedSequences
  <2>3. CASE contract[c] # Absent /\ r.number = contract[c].number
    <3>1. c \in Numbered \ moved
      BY <1>2, <2>1, <2>3 DEF Numbered, Existing
    <3> QED
      BY <1>2, <2>1, <2>3, <3>1 DEF SequencesUnique
  <2> QED
    BY <1>2, <2>1, <2>2, <2>3
<1> SUFFICES ASSUME NEW d \in Contracts, NEW e \in Contracts, d # e,
                    d \notin moved', e \notin moved',
                    contract'[d] # Absent, contract'[d].number.seller # None,
                    contract'[e] # Absent, contract'[e].number.seller # None,
                    contract'[e].number.seller = contract'[d].number.seller,
                    contract'[e].number.seq = contract'[d].number.seq
             PROVE  <<contract'[d].number.seller, contract'[d].number.seq>> \in TypedSequences
  BY DEF SequencesUnique, Numbered, Existing, TypedSequences
<1>3. CASE d = c
  BY <1>1, <1>2, <1>3
<1>4. CASE e = c
  BY <1>1, <1>2, <1>4
<1>5. CASE d # c /\ e # c
  <2>1. d \in Numbered \ moved /\ e \in Numbered \ moved
    BY <1>1, <1>5 DEF Numbered, Existing
  <2> QED
    BY <1>1, <1>5, <2>1 DEF SequencesUnique
<1> QED
  BY <1>3, <1>4, <1>5

\* A client's request is taken up.
LEMMA RequestSerial ==
  ASSUME Inv, Serial, OneAtATime', NEW w \in Workers, Request(w)
  PROVE  Serial'
<1>0. Types /\ SequencesUnique
  BY DEF Inv, Serial
<1>1. ASSUME NEW label \in {"check", "save"}, NEW j, Start(w, label, j)
      PROVE  Serial'
  <2>1. /\ pc' \in [Workers -> Labels] /\ pc'[w] = label /\ job'[w] = j
        /\ \A v \in Workers \ {w} : pc'[v] = pc[v]
        /\ UNCHANGED <<contract, moved>>
    BY <1>0, <1>1 DEF Start, Types, Labels
  <2>2. Whole(w)'
    BY <1>1, <2>1 DEF Whole
  <2>3. SequencesUnique'
    BY <1>0, <2>1, StandUnique
  <2> QED
    BY <1>0, <2>1, <2>2, <2>3, AloneSerial
<1>2. ASSUME NEW c \in Contracts, NEW e, NEW s, NEW b, NEW number, NEW status,
             Create(w, c, e, s, b, number, status)
      PROVE  Serial'
  BY <1>1, <1>2 DEF Create
<1>3. ASSUME NEW c \in Contracts, NEW op, NEW new, Load(w, c, op, new)
      PROVE  Serial'
  BY <1>1, <1>3 DEF Load
<1> QED
  BY <1>2, <1>3 DEF Request, Update, UpdateStatus, Remove

\* A step of a request up to its end, and the loss of its connection.
LEMMA PrepareSerial ==
  ASSUME Inv, Serial, OneAtATime', NEW w \in Workers,
         CheckConverted(w) \/ TakeSnapshot(w) \/ LockAndNumber(w) \/ Refuse(w) \/ Crash(w)
  PROVE  Serial'
<1> DEFINE j == job[w]
<1>0. Types /\ SequencesUnique /\ UNCHANGED <<contract, moved>> /\ Whole(w)
  BY DEF Inv, Serial, CheckConverted, TakeSnapshot, LockAndNumber, Refuse, Crash
<1>1. SequencesUnique'
  BY <1>0, StandUnique
<1>2. ASSUME NEW label \in Labels, NEW k, Goto(w, label, k), pc[w] # "idle",
             label # "save",
             label \in {"lock", "insert"} /\ k.row.seller # None => k.seen = OfSeller(k.row.seller)
      PROVE  Serial'
  <2>1. /\ pc' \in [Workers -> Labels] /\ pc'[w] = label /\ job'[w] = k
        /\ \A v \in Workers \ {w} : pc'[v] = pc[v]
    BY <1>0, <1>2 DEF Goto, Types
  <2>2. Whole(w)'
    BY <1>0, <1>2, <2>1 DEF Whole, OfSeller, Existing
  <2> QED
    BY <1>0, <1>1, <1>2, <2>1, <2>2, AloneSerial
<1>3. CASE CheckConverted(w)
  <2>1. PICK label \in {"insert", "snapshot"} : Goto(w, label, j) /\ (label = "insert" <=> j.row.seller = None)
    BY <1>3 DEF CheckConverted
  <2> QED
    BY <1>2, <1>3, <2>1 DEF Labels, CheckConverted
<1>4. CASE TakeSnapshot(w)
  <2> DEFINE k == [j EXCEPT !.seen = OfSeller(j.row.seller)]
  <2>1. Goto(w, "lock", k) /\ pc[w] = "snapshot"
    BY <1>4 DEF TakeSnapshot
  <2>2. j \in Creates
    BY <1>0, <2>1 DEF Types, Creating
  <2>3. k.row = j.row /\ k.seen = OfSeller(j.row.seller)
    <3> HIDE DEF j
    <3> QED
      BY <2>2 DEF Creates
  <2> HIDE DEF k
  <2> QED
    BY <1>2, <2>1, <2>3 DEF Labels
<1>5. CASE LockAndNumber(w)
  <2> DEFINE s == j.row.seller
             rows == j.seen \intersect OfSeller(s)
             number == ContractNumber(s, j.row.buyer, NextSequence(s, rows))
             r == [j.row EXCEPT !.number = number]
             k == [j EXCEPT !.row = r]
  <2>1. Goto(w, "insert", [j EXCEPT !.row.number = number]) /\ pc[w] = "lock"
    BY <1>5 DEF LockAndNumber
  <2>2. j \in Creates /\ j.row \in NewRows
    BY <1>0, <2>1 DEF Types, Creating, Creates
  <2>3. [j EXCEPT !.row.number = number] = k
    BY <2>2 DEF Creates
  <2> HIDE DEF number
  <2>4. r.seller = s
    BY <2>2 DEF NewRows
  <2> HIDE DEF r
  <2>5. k.row = r /\ k.seen = j.seen
    BY <2>2 DEF Creates
  <2> HIDE DEF k
  <2>6. k.row.seller # None => k.seen = OfSeller(k.row.seller)
    BY <1>0, <2>1, <2>4, <2>5 DEF Whole
  <2> QED
    BY <1>2, <2>1, <2>3, <2>6 DEF Labels
<1>6. CASE Refuse(w) \/ Crash(w)
  <2>1. Goto(w, "idle", NoJob) /\ pc[w] # "idle"
    BY <1>6 DEF Refuse, Crash, End
  <2> QED
    BY <1>2, <2>1 DEF Labels
<1> QED
  BY <1>3, <1>4, <1>5, <1>6

\* The commit of a create or of an edit.
LEMMA CommitSerial ==
  ASSUME Inv, Serial, OneAtATime', NEW w \in Workers, Insert(w) \/ Save(w)
  PROVE  Serial'
<1> DEFINE j == job[w]
<1>0. Types /\ SequencesUnique /\ Inv' /\ End(w) /\ pc[w] # "idle"
  BY InsertInv, SaveInv DEF Inv, Serial, Insert, Save
<1>1. /\ pc' \in [Workers -> Labels] /\ pc'[w] = "idle"
      /\ \A v \in Workers \ {w} : pc'[v] = pc[v]
  BY <1>0, GotoWorker DEF End, Labels
<1>2. ASSUME Insert(w)
      PROVE  SequencesUnique'
  <2> DEFINE r == j.row
  <2>1. /\ pc[w] = "insert" /\ j \in Creates /\ Issues(w) /\ Fresh(w) /\ Whole(w)
        /\ contract' = [contract EXCEPT ![j.id] = r] /\ moved \subseteq moved'
    BY <1>2 DEF Insert, Inv, Types, Creating, Serial
  <2>2. j.id \in Contracts /\ r \in NewRows /\ r.number \in Numbers
    BY <2>1 DEF Creates, Issues
  <2>3. r \in Rows
    <3> HIDE DEF r
    <3> QED
      BY <2>2 DEF NewRows, Rows
  <2>4. CASE r.seller = None
    <3>1. r.number \in Typed
      BY <2>1, <2>4 DEF Fresh, Creating
    <3> HIDE DEF r, j
    <3> QED
      BY <1>0, <2>1, <2>2, <2>3, <3>1, WriteUnique
  <2>5. CASE r.seller # None
    <3>1. ASSUME NEW d \in Numbered \ moved, contract[d].number.seller = r.number.seller,
                 contract[d].number.seq = r.number.seq
          PROVE  <<r.number.seller, r.number.seq>> \in TypedSequences
      <4>1. d \in Contracts /\ contract[d] # Absent /\ Sourced(contract[d]) /\ contract[d] \in Rows
        BY DEF Numbered, Existing, Inv, Types, Booked
      <4>2. r.number.seller = r.seller
        BY <2>1, <2>5 DEF Issues, Generated
      <4>3. CASE contract[d].number \in Typed
        BY <3>1, <4>3 DEF TypedSequences
      <4>4. CASE contract[d].number \notin Typed /\ Generated(contract[d].number)
        <5>1. d \in OfSeller(r.seller)
          BY <3>1, <4>1, <4>2, <4>4 DEF Inv, Booked, OfSeller, Existing
        <5>2. d \in locked[w]
          BY <2>1, <2>5, <5>1 DEF Whole, Issues
        <5>3. contract[d].number.seq < r.number.seq
          BY <2>1, <2>5, <3>1, <4>2, <5>2 DEF Issues
        <5>4. r.number.seq \in Nat
          BY <2>2 DEF Numbers
        <5> QED
          BY <3>1, <5>3, <5>4
      <4> QED
        BY <4>1, <4>3, <4>4 DEF Sourced
    <3> HIDE DEF r, j
    <3> QED
      BY <1>0, <2>1, <2>2, <2>3, <3>1, WriteUnique
  <2> QED
    BY <2>4, <2>5
<1>3. ASSUME Save(w)
      PROVE  SequencesUnique'
  <2> DEFINE r == Saved(w)
             now == contract[j.id]
  <2>1. /\ pc[w] = "save" /\ j \in Edits /\ Exists(w)
        /\ contract' = [contract EXCEPT ![j.id] = r] /\ moved \subseteq moved'
    BY <1>3 DEF Save, Inv, Types
  <2>2. j.id \in Contracts /\ now # Absent /\ j.new.number \in Typed \union {Keep}
    BY <2>1 DEF Edits, News, Exists
  <2>3. r.number = Field(j.new.number, j.was.number, now.number)
    BY DEF Saved
  <2>4. r.number = now.number \/ r.number \in Typed
    BY <2>2, <2>3 DEF Field
  <2>5. contract'[j.id] = r /\ contract' \in [Contracts -> Rows \union {Absent}]
    BY <1>0, <2>1, <2>2 DEF Inv, Types
  <2>6. r \in Rows
    <3>1. r # Absent
      BY DEF Saved, Absent
    <3> QED
      BY <2>2, <2>5, <3>1
  <2> HIDE DEF r, j
  <2> QED
    BY <1>0, <2>1, <2>2, <2>4, <2>6, WriteUnique
<1>4. Whole(w)'
  BY <1>1 DEF Whole
<1> QED
  BY <1>0, <1>1, <1>2, <1>3, <1>4, AloneSerial

\* Nothing has run yet at the beginning.
LEMMA InitSerial == Init => Serial
BY DEF Init, Serial, OneAtATime, SequencesUnique, Numbered, Existing, Whole

\* Every step of a behaviour in the serial mode keeps what requests that run alone rely on.
LEMMA StepSerial == Inv /\ SerialInv /\ [ModeNext]_<<vars, mode>> => SerialInv'
<1> SUFFICES ASSUME Inv, SerialInv, ModeNext \/ UNCHANGED <<vars, mode>>, mode' = "serial"
             PROVE  Serial'
  BY DEF SerialInv
<1>1. mode = "serial" /\ Serial
  BY DEF SerialInv, ModeNext
<1>2. CASE ModeNext
  <2>1. OneAtATime'
    BY <1>1, <1>2 DEF ModeNext
  <2>2. PICK w \in Workers : Request(w) \/ Proceed(w) \/ Crash(w)
    BY <1>2 DEF ModeNext, Next
  <2> QED
    BY <1>1, <2>1, <2>2, RequestSerial, PrepareSerial, CommitSerial DEF Proceed
<1>3. CASE UNCHANGED <<vars, mode>>
  BY <1>1, <1>3 DEF vars, Serial, OneAtATime, SequencesUnique, Numbered, Existing, Whole, OfSeller,
     TypedSequences
<1> QED
  BY <1>2, <1>3

\* Both invariants hold of every behaviour in either mode.
THEOREM ModeInvariance == ModeSpec => [](Inv /\ SerialInv)
<1>1. ModeInit => Inv /\ SerialInv
  BY InitInv, InitSerial DEF ModeInit, SerialInv
<1>2. Inv /\ [ModeNext]_<<vars, mode>> => Inv'
  BY StepInv DEF ModeNext, vars
<1>3. Inv /\ SerialInv /\ [ModeNext]_<<vars, mode>> => SerialInv'
  BY StepSerial
<1> QED
  BY <1>1, <1>2, <1>3, PTL DEF ModeSpec

\* The instance only restricts what requests carry.
THEOREM Restricts == MCSpec => ModeSpec
<1>1. [MCNext]_<<vars, mode>> => [ModeNext]_<<vars, mode>>
  BY DEF MCNext
<1> QED
  BY <1>1, PTL DEF MCSpec, ModeSpec

\* Requests that run one at a time generate sequences that are unique per seller; requests
\* that race, sequences that only numbers of different buyers share.
THEOREM Told == ModeSpec => []SequencesTold
<1>1. Inv /\ SerialInv => SequencesTold
  BY InvShares DEF SerialInv, Serial, SequencesTold
<1> QED
  BY <1>1, ModeInvariance, PTL

=============================================================================
