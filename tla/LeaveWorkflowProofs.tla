-------------------------- MODULE LeaveWorkflowProofs --------------------------
(***************************************************************************)
(* Proofs about LeaveWorkflow, for any number of requests, days and        *)
(* workers, whatever employees ask for.                                    *)
(*                                                                         *)
(* Inv is the inductive invariant.  Its control part says what each worker *)
(* may rely on at each label: the request it works on keeps its status     *)
(* while its row is locked, and what was read of the balance still holds   *)
(* when it is written.  A step of one worker leaves the control part of    *)
(* the others alone (OthersKeep), because no two workers lock one row.     *)
(***************************************************************************)
EXTENDS LeaveWorkflow, SetLemmas

-----------------------------------------------------------------------------
(* The inductive invariant *)

\* No two workers have locked one row.
Exclusive == \A v, w \in Workers : v # w => holds[v] \intersect holds[w] \subseteq {Key}

\* A row that is not there is blank, and no request is there without a balance row.
Rows ==
  \A r \in Requests : IF request[r].status = "none" THEN request[r] = NoRequest ELSE balance.made

\* A presence supersedes the mark that took a day.
MarksStand == \A d \in Days : record[d].paid /\ record[d].status # "ON_LEAVE" => record[d].in

About == {"approveLeave", "rejectLeave", "cancelLeave", "cancelApprovedLeave", "recalculateSingleLeave"}
Marking == {"manualAttendance", "checkIn"}

\* Handlers that come to a label
Ops(label) ==
  CASE label = "idle" -> {"none"}
    [] label = "employee" -> {"applyLeave"}
    [] label = "request" -> About
    [] label = "balance" -> About \union {"applyLeave", "manualAttendance"}
    [] label = "create" -> {"applyLeave", "manualAttendance"}
    [] label = "records" -> {"approveLeave", "cancelApprovedLeave"}
    [] label = "record" -> Marking
    [] label = "commit" -> {"approveLeave", "cancelApprovedLeave"} \union Marking

\* A request that is going to be created is not there, and is nobody else's.
Applies(w) ==
  LET j == job[w]
  IN j.op = "applyLeave" =>
       /\ j.r \in Requests /\ j.span \in Spans /\ j.days > 0 /\ j.type \in LeaveType
       /\ request[j.r] = NoRequest
       /\ \A v \in Workers \ {w} : job[v].op = "applyLeave" => job[v].r # j.r
       /\ pc[w] \in {"balance", "create"} =>
            /\ Employee \in holds[w]
            /\ \A q \in ActiveRequests : ~Overlap(request[q].span, j.span)

\* The status under which a handler goes on from the label "request"
Ready(op) == CASE op = "cancelApprovedLeave" -> {"APPROVED"}
               [] op = "recalculateSingleLeave" -> Active
               [] OTHER -> {"PENDING"}

\* A request that is worked on keeps the status it was locked with.
Handles(w) ==
  LET j == job[w]
  IN j.op \in About =>
       /\ j.r \in Requests /\ request[j.r].status # "none"
       /\ pc[w] # "request" => Request(j.r) \in holds[w] /\ request[j.r].status \in Ready(j.op)
       /\ pc[w] \in {"records", "commit"} => Balance \in holds[w]
       /\ pc[w] \in {"records", "commit"} /\ j.op = "approveLeave" =>
            balance.remaining - (j.days - request[j.r].days) >= 0

\* The balance as a manual entry finds it once the last one is withdrawn
Withdrawn(j) == IF Refunds(j) THEN Refunded(balance) ELSE balance

\* An attendance row that was there is locked; what a mark takes still fits.
Records(w) ==
  LET j == job[w]
  IN j.op \in Marking =>
       /\ j.day \in Days
       /\ j.op = "manualAttendance" => j.mark \in Marks
       /\ j.op = "checkIn" => j.mark = "none"
       /\ pc[w] = "record" => ~j.row
       /\ j.row => Record(j.day) \in holds[w]
       /\ pc[w] = "commit" /\ j.op = "manualAttendance" /\ (Refunds(j) \/ Deducts(j)) =>
            /\ Balance \in holds[w]
            /\ j.type \in LeaveType
            /\ Deducts(j) => Fits(j.type, Withdrawn(j), FullDay)

ControlOf(w) == job[w].op \in Ops(pc[w]) /\ Applies(w) /\ Handles(w) /\ Records(w)

Control == \A w \in Workers : ControlOf(w)

Accounts == PendingAccounted /\ UsedCovers /\ NeverOverdrawn

Inv == TypeOK /\ Exclusive /\ Rows /\ MarksStand /\ Control /\ Accounts /\ NoOverlap

-----------------------------------------------------------------------------
(* Sums of days *)

\* Two requests of the same days count the same, and a request that changes changes the sums
\* of the statuses it leaves and enters.
LEMMA DaysWithNat ==
  ASSUME TypeOK, NEW status
  PROVE  /\ DaysWith(status) \in Nat
         /\ \A r \in With(status) : request[r].days <= DaysWith(status)
<1> DEFINE days == [r \in Requests |-> request[r].days]
<1>1. IsFiniteSet(With(status)) /\ \A r \in With(status) : days[r] \in Nat
  BY RequestsAssumption, FS_Subset DEF With, TypeOK
<1>2. DaysWith(status) = SumFunctionOnSet(days, With(status))
  BY DEF DaysWith
<1> HIDE DEF days
<1>3. DaysWith(status) \in Nat
  BY <1>1, <1>2, SumNat
<1>4. ASSUME NEW r \in With(status)
      PROVE  request[r].days <= DaysWith(status)
  <2>1. DaysWith(status) = days[r] + SumFunctionOnSet(days, With(status) \ {r})
    BY <1>1, <1>2, SumRemove
  <2>2. IsFiniteSet(With(status) \ {r}) /\ \A q \in With(status) \ {r} : days[q] \in Nat
    BY <1>1, FS_RemoveElement
  <2>3. SumFunctionOnSet(days, With(status) \ {r}) \in Nat
    BY <2>2, SumNat
  <2>4. days[r] = request[r].days /\ days[r] \in Nat
    BY <1>1 DEF days, With
  <2> QED
    BY <2>1, <2>3, <2>4
<1> QED
  BY <1>3, <1>4

Share(row, status) == IF row.status = status THEN row.days ELSE 0

\* A write of one request row moves its days from the sum of the old status to that of the new.
LEMMA DaysWithMoves ==
  ASSUME TypeOK, TypeOK', NEW r \in Requests, \A q \in Requests \ {r} : request'[q] = request[q],
         NEW status
  PROVE  DaysWith(status)' = DaysWith(status) - Share(request[r], status) + Share(request'[r], status)
<1> DEFINE f == [q \in Requests |-> request[q].days]
           g == [q \in Requests |-> request'[q].days]
           Rest == With(status) \ {r}
<1>1. With(status)' \ {r} = Rest
  BY DEF With
<1>2. /\ IsFiniteSet(With(status)) /\ IsFiniteSet(With(status)') /\ IsFiniteSet(Rest)
      /\ With(status) \subseteq Requests /\ With(status)' \subseteq Requests
  BY RequestsAssumption, FS_Subset DEF With
<1>3. /\ \A q \in Requests : f[q] \in Nat /\ g[q] \in Nat
      /\ \A q \in Rest : f[q] = g[q]
  BY DEF TypeOK, With
<1>4. /\ DaysWith(status) = SumFunctionOnSet(f, With(status))
      /\ DaysWith(status)' = SumFunctionOnSet(g, With(status)')
  BY DEF DaysWith
<1>5. f[r] = request[r].days /\ g[r] = request'[r].days
  OBVIOUS
<1> HIDE DEF f, g
<1>6. SumFunctionOnSet(f, Rest) = SumFunctionOnSet(g, Rest)
  <2>1. \A q \in Rest : f[q] = g[q]
    BY <1>3
  <2> HIDE DEF Rest
  <2> QED
    BY <1>2, <2>1, SumSame
<1>7. SumFunctionOnSet(f, Rest) \in Nat
  <2>1. \A q \in Rest : f[q] \in Nat
    BY <1>3 DEF With
  <2> HIDE DEF Rest
  <2> QED
    BY <1>2, <2>1, SumNat
<1>8. DaysWith(status) = SumFunctionOnSet(f, Rest) + Share(request[r], status)
  <2>1. CASE r \in With(status)
    <3>1. \A q \in With(status) : f[q] \in Int
      BY <1>2, <1>3
    <3>2. SumFunctionOnSet(f, With(status)) = f[r] + SumFunctionOnSet(f, Rest)
      BY <1>2, <2>1, <3>1, SumRemove
    <3> QED
      BY <1>3, <1>4, <1>5, <1>7, <2>1, <3>2 DEF Share, With
  <2>2. CASE r \notin With(status)
    <3>1. Rest = With(status)
      BY <2>2
    <3>2. request[r].status # status
      BY <2>2 DEF With
    <3> QED
      BY <1>4, <1>7, <3>1, <3>2 DEF Share
  <2> QED
    BY <2>1, <2>2
<1>9. DaysWith(status)' = SumFunctionOnSet(g, Rest) + Share(request'[r], status)
  <2>1. CASE r \in With(status)'
    <3>1. \A q \in With(status)' : g[q] \in Int
      BY <1>2, <1>3
    <3>2. SumFunctionOnSet(g, With(status)') = g[r] + SumFunctionOnSet(g, Rest)
      BY <1>1, <1>2, <2>1, <3>1, SumRemove
    <3> QED
      BY <1>3, <1>4, <1>5, <1>6, <1>7, <2>1, <3>2 DEF Share, With
  <2>2. CASE r \notin With(status)'
    <3>1. Rest = With(status)'
      BY <1>1, <2>2
    <3>2. request'[r].status # status
      BY <2>2 DEF With
    <3> QED
      BY <1>4, <1>6, <1>7, <3>1, <3>2 DEF Share
  <2> QED
    BY <2>1, <2>2
<1>10. Share(request[r], status) \in Nat /\ Share(request'[r], status) \in Nat
  BY DEF Share, TypeOK
<1> QED
  BY <1>6, <1>7, <1>8, <1>9, <1>10

-----------------------------------------------------------------------------
(* Locks *)

\* A request, an attendance row, the balance and the employee are different rows, and none is
\* the key of the employee.
LEMMA LockNames ==
  /\ Employee # Key /\ Balance # Key /\ Employee # Balance
  /\ \A r \in Requests : Request(r) # Key /\ Clash(Request(r)) = {Request(r)}
  /\ \A d \in Days : Record(d) # Key /\ Clash(Record(d)) = {Record(d)}
  /\ Clash(Balance) = {Balance} /\ Employee \in Clash(Employee)
BY DEF Employee, Key, Balance, Request, Record, Clash

\* Two transactions that hold the same lock clash on it, but for the key-share lock of an insert.
LEMMA OwnClash == \A x \in Locks : x # Key => x \in Clash(x)
BY LockNames DEF Locks, Clash

\* A worker waits for locks of rows.
LEMMA WantedLocks ==
  ASSUME TypeOK, Control, NEW w \in Workers
  PROVE  Wanted(w) \subseteq Locks
<1>1. ControlOf(w) /\ pc[w] \in Labels
  BY DEF Control, TypeOK
<1>2. CASE pc[w] = "request"
  BY <1>1, <1>2 DEF Wanted, Locks, ControlOf, Handles, Ops, About
<1>3. CASE pc[w] = "record"
  BY <1>1, <1>3 DEF Wanted, Locks, ControlOf, Records, Ops, Marking
<1>4. CASE pc[w] = "commit"
  BY <1>1, <1>4 DEF Wanted, Locks, ControlOf, Records, Ops, Marking
<1>5. CASE pc[w] \in {"idle", "employee", "balance", "create", "records"}
  BY <1>5 DEF Wanted, Locks, DaysOf
<1> QED
  BY <1>1, <1>2, <1>3, <1>4, <1>5 DEF Labels

\* The other workers are where they were.
Local(w) == \A v \in Workers \ {w} : pc'[v] = pc[v] /\ job'[v] = job[v] /\ holds'[v] = holds[v]

\* Nobody else has locked what w is about to write.
LEMMA NotBlocked ==
  ASSUME TypeOK, Control, NEW w \in Workers, Blockers(w) = {},
         NEW x \in Wanted(w), x # Key, NEW v \in Workers \ {w}
  PROVE  x \notin holds[v]
<1>1. holds[v] \intersect Clash(x) = {}
  BY DEF Blockers
<1>2. x \in Clash(x)
  BY WantedLocks, OwnClash
<1> QED
  BY <1>1, <1>2

\* A worker that takes the locks it waits for, unblocked, clashes with no other worker.
LEMMA AcquireExclusive ==
  ASSUME TypeOK, Control, Exclusive, NEW w \in Workers, Acquire(w)
  PROVE  /\ Exclusive'
         /\ holds' \in [Workers -> SUBSET Locks]
         /\ holds'[w] = holds[w] \union Wanted(w)
         /\ \A v \in Workers \ {w} : holds'[v] = holds[v]
<1>1. holds' = [holds EXCEPT ![w] = holds[w] \union Wanted(w)] /\ Blockers(w) = {}
  BY DEF Acquire
<1>2. Wanted(w) \subseteq Locks
  BY WantedLocks
<1>3. /\ holds' \in [Workers -> SUBSET Locks]
      /\ holds'[w] = holds[w] \union Wanted(w)
      /\ \A v \in Workers \ {w} : holds'[v] = holds[v]
  BY <1>1, <1>2 DEF TypeOK
<1>4. \A v \in Workers \ {w} : Wanted(w) \intersect holds[v] \subseteq {Key}
  BY <1>1, NotBlocked
<1> QED
  BY <1>3, <1>4 DEF Exclusive

\* The end of a transaction gives up its locks and leaves the worker with nothing to do.
LEMMA EndExclusive ==
  ASSUME TypeOK, Exclusive, NEW w \in Workers, End(w)
  PROVE  /\ Exclusive' /\ Local(w)
         /\ holds' \in [Workers -> SUBSET Locks] /\ pc' \in [Workers -> Labels]
         /\ job' \in [Workers -> Jobs] /\ ControlOf(w)'
<1>1. NoJob \in Jobs
  BY DEF NoJob, Jobs
<1>2. /\ holds' = [holds EXCEPT ![w] = {}] /\ pc' = [pc EXCEPT ![w] = "idle"]
      /\ job' = [job EXCEPT ![w] = NoJob]
  BY DEF End, Goto
<1>3. /\ holds' \in [Workers -> SUBSET Locks] /\ pc' \in [Workers -> Labels]
      /\ job' \in [Workers -> Jobs] /\ Local(w)
  BY <1>1, <1>2 DEF TypeOK, Labels, Local
<1>4. pc'[w] = "idle" /\ job'[w] = NoJob /\ holds'[w] = {}
  BY <1>2 DEF TypeOK
<1>5. ControlOf(w)'
  BY <1>4 DEF ControlOf, Applies, Handles, Records, Ops, NoJob, About, Marking
<1>6. Exclusive'
  BY <1>3, <1>4 DEF Exclusive, Local
<1> QED
  BY <1>3, <1>5, <1>6

-----------------------------------------------------------------------------
(* A step of one worker and the others *)

\* w writes only what nobody else has locked, and creates only requests nobody else is creating.
Keeps(w) ==
  /\ balance' = balance \/ \A v \in Workers \ {w} : Balance \notin holds[v]
  /\ \A r \in Requests : request'[r] # request[r] =>
       /\ request'[r].status # "none"
       /\ \A v \in Workers \ {w} : IF request[r].status = "none"
                                   THEN job[v].op = "applyLeave" => job[v].r # r
                                   ELSE Request(r) \notin holds[v]
       /\ request'[r].status \in Active =>
            \/ request[r].status \in Active /\ request'[r].span = request[r].span
            \/ \A v \in Workers \ {w} : Employee \notin holds[v]
  /\ \A d \in Days : record'[d] # record[d] => \A v \in Workers \ {w} : Record(d) \notin holds[v]

\* What the others rely on still holds.
LEMMA OthersKeep ==
  ASSUME TypeOK, Control, NEW w \in Workers, Local(w), Keeps(w), Applies(w)',
         NEW v \in Workers \ {w}
  PROVE  ControlOf(v)'
<1>1. ControlOf(v) /\ pc'[v] = pc[v] /\ job'[v] = job[v] /\ holds'[v] = holds[v]
  BY DEF Control, Local
<1>2. Applies(v)'
  <2> SUFFICES ASSUME job[v].op = "applyLeave"
               PROVE  Applies(v)'
    BY <1>1 DEF Applies
  <2>1. Applies(v)
    BY <1>1 DEF ControlOf
  <2>2. job[v].r \in Requests /\ request[job[v].r] = NoRequest /\ request'[job[v].r] = request[job[v].r]
    BY <2>1 DEF Applies, Keeps, NoRequest
  <2>3. ASSUME NEW u \in Workers \ {v}, job'[u].op = "applyLeave"
        PROVE  job'[u].r # job[v].r
    <3>1. CASE u = w
      BY <1>1, <2>3, <3>1 DEF Applies
    <3>2. CASE u # w
      BY <2>1, <2>3, <3>2 DEF Applies, Local
    <3> QED
      BY <3>1, <3>2
  <2>4. ASSUME pc[v] \in {"balance", "create"}
        PROVE  /\ Employee \in holds[v]
               /\ \A q \in ActiveRequests' : ~Overlap(request'[q].span, job[v].span)
    <3>1. Employee \in holds[v] /\ \A q \in ActiveRequests : ~Overlap(request[q].span, job[v].span)
      BY <2>1, <2>4 DEF Applies
    <3>2. ASSUME NEW q \in ActiveRequests'
          PROVE  q \in ActiveRequests /\ request'[q].span = request[q].span
      BY <3>1 DEF ActiveRequests, Keeps
    <3> QED
      BY <3>1, <3>2
  <2> QED
    BY <1>1, <2>1, <2>2, <2>3, <2>4 DEF Applies
<1>3. Handles(v)'
  <2> SUFFICES ASSUME job[v].op \in About
               PROVE  Handles(v)'
    BY <1>1 DEF Handles
  <2>1. Handles(v)
    BY <1>1 DEF ControlOf
  <2>2. job[v].r \in Requests /\ request[job[v].r].status # "none" /\ request'[job[v].r].status # "none"
    BY <2>1 DEF Handles, Keeps
  <2>3. pc[v] # "request" => request'[job[v].r] = request[job[v].r]
    BY <2>1, <2>2 DEF Handles, Keeps
  <2>4. pc[v] \in {"records", "commit"} => balance' = balance
    BY <2>1 DEF Handles, Keeps
  <2> QED
    BY <1>1, <2>1, <2>2, <2>3, <2>4 DEF Handles
<1>4. Records(v)'
  <2> SUFFICES ASSUME job[v].op \in Marking
               PROVE  Records(v)'
    BY <1>1 DEF Records
  <2>1. Records(v) /\ job[v].day \in Days
    BY <1>1 DEF ControlOf, Records
  <2>2. job[v].row => record'[job[v].day] = record[job[v].day]
    BY <2>1 DEF Records, Keeps
  <2>3. Refunds(job[v])' <=> Refunds(job[v])
    BY <1>1, <2>2 DEF Refunds
  <2>4. Balance \in holds[v] => balance' = balance
    BY DEF Keeps
  <2>5. Balance \in holds[v] => Withdrawn(job[v])' = Withdrawn(job[v])
    BY <1>1, <2>3, <2>4 DEF Withdrawn, Refunded
  <2> QED
    BY <1>1, <2>1, <2>2, <2>3, <2>5 DEF Records, Deducts, Fits
<1> QED
  BY <1>1, <1>2, <1>3, <1>4 DEF ControlOf

\* A step that writes no row
LEMMA QuietStep ==
  ASSUME Inv, NEW w \in Workers, UNCHANGED tables, events' \in 0..MaxEvents, Local(w), Exclusive',
         holds' \in [Workers -> SUBSET Locks], pc' \in [Workers -> Labels],
         job' \in [Workers -> Jobs], ControlOf(w)'
  PROVE  Inv'
<1>1. Keeps(w)
  BY DEF Keeps, tables
<1>2. Control'
  <2>1. \A v \in Workers \ {w} : ControlOf(v)'
    BY <1>1, OthersKeep DEF Inv, ControlOf
  <2> QED
    BY <2>1 DEF Control
<1>3. TypeOK'
  BY DEF Inv, TypeOK, tables
<1>4. Rows' /\ MarksStand'
  BY DEF Inv, Rows, MarksStand, tables
<1>5. Accounts'
  BY DEF Inv, Accounts, PendingAccounted, UsedCovers, NeverOverdrawn, DaysWith, With, MarkedDays, tables
<1>6. NoOverlap'
  BY DEF Inv, NoOverlap, ActiveRequests, tables
<1> QED
  BY <1>2, <1>3, <1>4, <1>5, <1>6 DEF Inv

-----------------------------------------------------------------------------
(* Steps that write no row *)

\* Going to a label changes that worker's label and job only.
LEMMA GotoLocal ==
  ASSUME TypeOK, NEW w \in Workers, NEW label \in Labels, NEW j \in Jobs, Goto(w, label, j)
  PROVE  /\ pc' \in [Workers -> Labels] /\ job' \in [Workers -> Jobs]
         /\ pc'[w] = label /\ job'[w] = j
         /\ \A v \in Workers \ {w} : pc'[v] = pc[v] /\ job'[v] = job[v]
BY DEF Goto, TypeOK

\* A worker that goes on without a new lock
LEMMA GoesOn ==
  ASSUME Inv, NEW w \in Workers, NEW label \in Labels, NEW j \in Jobs, Goto(w, label, j),
         UNCHANGED <<tables, holds, events>>,
         pc'[w] = label /\ job'[w] = j => ControlOf(w)'
  PROVE  Inv'
<1>1. /\ pc' \in [Workers -> Labels] /\ job' \in [Workers -> Jobs]
      /\ pc'[w] = label /\ job'[w] = j
      /\ \A v \in Workers \ {w} : pc'[v] = pc[v] /\ job'[v] = job[v]
  BY GotoLocal DEF Inv
<1>2. Local(w) /\ Exclusive' /\ holds' \in [Workers -> SUBSET Locks] /\ events' \in 0..MaxEvents
  BY <1>1 DEF Local, Inv, Exclusive, TypeOK
<1> QED
  BY <1>1, <1>2, QuietStep

\* ... and one that is granted its locks.
LEMMA GoesOnLocked ==
  ASSUME Inv, NEW w \in Workers, NEW label \in Labels, NEW j \in Jobs, Acquire(w), Goto(w, label, j),
         UNCHANGED <<tables, events>>,
         pc'[w] = label /\ job'[w] = j /\ holds'[w] = holds[w] \union Wanted(w) => ControlOf(w)'
  PROVE  Inv'
<1>1. /\ pc' \in [Workers -> Labels] /\ job' \in [Workers -> Jobs]
      /\ pc'[w] = label /\ job'[w] = j
      /\ \A v \in Workers \ {w} : pc'[v] = pc[v] /\ job'[v] = job[v]
  BY GotoLocal DEF Inv
<1>2. /\ Exclusive' /\ holds' \in [Workers -> SUBSET Locks] /\ events' \in 0..MaxEvents
      /\ holds'[w] = holds[w] \union Wanted(w)
      /\ \A v \in Workers \ {w} : holds'[v] = holds[v]
  BY AcquireExclusive DEF Inv, TypeOK
<1>3. Local(w)
  BY <1>1, <1>2 DEF Local
<1> QED
  BY <1>1, <1>2, <1>3, QuietStep

\* A transaction that ends without a write
LEMMA EndsQuietly ==
  ASSUME Inv, NEW w \in Workers, End(w), UNCHANGED tables, events' \in 0..MaxEvents
  PROVE  Inv'
<1>1. /\ Exclusive' /\ Local(w)
      /\ holds' \in [Workers -> SUBSET Locks] /\ pc' \in [Workers -> Labels]
      /\ job' \in [Workers -> Jobs] /\ ControlOf(w)'
  BY EndExclusive DEF Inv
<1> QED
  BY <1>1, QuietStep

\* A handler that throws rolls its transaction back and changes no row.
LEMMA RefuseInv ==
  ASSUME Inv, NEW w \in Workers, Refuse(w)
  PROVE  Inv'
<1>1. End(w) /\ UNCHANGED tables /\ events' \in 0..MaxEvents
  BY DEF Refuse, Inv, TypeOK
<1> QED
  BY <1>1, EndsQuietly

\* The calendar, and the sums of days that are there
LEMMA CountNat ==
  ASSUME NEW s
  PROVE  Count(s) \in Nat
<1>1. IsFiniteSet(DaysOf(s) \ closed)
  BY DaysAssumption, FS_Subset DEF DaysOf
<1>2. Cardinality(DaysOf(s) \ closed) \in Nat
  BY <1>1, FS_CardinalityType
<1> QED
  BY <1>2 DEF Count, HalfDay, FullDay

\* Today is a day of the calendar.
LEMMA TodayIsDay == Today \in Days
<1>1. Days \subseteq Int /\ Days # {} /\ IsFiniteSet(Days)
  BY DaysAssumption
<1> QED
  BY <1>1, MinOfFinite DEF Today

\* applyLeave, its checks before the transaction, keeps the invariant.
LEMMA ApplyLeaveInv ==
  ASSUME Inv, NEW w \in Workers, ApplyLeave(w)
  PROVE  Inv'
<1>1. PICK s \in Spans, r \in Fresh :
        /\ Count(s) > 0
        /\ Start(w, "employee", [NoJob EXCEPT !.op = "applyLeave", !.r = r, !.span = s,
                                              !.days = Count(s), !.type = type])
  BY DEF ApplyLeave
<1> DEFINE j == [NoJob EXCEPT !.op = "applyLeave", !.r = r, !.span = s, !.days = Count(s), !.type = type]
<1>2. r \in Requests /\ request[r] = NoRequest /\ \A v \in Workers : job[v].r # r
  BY DEF Fresh
<1>3. /\ j.op = "applyLeave" /\ j.r = r /\ j.span = s /\ j.days = Count(s) /\ j.type = type
      /\ j \in Jobs
  BY <1>2, CountNat DEF NoJob, Jobs, Inv, TypeOK, Handlers
<1>4. pc'[w] = "employee" /\ job'[w] = j => ControlOf(w)'
  <2> SUFFICES ASSUME pc'[w] = "employee", job'[w] = j
               PROVE  ControlOf(w)'
    OBVIOUS
  <2>1. request' = request /\ \A v \in Workers \ {w} : job'[v] = job[v]
    BY <1>1 DEF Start, Goto, tables, Inv, TypeOK
  <2>2. Applies(w)'
    BY <1>1, <1>2, <1>3, <2>1 DEF Applies, Inv, TypeOK
  <2> QED
    BY <1>3, <2>2 DEF ControlOf, Handles, Records, Ops, About, Marking
<1> HIDE DEF j
<1>5. Goto(w, "employee", j) /\ UNCHANGED <<tables, holds, events>> /\ "employee" \in Labels
  BY <1>1 DEF Start, j, Labels
<1> QED
  BY <1>3, <1>4, <1>5, GoesOn

\* A request about a leave request that is there keeps the invariant.
LEMMA AskAboutInv ==
  ASSUME Inv, NEW w \in Workers, AskAbout(w)
  PROVE  Inv'
<1>1. PICK op \in About, r \in Requests :
        request[r] # NoRequest /\ Start(w, "request", [NoJob EXCEPT !.op = op, !.r = r])
  BY DEF AskAbout, About, Handlers
<1> DEFINE j == [NoJob EXCEPT !.op = op, !.r = r]
<1>2. /\ j.op = op /\ j.r = r /\ j \in Jobs
  BY DEF NoJob, Jobs, About, Handlers
<1>3. request[r].status # "none"
  BY <1>1 DEF Inv, Rows
<1>4. pc'[w] = "request" /\ job'[w] = j => ControlOf(w)'
  <2>1. request' = request
    BY <1>1 DEF Start, tables
  <2> QED
    BY <1>2, <1>3, <2>1 DEF ControlOf, Applies, Handles, Records, Ops, About, Marking
<1> HIDE DEF j
<1>5. Goto(w, "request", j) /\ UNCHANGED <<tables, holds, events>> /\ "request" \in Labels
  BY <1>1 DEF Start, j, Labels
<1> QED
  BY <1>2, <1>4, <1>5, GoesOn

\* manualAttendance, its arguments read, keeps the invariant.
LEMMA MarkDayInv ==
  ASSUME Inv, NEW w \in Workers, MarkDay(w)
  PROVE  Inv'
<1>1. PICK d \in Days, mark \in Marks :
        Start(w, "record", [NoJob EXCEPT !.op = "manualAttendance", !.day = d, !.mark = mark])
  BY DEF MarkDay
<1> DEFINE j == [NoJob EXCEPT !.op = "manualAttendance", !.day = d, !.mark = mark]
<1>2. j.op = "manualAttendance" /\ j.day = d /\ j.mark = mark /\ ~j.row /\ j \in Jobs
  BY DEF NoJob, Jobs, Handlers
<1>3. pc'[w] = "record" /\ job'[w] = j => ControlOf(w)'
  BY <1>2 DEF ControlOf, Applies, Handles, Records, Ops, About, Marking
<1> HIDE DEF j
<1>4. Goto(w, "record", j) /\ UNCHANGED <<tables, holds, events>> /\ "record" \in Labels
  BY <1>1 DEF Start, j, Labels
<1> QED
  BY <1>2, <1>3, <1>4, GoesOn

\* checkIn, which is for today and marks nothing, keeps the invariant.
LEMMA CheckInInv ==
  ASSUME Inv, NEW w \in Workers, CheckIn(w)
  PROVE  Inv'
<1> DEFINE j == [NoJob EXCEPT !.op = "checkIn", !.day = Today]
<1>1. j.op = "checkIn" /\ j.day \in Days /\ j.mark = "none" /\ ~j.row /\ j \in Jobs
  BY TodayIsDay DEF NoJob, Jobs, Handlers
<1>2. pc'[w] = "record" /\ job'[w] = j => ControlOf(w)'
  BY <1>1 DEF ControlOf, Applies, Handles, Records, Ops, About, Marking
<1> HIDE DEF j
<1>3. Goto(w, "record", j) /\ UNCHANGED <<tables, holds, events>> /\ "record" \in Labels
  BY DEF CheckIn, Start, j, Labels
<1> QED
  BY <1>1, <1>2, <1>3, GoesOn

\* The lock of the employee row, before the overlap is looked at, keeps the invariant.
LEMMA LockEmployeeInv ==
  ASSUME Inv, NEW w \in Workers, LockEmployee(w)
  PROVE  Inv'
<1> DEFINE j == job[w]
<1>1. ControlOf(w) /\ j \in Jobs /\ pc[w] = "employee"
  BY DEF Inv, Control, TypeOK, LockEmployee
<1>2. j.op = "applyLeave" /\ Applies(w)
  BY <1>1 DEF ControlOf, Ops
<1>3. pc'[w] = "balance" /\ job'[w] = j /\ holds'[w] = holds[w] \union Wanted(w) => ControlOf(w)'
  <2> SUFFICES ASSUME pc'[w] = "balance", job'[w] = j, holds'[w] = holds[w] \union Wanted(w)
               PROVE  ControlOf(w)'
    OBVIOUS
  <2>1. request' = request /\ \A v \in Workers \ {w} : job'[v] = job[v]
    BY DEF LockEmployee, tables, Goto, Inv, TypeOK
  <2>2. Employee \in holds'[w]
    BY <1>1 DEF Wanted
  <2>3. \A q \in ActiveRequests : ~Overlap(request[q].span, j.span)
    BY DEF LockEmployee
  <2>4. Applies(w)'
    BY <1>2, <2>1, <2>2, <2>3 DEF Applies, ActiveRequests
  <2> QED
    BY <1>2, <2>4 DEF ControlOf, Handles, Records, Ops, About, Marking
<1> HIDE DEF j
<1>4. Goto(w, "balance", j) /\ Acquire(w) /\ UNCHANGED <<tables, events>> /\ "balance" \in Labels
  BY DEF LockEmployee, j, Labels
<1> QED
  BY <1>1, <1>3, <1>4, GoesOnLocked

\* A missing balance row, which sends the handler to create it, keeps the invariant.
LEMMA NoBalanceRowInv ==
  ASSUME Inv, NEW w \in Workers, NoBalanceRow(w)
  PROVE  Inv'
<1> DEFINE j == job[w]
<1>1. ControlOf(w) /\ j \in Jobs /\ pc[w] = "balance"
  BY DEF Inv, Control, TypeOK, NoBalanceRow
<1>2. j.op \in {"applyLeave", "manualAttendance"}
  <2>1. j.op \notin About
    <3> SUFFICES ASSUME j.op \in About
                 PROVE  FALSE
      OBVIOUS
    <3>1. j.r \in Requests /\ request[j.r].status # "none"
      BY <1>1 DEF ControlOf, Handles
    <3> QED
      BY <3>1 DEF Inv, Rows, NoBalanceRow
  <2> QED
    BY <1>1, <2>1 DEF ControlOf, Ops
<1>3. pc'[w] = "create" /\ job'[w] = j => ControlOf(w)'
  <2> SUFFICES ASSUME pc'[w] = "create", job'[w] = j
               PROVE  ControlOf(w)'
    OBVIOUS
  <2>1. UNCHANGED <<tables, holds>> /\ \A v \in Workers \ {w} : job'[v] = job[v]
    BY DEF NoBalanceRow, Goto, Inv, TypeOK
  <2>2. Applies(w)'
    BY <1>1, <2>1 DEF ControlOf, Applies, ActiveRequests, tables
  <2>3. Records(w)'
    BY <1>1, <2>1 DEF ControlOf, Records
  <2> QED
    BY <1>2, <2>2, <2>3 DEF ControlOf, Handles, Ops, About
<1> HIDE DEF j
<1>4. Goto(w, "create", j) /\ UNCHANGED <<tables, holds, events>> /\ "create" \in Labels
  BY DEF NoBalanceRow, j, Labels
<1> QED
  BY <1>1, <1>3, <1>4, GoesOn

\* The lock of the request row and the check of its status keep the invariant.
LEMMA LockRequestInv ==
  ASSUME Inv, NEW w \in Workers, LockRequest(w)
  PROVE  Inv'
<1> DEFINE j == job[w]
<1>1. ControlOf(w) /\ j \in Jobs /\ pc[w] = "request"
  BY DEF Inv, Control, TypeOK, LockRequest
<1>2. j.op \in About /\ j.r \in Requests /\ request[j.r].status # "none"
  BY <1>1 DEF ControlOf, Ops, Handles
<1>3. request[j.r].status \in Ready(j.op)
  BY <1>2 DEF LockRequest, Allowed, Ready, Active, About
<1>4. pc'[w] = "balance" /\ job'[w] = j /\ holds'[w] = holds[w] \union Wanted(w) => ControlOf(w)'
  <2> SUFFICES ASSUME pc'[w] = "balance", job'[w] = j, holds'[w] = holds[w] \union Wanted(w)
               PROVE  ControlOf(w)'
    OBVIOUS
  <2>1. request' = request
    BY DEF LockRequest, tables
  <2>2. Request(j.r) \in holds'[w]
    BY <1>1 DEF Wanted
  <2>3. Handles(w)'
    BY <1>2, <1>3, <2>1, <2>2 DEF Handles
  <2> QED
    BY <1>2, <2>3 DEF ControlOf, Applies, Records, Ops, About, Marking
<1> HIDE DEF j
<1>5. Goto(w, "balance", j) /\ Acquire(w) /\ UNCHANGED <<tables, events>> /\ "balance" \in Labels
  BY DEF LockRequest, j, Labels
<1> QED
  BY <1>1, <1>4, <1>5, GoesOnLocked

\* cancelLeave of an approved request, which becomes cancelApprovedLeave, keeps the invariant.
LEMMA CancelInsteadInv ==
  ASSUME Inv, NEW w \in Workers, CancelInstead(w)
  PROVE  Inv'
<1> DEFINE j == [job[w] EXCEPT !.op = "cancelApprovedLeave"]
<1>1. ControlOf(w) /\ job[w] \in Jobs /\ pc[w] = "request"
  BY DEF Inv, Control, TypeOK, CancelInstead
<1>2. job[w].op \in About /\ job[w].r \in Requests /\ request[job[w].r].status # "none"
  BY <1>1 DEF ControlOf, Ops, Handles
<1>3. j \in Jobs /\ j.op = "cancelApprovedLeave" /\ j.r = job[w].r
  BY <1>1 DEF Jobs, Handlers
<1>4. pc'[w] = "request" /\ job'[w] = j => ControlOf(w)'
  <2>1. request' = request
    BY DEF CancelInstead, tables
  <2> QED
    BY <1>2, <1>3, <2>1 DEF ControlOf, Handles, Applies, Records, Ops, About, Marking
<1> HIDE DEF j
<1>5. Goto(w, "request", j) /\ UNCHANGED <<tables, holds, events>> /\ "request" \in Labels
  BY DEF CancelInstead, j, Labels
<1> QED
  BY <1>3, <1>4, <1>5, GoesOn

\* The lock of the balance row and the count of the days to approve keep the invariant.
LEMMA LockBalanceInv ==
  ASSUME Inv, NEW w \in Workers, LockBalance(w)
  PROVE  Inv'
<1> DEFINE r == job[w].r
           days == Count(request[r].span)
           j == IF job[w].op = "approveLeave" THEN [job[w] EXCEPT !.days = days] ELSE job[w]
<1>1. ControlOf(w) /\ job[w] \in Jobs /\ pc[w] = "balance"
  BY DEF Inv, Control, TypeOK, LockBalance
<1>2. job[w].op \in {"approveLeave", "cancelApprovedLeave"}
  BY DEF LockBalance
<1>3. /\ r \in Requests /\ request[r].status # "none"
      /\ Request(r) \in holds[w] /\ request[r].status \in Ready(job[w].op)
  BY <1>1, <1>2 DEF ControlOf, Handles, About
<1>4. days \in Nat /\ request[r].days \in Nat /\ balance.remaining \in Nat
  BY <1>3, CountNat DEF Inv, TypeOK
<1>5. /\ j \in Jobs /\ j.op = job[w].op /\ j.r = r
      /\ j.op = "approveLeave" => j.days = days
  BY <1>1, <1>4 DEF Jobs
<1>6. balance.made
  BY <1>3 DEF Inv, Rows
<1>7. pc'[w] = "records" /\ job'[w] = j /\ holds'[w] = holds[w] \union Wanted(w) => ControlOf(w)'
  <2> SUFFICES ASSUME pc'[w] = "records", job'[w] = j, holds'[w] = holds[w] \union Wanted(w)
               PROVE  ControlOf(w)'
    OBVIOUS
  <2>1. request' = request /\ balance' = balance
    BY DEF LockBalance, tables
  <2>2. Balance \in holds'[w]
    BY <1>1, <1>6 DEF Wanted
  <2>3. job[w].op = "approveLeave" => balance.remaining - (days - request[r].days) >= 0
    BY <1>4 DEF LockBalance, Recountable
  <2>4. Handles(w)'
    BY <1>2, <1>3, <1>5, <2>1, <2>2, <2>3 DEF Handles
  <2> QED
    BY <1>2, <1>5, <2>4 DEF ControlOf, Applies, Records, Ops, About, Marking
<1> HIDE DEF j
<1>8. Goto(w, "records", j) /\ Acquire(w) /\ UNCHANGED <<tables, events>> /\ "records" \in Labels
  BY DEF LockBalance, j, Labels
<1> QED
  BY <1>5, <1>7, <1>8, GoesOnLocked

\* The locks of the attendance records of an interval keep the invariant.
LEMMA LockRecordsInv ==
  ASSUME Inv, NEW w \in Workers, LockRecords(w)
  PROVE  Inv'
<1> DEFINE j == job[w]
<1>1. ControlOf(w) /\ j \in Jobs /\ pc[w] = "records"
  BY DEF Inv, Control, TypeOK, LockRecords
<1>2. j.op \in {"approveLeave", "cancelApprovedLeave"}
  BY <1>1 DEF ControlOf, Ops
<1>3. pc'[w] = "commit" /\ job'[w] = j /\ holds'[w] = holds[w] \union Wanted(w) => ControlOf(w)'
  <2> SUFFICES ASSUME pc'[w] = "commit", job'[w] = j, holds'[w] = holds[w] \union Wanted(w)
               PROVE  ControlOf(w)'
    OBVIOUS
  <2>1. request' = request /\ balance' = balance
    BY DEF LockRecords, tables
  <2>2. Handles(w)'
    BY <1>1, <1>2, <2>1 DEF ControlOf, Handles
  <2> QED
    BY <1>2, <2>2 DEF ControlOf, Applies, Records, Ops, About, Marking
<1> HIDE DEF j
<1>4. Goto(w, "commit", j) /\ Acquire(w) /\ UNCHANGED <<tables, events>> /\ "commit" \in Labels
  BY DEF LockRecords, j, Labels
<1> QED
  BY <1>1, <1>3, <1>4, GoesOnLocked

\* The lock of one attendance record, or that there is none, keeps the invariant.
LEMMA LockRecordInv ==
  ASSUME Inv, NEW w \in Workers, LockRecord(w)
  PROVE  Inv'
<1> DEFINE j == [job[w] EXCEPT !.row = Exists(job[w].day)]
           label == IF j.op = "manualAttendance" /\ (Refunds(j) \/ Deducts(j)) THEN "balance" ELSE "commit"
<1>1. ControlOf(w) /\ job[w] \in Jobs /\ pc[w] = "record"
  BY DEF Inv, Control, TypeOK, LockRecord
<1>2. job[w].op \in Marking /\ Records(w)
  BY <1>1 DEF ControlOf, Ops
<1>3. /\ j \in Jobs /\ j.op = job[w].op /\ j.day = job[w].day /\ j.mark = job[w].mark
      /\ j.row = Exists(job[w].day)
  BY <1>1 DEF Jobs, Exists
<1>4. pc'[w] = label /\ job'[w] = j /\ holds'[w] = holds[w] \union Wanted(w) => ControlOf(w)'
  <2> SUFFICES ASSUME pc'[w] = label, job'[w] = j, holds'[w] = holds[w] \union Wanted(w)
               PROVE  ControlOf(w)'
    OBVIOUS
  <2>1. record' = record
    BY DEF LockRecord, tables
  <2>2. j.row => Record(j.day) \in holds'[w]
    BY <1>1, <1>3 DEF Wanted
  <2>3. /\ Refunds(job[w])' <=> Refunds(j)
        /\ Deducts(job[w])' <=> Deducts(j)
    BY <2>1 DEF Refunds, Deducts
  <2> HIDE DEF j
  <2>4. Records(w)'
    BY <1>2, <1>3, <2>2, <2>3 DEF Records, Marking
  <2> QED
    BY <1>2, <1>3, <2>4 DEF ControlOf, Applies, Handles, Ops, About, Marking
<1> HIDE DEF j
<1>5. Goto(w, label, j) /\ Acquire(w) /\ UNCHANGED <<tables, events>> /\ label \in Labels
  BY DEF LockRecord, j, Labels
<1> HIDE DEF label
<1> QED
  BY <1>3, <1>4, <1>5, GoesOnLocked

\* manualAttendance with its balance row, created or locked, keeps the invariant.
LEMMA TakeBalanceInv ==
  ASSUME Inv, NEW w \in Workers, TakeBalance(w)
  PROVE  Inv'
<1> DEFINE j == [job[w] EXCEPT !.type = type]
<1>1. ControlOf(w) /\ job[w] \in Jobs /\ pc[w] \in {"balance", "create"} /\ job[w].op = "manualAttendance"
  BY DEF Inv, Control, TypeOK, TakeBalance, HasBalance
<1>2. Records(w) /\ type \in LeaveType
  BY <1>1 DEF ControlOf, Inv, TypeOK
<1>3. /\ j \in Jobs /\ j.op = job[w].op /\ j.day = job[w].day /\ j.mark = job[w].mark
      /\ j.row = job[w].row /\ j.type = type
  BY <1>1, <1>2 DEF Jobs
<1>4. Balance \in Wanted(w)
  BY DEF TakeBalance, HasBalance, Wanted
<1>5. pc'[w] = "commit" /\ job'[w] = j /\ holds'[w] = holds[w] \union Wanted(w) => ControlOf(w)'
  <2> SUFFICES ASSUME pc'[w] = "commit", job'[w] = j, holds'[w] = holds[w] \union Wanted(w)
               PROVE  ControlOf(w)'
    OBVIOUS
  <2>1. record' = record /\ balance' = balance
    BY DEF TakeBalance, tables
  <2>2. /\ Refunds(job[w])' <=> Refunds(job[w])
        /\ Deducts(job[w])' <=> Deducts(job[w])
    BY <1>3, <2>1 DEF Refunds, Deducts
  <2>3. Deducts(job[w]) => Fits(type, Withdrawn(job[w]), FullDay)
    BY DEF TakeBalance, MarkFits, Withdrawn
  <2>4. Withdrawn(job[w])' = Withdrawn(job[w])
    BY <2>1, <2>2 DEF Withdrawn, Refunded
  <2> HIDE DEF j
  <2>5. Records(w)'
    BY <1>1, <1>2, <1>3, <1>4, <2>2, <2>3, <2>4 DEF Records, Marking, Fits
  <2> QED
    BY <1>1, <1>3, <2>5 DEF ControlOf, Applies, Handles, Ops, About, Marking
<1> HIDE DEF j
<1>6. Goto(w, "commit", j) /\ Acquire(w) /\ UNCHANGED <<tables, events>> /\ "commit" \in Labels
  BY DEF TakeBalance, j, Labels
<1> QED
  BY <1>3, <1>5, <1>6, GoesOnLocked

-----------------------------------------------------------------------------
(* Steps that write and commit *)

\* A transaction that commits what it has locked
LEMMA CommitStep ==
  ASSUME Inv, NEW w \in Workers, End(w), Keeps(w), UNCHANGED <<type, closed, events>>,
         balance' \in [made : BOOLEAN, pending : Nat, used : Nat, remaining : Nat],
         request' \in [Requests -> [status : Statuses, span : Spans \union {None}, days : Nat, step : Steps]],
         record' \in [Days -> [status : RecordStatuses, in : BOOLEAN, paid : BOOLEAN, conflict : BOOLEAN]],
         TypeOK' => Rows' /\ MarksStand' /\ Accounts' /\ NoOverlap'
  PROVE  Inv'
<1>1. /\ Exclusive' /\ Local(w)
      /\ holds' \in [Workers -> SUBSET Locks] /\ pc' \in [Workers -> Labels]
      /\ job' \in [Workers -> Jobs] /\ ControlOf(w)'
  BY EndExclusive DEF Inv
<1>2. TypeOK'
  BY <1>1 DEF Inv, TypeOK
<1>3. Control'
  <2>1. \A v \in Workers \ {w} : ControlOf(v)'
    BY <1>1, OthersKeep DEF Inv, ControlOf
  <2> QED
    BY <1>1, <2>1 DEF Control
<1> QED
  BY <1>1, <1>2, <1>3 DEF Inv

\* A request that is closed or stays as active as it was overlaps nothing new.
LEMMA NothingNewOverlaps ==
  ASSUME Inv, \A r \in Requests : request'[r].status \in Active =>
                request[r].status \in Active /\ request'[r].span = request[r].span
  PROVE  NoOverlap'
BY DEF Inv, NoOverlap, ActiveRequests

\* The row w has locked is locked by nobody else.
LEMMA LockedAlone ==
  ASSUME Inv, NEW w \in Workers, NEW x \in holds[w], x # Key, NEW v \in Workers \ {w}
  PROVE  x \notin holds[v]
BY DEF Inv, Exclusive

\* What w has locked, or is granted now, nobody else has locked.
LEMMA OnlyHolder ==
  ASSUME Inv, NEW w \in Workers, NEW x, x # Key,
         x \in holds[w] \/ (x \in Wanted(w) /\ Blockers(w) = {})
  PROVE  \A v \in Workers \ {w} : x \notin holds[v]
BY LockedAlone, NotBlocked DEF Inv

\* Whoever writes the balance holds its lock alone.
LEMMA BalanceWanted ==
  ASSUME NEW w \in Workers, HasBalance(w)
  PROVE  Balance \in Wanted(w) /\ Blockers(w) = {}
BY DEF HasBalance, Wanted

\* The days marked as paid leave are finitely many.
LEMMA MarkedNat ==
  /\ IsFiniteSet(MarkedDays) /\ Cardinality(MarkedDays) \in Nat
  /\ FullDay * Cardinality(MarkedDays) = 2 * Cardinality(MarkedDays)
  /\ FullDay * Cardinality(MarkedDays) \in Nat
<1>1. IsFiniteSet(MarkedDays)
  BY DaysAssumption, FS_Subset DEF MarkedDays
<1>2. Cardinality(MarkedDays) \in Nat
  BY <1>1, FS_CardinalityType
<1> QED
  BY <1>1, <1>2 DEF FullDay

\* applyLeave's commit, the row and the reserved days, keeps the invariant.
LEMMA InsertRequestInv ==
  ASSUME Inv, NEW w \in Workers, InsertRequest(w)
  PROVE  Inv'
<1> DEFINE j == job[w]
           r == j.r
           status == IF j.type.approval THEN "PENDING" ELSE "APPROVED"
           row == [status |-> status, span |-> j.span, days |-> j.days,
                   step |-> IF j.type.approval THEN "PENDING" ELSE "none"]
           pending == IF j.type.approval THEN j.days ELSE 0
           used == IF j.type.approval THEN 0 ELSE j.days
<1>1. /\ ControlOf(w) /\ j \in Jobs /\ j.op = "applyLeave" /\ pc[w] \in {"balance", "create"}
      /\ Fits(j.type, balance, j.days)
      /\ request' = [request EXCEPT ![r] = row]
      /\ balance' = Booked(j.type, balance, pending, used)
      /\ record' = record /\ End(w) /\ UNCHANGED <<type, closed, events>>
  BY DEF Inv, Control, TypeOK, InsertRequest, HasBalance
<1>2. /\ r \in Requests /\ j.span \in Spans /\ j.days \in Nat /\ j.days > 0
      /\ j.type \in LeaveType /\ request[r] = NoRequest
      /\ \A v \in Workers \ {w} : job[v].op = "applyLeave" => job[v].r # r
      /\ Employee \in holds[w]
      /\ \A q \in ActiveRequests : ~Overlap(request[q].span, j.span)
  BY <1>1 DEF ControlOf, Applies, Jobs
<1>3. row \in [status : Statuses, span : Spans \union {None}, days : Nat, step : Steps]
  BY <1>2 DEF Statuses, Active, Steps
<1>4. /\ request' \in [Requests -> [status : Statuses, span : Spans \union {None}, days : Nat, step : Steps]]
      /\ request'[r] = row
      /\ \A q \in Requests \ {r} : request'[q] = request[q]
  BY <1>1, <1>2, <1>3 DEF Inv, TypeOK
<1>5. /\ pending \in Nat /\ used \in Nat /\ pending + used = j.days
      /\ row.days = j.days /\ row.span = j.span /\ row.status = status
      /\ status \in Active /\ j.type.allocated \in Allocations /\ j.type.allocated \in Nat
  <2>1. pending \in Nat /\ used \in Nat /\ pending + used = j.days
    BY <1>2
  <2>2. j.type.allocated \in Allocations /\ j.type.allocated \in Nat
    BY <1>2, AllocationsAssumption DEF LeaveType
  <2>3. status \in Active
    BY DEF Active
  <2> QED
    BY <2>1, <2>2, <2>3
<1>6. /\ balance'.made /\ balance'.pending = balance.pending + pending /\ balance'.used = balance.used + used
      /\ balance'.remaining = j.type.allocated - balance.used - balance.pending - pending - used
      /\ balance.pending \in Nat /\ balance.used \in Nat
      /\ balance' \in [made : BOOLEAN, pending : Nat, used : Nat, remaining : Nat]
  BY <1>1, <1>5 DEF Booked, Fits, Inv, TypeOK
<1>7. Keeps(w)
  <2>1. \A v \in Workers \ {w} : Balance \notin holds[v] /\ Employee \notin holds[v]
    BY <1>2, BalanceWanted, OnlyHolder, LockNames DEF InsertRequest
  <2> QED
    BY <1>1, <1>2, <1>4, <1>5, <2>1 DEF Keeps, NoRequest, Active
<1>8. ASSUME TypeOK'
      PROVE  Rows' /\ MarksStand' /\ Accounts' /\ NoOverlap'
  <2>1. Rows'
    BY <1>4, <1>5, <1>6 DEF Inv, Rows, Active
  <2>2. MarksStand'
    BY <1>1 DEF Inv, MarksStand
  <2>3. \A s : DaysWith(s)' = DaysWith(s) - Share(request[r], s) + Share(row, s)
    BY <1>2, <1>4, <1>8, DaysWithMoves DEF Inv
  <2>4. /\ Share(request[r], "PENDING") = 0 /\ Share(request[r], "APPROVED") = 0
        /\ Share(row, "PENDING") = pending /\ Share(row, "APPROVED") = used
    BY <1>2, <1>5 DEF Share, NoRequest
  <2>5. DaysWith("PENDING") \in Nat /\ DaysWith("APPROVED") \in Nat
    BY DaysWithNat DEF Inv
  <2>6. MarkedDays' = MarkedDays
    BY <1>1 DEF MarkedDays
  <2>7. PendingAccounted'
    BY <1>5, <1>6, <2>3, <2>4, <2>5 DEF PendingAccounted, Inv, Accounts
  <2>8. UsedCovers'
    BY <1>5, <1>6, <2>3, <2>4, <2>5, <2>6, MarkedNat DEF UsedCovers, Inv, Accounts
  <2>9. NeverOverdrawn'
    BY <1>5, <1>6, <1>1 DEF NeverOverdrawn, Fits
  <2>10. NoOverlap'
    <3> SUFFICES ASSUME NEW p \in ActiveRequests', NEW q \in ActiveRequests', p # q
                 PROVE  ~Overlap(request'[p].span, request'[q].span)
      BY DEF NoOverlap
    <3>1. p # r => p \in ActiveRequests /\ request'[p].span = request[p].span
      BY <1>4 DEF ActiveRequests
    <3>2. q # r => q \in ActiveRequests /\ request'[q].span = request[q].span
      BY <1>4 DEF ActiveRequests
    <3>3. CASE p # r /\ q # r
      BY <3>1, <3>2, <3>3 DEF Inv, NoOverlap
    <3>4. CASE p = r
      BY <1>2, <1>4, <1>5, <3>2, <3>4 DEF Overlap
    <3>5. CASE q = r
      BY <1>2, <1>4, <1>5, <3>1, <3>5 DEF Overlap
    <3> QED
      BY <3>3, <3>4, <3>5
  <2> QED
    BY <2>1, <2>2, <2>7, <2>8, <2>9, <2>10 DEF Accounts
<1> QED
  BY <1>1, <1>4, <1>6, <1>7, <1>8, CommitStep DEF Inv, TypeOK

\* What w knows of the request it has locked
LEMMA Handled ==
  ASSUME Inv, NEW w \in Workers, job[w].op \in About, pc[w] \in {"balance", "create", "records", "commit"}
  PROVE  /\ job[w].r \in Requests /\ request[job[w].r].status \in Ready(job[w].op)
         /\ request[job[w].r].days \in Nat /\ request[job[w].r].span \in Spans \union {None}
         /\ balance.made /\ balance.pending \in Nat /\ balance.used \in Nat /\ balance.remaining \in Nat
         /\ \A v \in Workers \ {w} : Request(job[w].r) \notin holds[v]
<1>1. ControlOf(w)
  BY DEF Inv, Control
<1>2. /\ job[w].r \in Requests /\ Request(job[w].r) \in holds[w]
      /\ request[job[w].r].status \in Ready(job[w].op) /\ request[job[w].r].status # "none"
  BY <1>1 DEF ControlOf, Handles
<1>3. \A v \in Workers \ {w} : Request(job[w].r) \notin holds[v]
  BY <1>2, LockedAlone, LockNames
<1> QED
  BY <1>2, <1>3 DEF Inv, Rows, TypeOK

\* Parts of Keeps and the invariant when the request w has locked is the one that changes
LEMMA RequestStep ==
  ASSUME Inv, NEW w \in Workers, job[w].op \in About, pc[w] \in {"balance", "create", "records", "commit"},
         NEW row \in [status : Statuses, span : Spans \union {None}, days : Nat, step : Steps],
         request' = [request EXCEPT ![job[w].r] = row],
         row.span = request[job[w].r].span, row.status # "none",
         row.status \in Active => request[job[w].r].status \in Active,
         \A v \in Workers \ {w} : Balance \notin holds[v],
         \A d \in Days : record'[d] # record[d] => \A v \in Workers \ {w} : Record(d) \notin holds[v],
         balance'.made
  PROVE  /\ request' \in [Requests -> [status : Statuses, span : Spans \union {None}, days : Nat, step : Steps]]
         /\ request'[job[w].r] = row /\ \A q \in Requests \ {job[w].r} : request'[q] = request[q]
         /\ Keeps(w) /\ Rows' /\ NoOverlap'
<1> DEFINE r == job[w].r
<1>1. /\ r \in Requests /\ request[r].status \in Ready(job[w].op)
      /\ \A v \in Workers \ {w} : Request(r) \notin holds[v]
  BY Handled
<1>2. request[r].status # "none"
  BY <1>1 DEF Ready, Active
<1>3. /\ request' \in [Requests -> [status : Statuses, span : Spans \union {None}, days : Nat, step : Steps]]
      /\ request'[r] = row /\ \A q \in Requests \ {r} : request'[q] = request[q]
  BY <1>1 DEF Inv, TypeOK
<1>4. Keeps(w)
  BY <1>1, <1>2, <1>3 DEF Keeps
<1>5. Rows'
  BY <1>3 DEF Inv, Rows
<1>6. NoOverlap'
  BY <1>3, NothingNewOverlaps
<1> QED
  BY <1>3, <1>4, <1>5, <1>6

\* What the sums become
LEMMA RequestSums ==
  ASSUME Inv, TypeOK', NEW r \in Requests, NEW row, request'[r] = row,
         \A q \in Requests \ {r} : request'[q] = request[q]
  PROVE  /\ DaysWith("PENDING")' = DaysWith("PENDING") - Share(request[r], "PENDING") + Share(row, "PENDING")
         /\ DaysWith("APPROVED")' = DaysWith("APPROVED") - Share(request[r], "APPROVED") + Share(row, "APPROVED")
         /\ DaysWith("PENDING") \in Nat /\ DaysWith("APPROVED") \in Nat
         /\ Share(request[r], "PENDING") <= DaysWith("PENDING")
         /\ Share(request[r], "APPROVED") <= DaysWith("APPROVED")
<1>1. \A s : DaysWith(s)' = DaysWith(s) - Share(request[r], s) + Share(row, s)
  BY DaysWithMoves DEF Inv
<1>2. \A s : DaysWith(s) \in Nat /\ \A q \in With(s) : request[q].days <= DaysWith(s)
  BY DaysWithNat DEF Inv
<1>3. \A s : Share(request[r], s) <= DaysWith(s)
  BY <1>2 DEF Share, With
<1> QED
  BY <1>1, <1>2, <1>3

\* The commit of rejectLeave or cancelLeave, which gives reserved days back, keeps the invariant.
LEMMA ReleaseInv ==
  ASSUME Inv, NEW w \in Workers, Release(w)
  PROVE  Inv'
<1> DEFINE r == job[w].r
           n == request[r].days
           row == IF job[w].op = "rejectLeave" THEN [request[r] EXCEPT !.status = "REJECTED", !.step = "REJECTED"]
                                               ELSE [request[r] EXCEPT !.status = "CANCELLED"]
<1>1. /\ job[w].op \in {"rejectLeave", "cancelLeave"} /\ job[w].op \in About
      /\ pc[w] \in {"balance", "create", "records", "commit"}
      /\ balance' = [balance EXCEPT !.pending = @ - n, !.remaining = @ + n]
      /\ record' = record /\ End(w) /\ UNCHANGED <<type, closed, events>>
  BY DEF Release, HasBalance, About
<1>2. /\ r \in Requests /\ request[r].status = "PENDING" /\ n \in Nat
      /\ balance.made /\ balance.pending \in Nat /\ balance.used \in Nat /\ balance.remaining \in Nat
      /\ request[r] \in [status : Statuses, span : Spans \union {None}, days : Nat, step : Steps]
  BY <1>1, Handled DEF Ready, Inv, TypeOK
<1>3. request' = [request EXCEPT ![r] = row]
  BY <1>1, <1>2 DEF Release, Inv, TypeOK
<1>4. /\ row \in [status : Statuses, span : Spans \union {None}, days : Nat, step : Steps]
      /\ row.span = request[r].span /\ row.days = n /\ row.status \in {"REJECTED", "CANCELLED"}
  BY <1>2 DEF Statuses, Active, Steps
<1> HIDE DEF row
<1>5. \A v \in Workers \ {w} : Balance \notin holds[v]
  BY BalanceWanted, OnlyHolder, LockNames DEF Release
<1>6. n <= balance.pending
  <2>1. r \in With("PENDING")
    BY <1>2 DEF With
  <2> QED
    BY <2>1, DaysWithNat DEF Inv, Accounts, PendingAccounted
<1>7. /\ balance'.made /\ balance'.pending = balance.pending - n /\ balance'.used = balance.used
      /\ balance'.remaining = balance.remaining + n
      /\ balance' \in [made : BOOLEAN, pending : Nat, used : Nat, remaining : Nat]
  <2>1. balance \in [made : BOOLEAN, pending : Nat, used : Nat, remaining : Nat]
    BY DEF Inv, TypeOK
  <2>2. balance.pending - n \in Nat /\ balance.remaining + n \in Nat
    BY <1>2, <1>6
  <2> QED
    BY <1>1, <1>2, <2>1, <2>2
<1>8. /\ request' \in [Requests -> [status : Statuses, span : Spans \union {None}, days : Nat, step : Steps]]
      /\ request'[r] = row /\ \A q \in Requests \ {r} : request'[q] = request[q]
      /\ Keeps(w) /\ Rows' /\ NoOverlap'
  <2>1. row.status # "none" /\ row.status \notin Active
    BY <1>4 DEF Active
  <2> QED
    BY <1>1, <1>3, <1>4, <1>5, <1>7, <2>1, RequestStep
<1>9. ASSUME TypeOK'
      PROVE  MarksStand' /\ Accounts'
  <2>1. MarksStand'
    BY <1>1 DEF Inv, MarksStand
  <2>2. /\ DaysWith("PENDING")' = DaysWith("PENDING") - n
        /\ DaysWith("APPROVED")' = DaysWith("APPROVED")
        /\ DaysWith("PENDING") \in Nat /\ DaysWith("APPROVED") \in Nat
    <3>1. /\ Share(request[r], "PENDING") = n /\ Share(request[r], "APPROVED") = 0
          /\ Share(row, "PENDING") = 0 /\ Share(row, "APPROVED") = 0
      BY <1>2, <1>4 DEF Share
    <3> QED
      BY <1>2, <1>8, <1>9, <3>1, RequestSums
  <2>3. PendingAccounted'
    BY <1>7, <2>2 DEF PendingAccounted, Inv, Accounts
  <2>4. UsedCovers'
    <3>1. MarkedDays' = MarkedDays
      BY <1>1 DEF MarkedDays
    <3> QED
      BY <1>7, <2>2, <3>1 DEF UsedCovers, Inv, Accounts
  <2>5. NeverOverdrawn'
    BY <1>2, <1>6, <1>7 DEF NeverOverdrawn, Inv, Accounts
  <2> QED
    BY <2>1, <2>3, <2>4, <2>5 DEF Accounts
<1> QED
  BY <1>1, <1>7, <1>8, <1>9, CommitStep DEF Inv, TypeOK

\* A balance row of which some days change
LEMMA BalanceRow ==
  ASSUME NEW b \in [made : BOOLEAN, pending : Nat, used : Nat, remaining : Nat],
         NEW p \in Nat, NEW u \in Nat, NEW l \in Nat,
         NEW c, \/ c = [b EXCEPT !.pending = p, !.used = u, !.remaining = l]
                \/ u = b.used /\ c = [b EXCEPT !.remaining = l, !.pending = p]
                \/ p = b.pending /\ c = [b EXCEPT !.remaining = l, !.used = u]
  PROVE  /\ c = [made |-> b.made, pending |-> p, used |-> u, remaining |-> l]
         /\ c \in [made : BOOLEAN, pending : Nat, used : Nat, remaining : Nat]
<1>1. CASE c = [b EXCEPT !.pending = p, !.used = u, !.remaining = l]
  BY <1>1
<1>2. CASE u = b.used /\ c = [b EXCEPT !.remaining = l, !.pending = p]
  BY <1>2
<1>3. CASE p = b.pending /\ c = [b EXCEPT !.remaining = l, !.used = u]
  BY <1>3
<1> QED
  BY <1>1, <1>2, <1>3

\* recalculateSingleLeave, which books the difference of two counts, keeps the invariant.
LEMMA RecalculateInv ==
  ASSUME Inv, NEW w \in Workers, Recalculate(w)
  PROVE  Inv'
<1> DEFINE r == job[w].r
           n == request[r].days
           m == Count(request[r].span)
           row == [request[r] EXCEPT !.days = m]
           approved == request[r].status = "APPROVED"
<1>1. /\ job[w].op = "recalculateSingleLeave" /\ job[w].op \in About
      /\ pc[w] \in {"balance", "create", "records", "commit"}
      /\ Recountable(r, m)
      /\ balance' = IF approved THEN [balance EXCEPT !.remaining = @ - (m - n), !.used = @ + (m - n)]
                                ELSE [balance EXCEPT !.remaining = @ - (m - n), !.pending = @ + (m - n)]
      /\ request' = [request EXCEPT ![r].days = @ + (m - n)]
      /\ record' = record /\ End(w) /\ UNCHANGED <<type, closed, events>>
  BY DEF Recalculate, HasBalance, About
<1>2. /\ r \in Requests /\ request[r].status \in Active /\ n \in Nat /\ m \in Nat
      /\ balance.made /\ balance.pending \in Nat /\ balance.used \in Nat /\ balance.remaining \in Nat
      /\ request[r] \in [status : Statuses, span : Spans \union {None}, days : Nat, step : Steps]
      /\ balance \in [made : BOOLEAN, pending : Nat, used : Nat, remaining : Nat]
  BY <1>1, Handled, CountNat DEF Ready, Inv, TypeOK
<1>3. request' = [request EXCEPT ![r] = row]
  <2>1. n + (m - n) = m
    BY <1>2
  <2> QED
    BY <1>1, <1>2, <2>1 DEF Inv, TypeOK
<1>4. /\ row \in [status : Statuses, span : Spans \union {None}, days : Nat, step : Steps]
      /\ row.span = request[r].span /\ row.days = m /\ row.status = request[r].status
  BY <1>2
<1> HIDE DEF row
<1>5. \A v \in Workers \ {w} : Balance \notin holds[v]
  BY BalanceWanted, OnlyHolder, LockNames DEF Recalculate
<1>6. /\ balance'.made /\ balance'.remaining = balance.remaining - (m - n)
      /\ balance'.pending = balance.pending + (IF approved THEN 0 ELSE m - n)
      /\ balance'.used = balance.used + (IF approved THEN m - n ELSE 0)
      /\ balance'.remaining >= 0
      /\ balance' \in [made : BOOLEAN, pending : Nat, used : Nat, remaining : Nat]
  <2>1. balance.remaining - (m - n) \in Nat
    BY <1>1, <1>2 DEF Recountable
  <2>2. (IF approved THEN balance.used ELSE balance.pending) + (m - n) \in Nat
    BY <1>1, <1>2 DEF Recountable
  <2>3. CASE approved
    <3> DEFINE u == balance.used + (m - n)
               l == balance.remaining - (m - n)
    <3>1. u \in Nat /\ l \in Nat /\ balance' = [balance EXCEPT !.remaining = l, !.used = u]
      BY <1>1, <2>1, <2>2, <2>3
    <3>2. balance' = [made |-> balance.made, pending |-> balance.pending, used |-> u, remaining |-> l]
      <4> HIDE DEF u, l
      <4> QED
        BY <1>2, <3>1, BalanceRow
    <3>3. balance.pending + 0 = balance.pending
      BY <1>2
    <3>4. (IF approved THEN 0 ELSE m - n) = 0 /\ (IF approved THEN m - n ELSE 0) = m - n
      BY <2>3
    <3>5. /\ balance'.made /\ balance'.remaining = l
          /\ balance'.pending = balance.pending + (IF approved THEN 0 ELSE m - n)
          /\ balance'.used = balance.used + (IF approved THEN m - n ELSE 0)
      BY <1>2, <3>2, <3>3, <3>4
    <3>6. balance' \in [made : BOOLEAN, pending : Nat, used : Nat, remaining : Nat]
      BY <1>2, <3>1, <3>2
    <3> QED
      BY <3>1, <3>5, <3>6
  <2>4. CASE ~approved
    <3> DEFINE p == balance.pending + (m - n)
               l == balance.remaining - (m - n)
    <3>1. p \in Nat /\ l \in Nat /\ balance' = [balance EXCEPT !.remaining = l, !.pending = p]
      BY <1>1, <2>1, <2>2, <2>4
    <3>2. balance' = [made |-> balance.made, pending |-> p, used |-> balance.used, remaining |-> l]
      <4> HIDE DEF p, l
      <4> QED
        BY <1>2, <3>1, BalanceRow
    <3>3. balance.used + 0 = balance.used
      BY <1>2
    <3>4. (IF approved THEN 0 ELSE m - n) = m - n /\ (IF approved THEN m - n ELSE 0) = 0
      BY <2>4
    <3>5. /\ balance'.made /\ balance'.remaining = l
          /\ balance'.pending = balance.pending + (IF approved THEN 0 ELSE m - n)
          /\ balance'.used = balance.used + (IF approved THEN m - n ELSE 0)
      BY <1>2, <3>2, <3>3, <3>4
    <3>6. balance' \in [made : BOOLEAN, pending : Nat, used : Nat, remaining : Nat]
      BY <1>2, <3>1, <3>2
    <3> QED
      BY <3>1, <3>5, <3>6
  <2> QED
    BY <2>3, <2>4
<1>7. /\ request' \in [Requests -> [status : Statuses, span : Spans \union {None}, days : Nat, step : Steps]]
      /\ request'[r] = row /\ \A q \in Requests \ {r} : request'[q] = request[q]
      /\ Keeps(w) /\ Rows' /\ NoOverlap'
  <2>1. row.status # "none"
    BY <1>2, <1>4 DEF Active
  <2> QED
    BY <1>1, <1>2, <1>3, <1>4, <1>5, <1>6, <2>1, RequestStep
<1>8. ASSUME TypeOK'
      PROVE  MarksStand' /\ Accounts'
  <2>1. MarksStand'
    BY <1>1 DEF Inv, MarksStand
  <2>2. /\ DaysWith("PENDING")' = DaysWith("PENDING") + (IF approved THEN 0 ELSE m - n)
        /\ DaysWith("APPROVED")' = DaysWith("APPROVED") + (IF approved THEN m - n ELSE 0)
        /\ DaysWith("PENDING") \in Nat /\ DaysWith("APPROVED") \in Nat
    <3>1. /\ Share(request[r], "PENDING") = (IF approved THEN 0 ELSE n)
          /\ Share(request[r], "APPROVED") = (IF approved THEN n ELSE 0)
          /\ Share(row, "PENDING") = (IF approved THEN 0 ELSE m)
          /\ Share(row, "APPROVED") = (IF approved THEN m ELSE 0)
      BY <1>2, <1>4 DEF Share, Active
    <3>2. /\ DaysWith("PENDING")' = DaysWith("PENDING") - Share(request[r], "PENDING") + Share(row, "PENDING")
          /\ DaysWith("APPROVED")' = DaysWith("APPROVED") - Share(request[r], "APPROVED") + Share(row, "APPROVED")
          /\ DaysWith("PENDING") \in Nat /\ DaysWith("APPROVED") \in Nat
      BY <1>2, <1>7, <1>8, RequestSums
    <3> QED
      BY <1>2, <3>1, <3>2
  <2>3. PendingAccounted'
    BY <1>2, <1>6, <2>2 DEF PendingAccounted, Inv, Accounts
  <2>4. UsedCovers'
    <3>1. MarkedDays' = MarkedDays
      BY <1>1 DEF MarkedDays
    <3> QED
      BY <1>2, <1>6, <2>2, <3>1, MarkedNat DEF UsedCovers, Inv, Accounts
  <2>5. NeverOverdrawn'
    BY <1>2, <1>6 DEF NeverOverdrawn, Inv, Accounts
  <2> QED
    BY <2>1, <2>3, <2>4, <2>5 DEF Accounts
<1> QED
  BY <1>1, <1>6, <1>7, <1>8, CommitStep DEF Inv, TypeOK

\* An attendance row of an approved day is a row, and keeps the mark that took a day unless
\* there is a check-in.
LEMMA OnApprovalRow ==
  ASSUME TypeOK, MarksStand, NEW d \in Days, NEW half
  PROVE  LET new == OnApproval(d, half)
         IN /\ new \in [status : RecordStatuses, in : BOOLEAN, paid : BOOLEAN, conflict : BOOLEAN]
            /\ new.paid /\ new.status # "ON_LEAVE" => new.in
            /\ new.paid /\ new.status = "ON_LEAVE" <=> record[d].paid /\ record[d].status = "ON_LEAVE"
BY DEF OnApproval, TypeOK, MarksStand, RecordStatuses

\* approveLeave's commit, the balance and the records of the interval, keeps the invariant.
LEMMA ApproveInv ==
  ASSUME Inv, NEW w \in Workers, Approve(w)
  PROVE  Inv'
<1> DEFINE r == job[w].r
           n == job[w].days
           was == request[r].days
           row == [request[r] EXCEPT !.status = "APPROVED", !.step = "APPROVED", !.days = n]
<1>1. /\ job[w].op = "approveLeave" /\ job[w].op \in About /\ pc[w] = "commit"
      /\ balance' = [balance EXCEPT !.pending = @ - was, !.used = @ + n, !.remaining = @ + was - n]
      /\ record' = [d \in Days |-> IF d \in Seen(w) THEN OnApproval(d, request[r].span.half) ELSE record[d]]
      /\ request' = [request EXCEPT ![r].status = "APPROVED", ![r].step = "APPROVED", ![r].days = n]
      /\ End(w) /\ UNCHANGED <<type, closed, events>>
  BY DEF Approve, About
<1>2. /\ r \in Requests /\ request[r].status = "PENDING" /\ n \in Nat /\ was \in Nat
      /\ balance.made /\ balance.pending \in Nat /\ balance.used \in Nat /\ balance.remaining \in Nat
      /\ request[r] \in [status : Statuses, span : Spans \union {None}, days : Nat, step : Steps]
      /\ balance \in [made : BOOLEAN, pending : Nat, used : Nat, remaining : Nat]
  BY <1>1, Handled DEF Ready, Inv, TypeOK, Jobs
<1>3. request' = [request EXCEPT ![r] = row]
  BY <1>1, <1>2 DEF Inv, TypeOK
<1>4. /\ row \in [status : Statuses, span : Spans \union {None}, days : Nat, step : Steps]
      /\ row.span = request[r].span /\ row.days = n /\ row.status = "APPROVED"
  BY <1>2 DEF Statuses, Active, Steps
<1> HIDE DEF row
<1>5. /\ Balance \in holds[w] /\ balance.remaining - (n - was) >= 0
  BY <1>1 DEF Inv, Control, ControlOf, Handles
<1>6. \A v \in Workers \ {w} : Balance \notin holds[v]
  BY <1>5, OnlyHolder, LockNames
<1>7. was <= balance.pending
  <2>1. r \in With("PENDING")
    BY <1>2 DEF With
  <2> QED
    BY <2>1, DaysWithNat DEF Inv, Accounts, PendingAccounted
<1>8. /\ balance'.made /\ balance'.remaining = balance.remaining + was - n /\ balance'.remaining >= 0
      /\ balance'.pending = balance.pending - was
      /\ balance'.used = balance.used + n
      /\ balance' \in [made : BOOLEAN, pending : Nat, used : Nat, remaining : Nat]
  <2>1. balance.remaining + was - n \in Nat /\ balance.pending - was \in Nat /\ balance.used + n \in Nat
    BY <1>2, <1>5, <1>7
  <2> DEFINE l == balance.remaining + was - n
             p == balance.pending - was
             u == balance.used + n
  <2>2. balance' = [balance EXCEPT !.pending = p, !.used = u, !.remaining = l]
    BY <1>1
  <2>3. balance' = [made |-> balance.made, pending |-> p, used |-> u, remaining |-> l]
    <3> HIDE DEF l, p, u
    <3>1. l \in Nat /\ p \in Nat /\ u \in Nat
      BY <2>1 DEF l, p, u
    <3> QED
      BY <1>2, <2>2, <3>1, BalanceRow
  <2> QED
    BY <1>2, <2>1, <2>3
<1>9. /\ record' \in [Days -> [status : RecordStatuses, in : BOOLEAN, paid : BOOLEAN, conflict : BOOLEAN]]
      /\ \A d \in Days : record'[d] # record[d] => Record(d) \in holds[w]
      /\ MarksStand' /\ MarkedDays' = MarkedDays
  <2>1. \A d \in Days : record'[d] = IF d \in Seen(w) THEN OnApproval(d, request[r].span.half) ELSE record[d]
    BY <1>1
  <2>2. \A d \in Days : record'[d] \in [status : RecordStatuses, in : BOOLEAN, paid : BOOLEAN, conflict : BOOLEAN]
    BY <2>1, OnApprovalRow DEF Inv, TypeOK
  <2>3. \A d \in Days : /\ record'[d].paid /\ record'[d].status # "ON_LEAVE" => record'[d].in
                        /\ record'[d].paid /\ record'[d].status = "ON_LEAVE"
                             <=> record[d].paid /\ record[d].status = "ON_LEAVE"
    BY <2>1, OnApprovalRow DEF Inv, MarksStand
  <2>4. \A d \in Days : record'[d] # record[d] => Record(d) \in holds[w]
    BY <2>1 DEF Seen
  <2>5. record' \in [Days -> [status : RecordStatuses, in : BOOLEAN, paid : BOOLEAN, conflict : BOOLEAN]]
    BY <1>1, <2>1, <2>2
  <2> QED
    BY <2>3, <2>4, <2>5 DEF MarksStand, MarkedDays
<1>10. \A d \in Days : record'[d] # record[d] => \A v \in Workers \ {w} : Record(d) \notin holds[v]
  BY <1>9, OnlyHolder, LockNames
<1>11. /\ request' \in [Requests -> [status : Statuses, span : Spans \union {None}, days : Nat, step : Steps]]
       /\ request'[r] = row /\ \A q \in Requests \ {r} : request'[q] = request[q]
       /\ Keeps(w) /\ Rows' /\ NoOverlap'
  <2>1. row.status # "none" /\ request[r].status \in Active
    BY <1>2, <1>4 DEF Active
  <2> QED
    BY <1>1, <1>2, <1>3, <1>4, <1>6, <1>8, <1>10, <2>1, RequestStep
<1>12. ASSUME TypeOK'
       PROVE  Accounts'
  <2>1. /\ DaysWith("PENDING")' = DaysWith("PENDING") - was
        /\ DaysWith("APPROVED")' = DaysWith("APPROVED") + n
        /\ DaysWith("PENDING") \in Nat /\ DaysWith("APPROVED") \in Nat
    <3>1. /\ Share(request[r], "PENDING") = was /\ Share(request[r], "APPROVED") = 0
          /\ Share(row, "PENDING") = 0 /\ Share(row, "APPROVED") = n
      BY <1>2, <1>4 DEF Share
    <3>2. /\ DaysWith("PENDING")' = DaysWith("PENDING") - Share(request[r], "PENDING") + Share(row, "PENDING")
          /\ DaysWith("APPROVED")' = DaysWith("APPROVED") - Share(request[r], "APPROVED") + Share(row, "APPROVED")
          /\ DaysWith("PENDING") \in Nat /\ DaysWith("APPROVED") \in Nat
      BY <1>2, <1>11, <1>12, RequestSums
    <3> QED
      BY <1>2, <3>1, <3>2
  <2>2. PendingAccounted'
    BY <1>2, <1>8, <2>1 DEF PendingAccounted, Inv, Accounts
  <2>3. UsedCovers'
    BY <1>2, <1>8, <1>9, <2>1, MarkedNat DEF UsedCovers, Inv, Accounts
  <2>4. NeverOverdrawn'
    BY <1>2, <1>8 DEF NeverOverdrawn, Inv, Accounts
  <2> QED
    BY <2>2, <2>3, <2>4 DEF Accounts
<1>13. TypeOK' => Rows' /\ MarksStand' /\ Accounts' /\ NoOverlap'
  <2>1. MarksStand'
    BY <1>9
  <2>2. Rows' /\ NoOverlap'
    BY <1>11
  <2> QED
    BY <1>12, <2>1, <2>2
<1>14. End(w) /\ UNCHANGED <<type, closed, events>>
  BY <1>1
<1>15. /\ balance' \in [made : BOOLEAN, pending : Nat, used : Nat, remaining : Nat]
       /\ record' \in [Days -> [status : RecordStatuses, in : BOOLEAN, paid : BOOLEAN, conflict : BOOLEAN]]
  BY <1>8, <1>9
<1>16. /\ request' \in [Requests -> [status : Statuses, span : Spans \union {None}, days : Nat, step : Steps]]
       /\ Keeps(w)
  BY <1>11
<1> QED
  BY <1>13, <1>14, <1>15, <1>16, CommitStep

\* cancelApprovedLeave's commit, which gives used days back, keeps the invariant.
LEMMA CancelApprovedInv ==
  ASSUME Inv, NEW w \in Workers, CancelApproved(w)
  PROVE  Inv'
<1> DEFINE r == job[w].r
           n == request[r].days
           row == [request[r] EXCEPT !.status = "CANCELLED_AFTER_APPROVAL"]
<1>1. /\ job[w].op = "cancelApprovedLeave" /\ job[w].op \in About /\ pc[w] = "commit"
      /\ balance' = [balance EXCEPT !.used = @ - n, !.remaining = @ + n]
      /\ record' = [d \in Days |-> IF d \notin Seen(w) THEN record[d]
                                   ELSE IF record[d].in THEN [record[d] EXCEPT !.status = "null"]
                                   ELSE NoRecord]
      /\ request' = [request EXCEPT ![r].status = "CANCELLED_AFTER_APPROVAL"]
      /\ End(w) /\ UNCHANGED <<type, closed, events>>
  BY DEF CancelApproved, About
<1>2. /\ r \in Requests /\ request[r].status = "APPROVED" /\ n \in Nat
      /\ balance.made /\ balance.pending \in Nat /\ balance.used \in Nat /\ balance.remaining \in Nat
      /\ request[r] \in [status : Statuses, span : Spans \union {None}, days : Nat, step : Steps]
      /\ balance \in [made : BOOLEAN, pending : Nat, used : Nat, remaining : Nat]
  BY <1>1, Handled DEF Ready, Inv, TypeOK
<1>3. request' = [request EXCEPT ![r] = row]
  BY <1>1, <1>2 DEF Inv, TypeOK
<1>4. /\ row \in [status : Statuses, span : Spans \union {None}, days : Nat, step : Steps]
      /\ row.span = request[r].span /\ row.days = n /\ row.status = "CANCELLED_AFTER_APPROVAL"
  BY <1>2 DEF Statuses
<1> HIDE DEF row
<1>5. Balance \in holds[w]
  BY <1>1 DEF Inv, Control, ControlOf, Handles
<1>6. \A v \in Workers \ {w} : Balance \notin holds[v]
  BY <1>5, OnlyHolder, LockNames
<1>7. n + 2 * Cardinality(MarkedDays) <= balance.used
  <2>1. r \in With("APPROVED")
    BY <1>2 DEF With
  <2>2. n <= DaysWith("APPROVED") /\ DaysWith("APPROVED") \in Nat
    BY <2>1, DaysWithNat DEF Inv
  <2> QED
    BY <1>2, <2>2, MarkedNat DEF Inv, Accounts, UsedCovers
<1>8. /\ balance'.made /\ balance'.remaining = balance.remaining + n
      /\ balance'.pending = balance.pending /\ balance'.used = balance.used - n
      /\ balance' \in [made : BOOLEAN, pending : Nat, used : Nat, remaining : Nat]
  <2>1. balance.remaining + n \in Nat /\ balance.used - n \in Nat
    BY <1>2, <1>7, MarkedNat
  <2> QED
    BY <1>1, <1>2, <2>1
<1>9. /\ record' \in [Days -> [status : RecordStatuses, in : BOOLEAN, paid : BOOLEAN, conflict : BOOLEAN]]
      /\ \A d \in Days : record'[d] # record[d] => Record(d) \in holds[w]
      /\ MarksStand' /\ MarkedDays' \subseteq MarkedDays
  <2>1. \A d \in Days : record'[d] = IF d \notin Seen(w) THEN record[d]
                                     ELSE IF record[d].in THEN [record[d] EXCEPT !.status = "null"]
                                     ELSE NoRecord
    BY <1>1
  <2>2. \A d \in Days : record[d] \in [status : RecordStatuses, in : BOOLEAN, paid : BOOLEAN, conflict : BOOLEAN]
    BY DEF Inv, TypeOK
  <2>3. ASSUME NEW d \in Days
        PROVE  /\ record'[d] \in [status : RecordStatuses, in : BOOLEAN, paid : BOOLEAN, conflict : BOOLEAN]
               /\ record'[d].paid /\ record'[d].status # "ON_LEAVE" => record'[d].in
               /\ record'[d].paid /\ record'[d].status = "ON_LEAVE"
                    => record[d].paid /\ record[d].status = "ON_LEAVE"
    <3>1. CASE d \notin Seen(w)
      BY <2>1, <2>2, <3>1 DEF Inv, MarksStand
    <3>2. CASE d \in Seen(w) /\ record[d].in
      <4>1. record'[d] = [record[d] EXCEPT !.status = "null"] /\ "null" \in RecordStatuses
        BY <2>1, <3>2 DEF RecordStatuses
      <4> QED
        BY <2>2, <3>2, <4>1
    <3>3. CASE d \in Seen(w) /\ ~record[d].in
      <4>1. record'[d] = NoRecord
        BY <2>1, <3>3
      <4> QED
        BY <4>1 DEF NoRecord, RecordStatuses
    <3> QED
      BY <3>1, <3>2, <3>3
  <2>4. \A d \in Days : record'[d].paid /\ record'[d].status # "ON_LEAVE" => record'[d].in
    BY <2>3
  <2>5. \A d \in Days : record'[d].paid /\ record'[d].status = "ON_LEAVE"
                          => record[d].paid /\ record[d].status = "ON_LEAVE"
    BY <2>3
  <2>6. \A d \in Days : record'[d] # record[d] => Record(d) \in holds[w]
    BY <2>1 DEF Seen
  <2>7. record' \in [Days -> [status : RecordStatuses, in : BOOLEAN, paid : BOOLEAN, conflict : BOOLEAN]]
    BY <1>1, <2>1, <2>3
  <2> QED
    BY <2>4, <2>5, <2>6, <2>7 DEF MarksStand, MarkedDays
<1>10. \A d \in Days : record'[d] # record[d] => \A v \in Workers \ {w} : Record(d) \notin holds[v]
  BY <1>9, OnlyHolder, LockNames
<1>11. /\ request' \in [Requests -> [status : Statuses, span : Spans \union {None}, days : Nat, step : Steps]]
       /\ request'[r] = row /\ \A q \in Requests \ {r} : request'[q] = request[q]
       /\ Keeps(w) /\ Rows' /\ NoOverlap'
  <2>1. row.status # "none" /\ row.status \notin Active
    BY <1>4 DEF Active
  <2> QED
    BY <1>1, <1>2, <1>3, <1>4, <1>6, <1>8, <1>10, <2>1, RequestStep
<1>12. ASSUME TypeOK'
       PROVE  Accounts'
  <2>1. /\ DaysWith("PENDING")' = DaysWith("PENDING")
        /\ DaysWith("APPROVED")' = DaysWith("APPROVED") - n
        /\ DaysWith("PENDING") \in Nat /\ DaysWith("APPROVED") \in Nat
    <3>1. /\ Share(request[r], "PENDING") = 0 /\ Share(request[r], "APPROVED") = n
          /\ Share(row, "PENDING") = 0 /\ Share(row, "APPROVED") = 0
      BY <1>2, <1>4 DEF Share
    <3>2. /\ DaysWith("PENDING")' = DaysWith("PENDING") - Share(request[r], "PENDING") + Share(row, "PENDING")
          /\ DaysWith("APPROVED")' = DaysWith("APPROVED") - Share(request[r], "APPROVED") + Share(row, "APPROVED")
          /\ DaysWith("PENDING") \in Nat /\ DaysWith("APPROVED") \in Nat
      BY <1>2, <1>11, <1>12, RequestSums
    <3> QED
      BY <1>2, <3>1, <3>2
  <2>2. PendingAccounted'
    BY <1>2, <1>8, <2>1 DEF PendingAccounted, Inv, Accounts
  <2>3. UsedCovers'
    <3>1. Cardinality(MarkedDays') <= Cardinality(MarkedDays) /\ Cardinality(MarkedDays') \in Nat
      BY <1>9, MarkedNat, FS_Subset, FS_CardinalityType
    <3>2. FullDay * Cardinality(MarkedDays') = 2 * Cardinality(MarkedDays')
      BY DEF FullDay
    <3> QED
      BY <1>2, <1>8, <2>1, <3>1, <3>2, MarkedNat DEF UsedCovers, Inv, Accounts
  <2>4. NeverOverdrawn'
    BY <1>2, <1>7, <1>8, MarkedNat DEF NeverOverdrawn, Inv, Accounts
  <2> QED
    BY <2>2, <2>3, <2>4 DEF Accounts
<1>13. TypeOK' => Rows' /\ MarksStand' /\ Accounts' /\ NoOverlap'
  <2>1. MarksStand'
    BY <1>9
  <2>2. Rows' /\ NoOverlap'
    BY <1>11
  <2> QED
    BY <1>12, <2>1, <2>2
<1>14. End(w) /\ UNCHANGED <<type, closed, events>>
  BY <1>1
<1>15. /\ balance' \in [made : BOOLEAN, pending : Nat, used : Nat, remaining : Nat]
       /\ record' \in [Days -> [status : RecordStatuses, in : BOOLEAN, paid : BOOLEAN, conflict : BOOLEAN]]
  BY <1>8, <1>9
<1>16. /\ request' \in [Requests -> [status : Statuses, span : Spans \union {None}, days : Nat, step : Steps]]
       /\ Keeps(w)
  BY <1>11
<1> QED
  BY <1>13, <1>14, <1>15, <1>16, CommitStep

\* What a manual entry or a check-in writes: the day counts as marked exactly when a day is taken
\* for it, and a day is given back exactly when it was marked.
LEMMA WrittenRow ==
  ASSUME TypeOK, MarksStand, NEW j \in Jobs, j.op \in Marking, j.day \in Days,
         j.op = "manualAttendance" => j.mark \in Marks, j.row \/ ~Exists(j.day)
  PROVE  /\ Written(j) \in [status : RecordStatuses, in : BOOLEAN, paid : BOOLEAN, conflict : BOOLEAN]
         /\ Written(j).paid /\ Written(j).status # "ON_LEAVE" => Written(j).in
         /\ j.op = "checkIn" =>
              (Written(j).paid /\ Written(j).status = "ON_LEAVE" <=> j.day \in MarkedDays)
         /\ j.op = "manualAttendance" =>
              (Written(j).paid /\ Written(j).status = "ON_LEAVE" <=> Deducts(j))
         /\ Refunds(j) <=> j.day \in MarkedDays
<1> DEFINE row == record[j.day]
           old == IF j.row THEN row ELSE [NoRecord EXCEPT !.status = "null"]
           leave == old.conflict \/ OnLeave(j.day)
<1>1. row \in [status : RecordStatuses, in : BOOLEAN, paid : BOOLEAN, conflict : BOOLEAN]
  BY DEF TypeOK
<1>2. old \in [status : RecordStatuses, in : BOOLEAN, paid : BOOLEAN, conflict : BOOLEAN]
  BY <1>1 DEF NoRecord, RecordStatuses
<1>3. leave \in BOOLEAN
  OBVIOUS
<1>4. Refunds(j) <=> j.day \in MarkedDays
  BY DEF Refunds, MarkedDays, Exists
<1>5. old.paid /\ old.status = "ON_LEAVE" <=> j.day \in MarkedDays
  BY DEF MarkedDays, Exists, NoRecord
<1>6. CASE j.op = "checkIn"
  <2>1. Written(j) = [old EXCEPT !.in = TRUE, !.conflict = leave]
    BY <1>6 DEF Written
  <2> HIDE DEF old, leave
  <2>2. /\ Written(j) \in [status : RecordStatuses, in : BOOLEAN, paid : BOOLEAN, conflict : BOOLEAN]
        /\ Written(j).in /\ Written(j).paid = old.paid /\ Written(j).status = old.status
    BY <1>2, <1>3, <2>1
  <2> QED
    BY <1>4, <1>5, <1>6, <2>2
<1>7. CASE j.op = "manualAttendance"
  <2>1. Written(j) = [status |-> j.mark, in |-> j.mark = "PRESENT", paid |-> Deducts(j), conflict |-> leave]
    BY <1>7 DEF Written
  <2>2. j.mark \in RecordStatuses /\ (j.mark = "PRESENT") \in BOOLEAN /\ Deducts(j) \in BOOLEAN
    BY <1>7 DEF RecordStatuses, Deducts
  <2> HIDE DEF old, leave
  <2>3. Written(j) \in [status : RecordStatuses, in : BOOLEAN, paid : BOOLEAN, conflict : BOOLEAN]
    BY <1>3, <2>1, <2>2
  <2>4. Written(j).status = j.mark /\ (Written(j).paid <=> Deducts(j))
    BY <2>1
  <2> QED
    BY <1>4, <1>7, <2>3, <2>4 DEF Deducts
<1> QED
  BY <1>6, <1>7 DEF Marking

\* What a manual entry makes of the balance
LEMMA MarkedBalance ==
  ASSUME Inv, NEW w \in Workers, job[w].op = "manualAttendance", pc[w] = "commit",
         job[w].row \/ ~Exists(job[w].day)
  PROVE  LET j == job[w]
             back == IF Refunds(j) THEN 2 ELSE 0
             taken == IF Deducts(j) THEN 2 ELSE 0
         IN /\ Marked(j) \in [made : BOOLEAN, pending : Nat, used : Nat, remaining : Nat]
            /\ Marked(j).pending = balance.pending /\ Marked(j).used = balance.used - back + taken
            /\ back <= balance.used
            /\ balance.made => Marked(j).made
            /\ Marked(j).made =>
                 \E a \in Allocations : Marked(j).pending + Marked(j).used + Marked(j).remaining = a
            /\ Marked(j) # balance => Balance \in holds[w]
<1> DEFINE j == job[w]
           b == Withdrawn(j)
<1>1. /\ Records(w) /\ j \in Jobs
      /\ balance \in [made : BOOLEAN, pending : Nat, used : Nat, remaining : Nat]
      /\ balance.pending \in Nat /\ balance.used \in Nat /\ balance.remaining \in Nat
  BY DEF Inv, Control, ControlOf, TypeOK
<1>2. /\ j.day \in Days /\ j.mark \in Marks /\ j.op \in Marking
      /\ Refunds(j) \/ Deducts(j) => Balance \in holds[w] /\ j.type \in LeaveType
      /\ Deducts(j) => Fits(j.type, b, FullDay)
  BY <1>1 DEF Records, Marking
<1>3. Refunds(j) => 2 <= balance.used
  <2> SUFFICES ASSUME Refunds(j)
               PROVE  2 <= balance.used
    OBVIOUS
  <2>1. j.day \in MarkedDays
    BY <1>2, WrittenRow DEF Inv, TypeOK
  <2>2. Cardinality(MarkedDays) >= 1
    BY <2>1, MarkedNat, FS_EmptySet
  <2>3. DaysWith("APPROVED") \in Nat
    BY DaysWithNat DEF Inv
  <2> QED
    BY <1>1, <2>2, <2>3, MarkedNat DEF Inv, Accounts, UsedCovers
<1>4. /\ b \in [made : BOOLEAN, pending : Nat, used : Nat, remaining : Nat]
      /\ b.made = balance.made /\ b.pending = balance.pending
      /\ b.used = balance.used - (IF Refunds(j) THEN 2 ELSE 0)
      /\ b.remaining = balance.remaining + (IF Refunds(j) THEN 2 ELSE 0)
      /\ b.used \in Nat /\ b.remaining \in Nat
  <2>1. CASE Refunds(j)
    <3> DEFINE u == IF balance.used > FullDay THEN balance.used - FullDay ELSE 0
               l == balance.remaining + FullDay
    <3>1. u \in Nat /\ l \in Nat /\ u = balance.used - 2 /\ l = balance.remaining + 2
      BY <1>1, <1>3, <2>1 DEF FullDay
    <3>2. b = [balance EXCEPT !.used = u, !.remaining = l]
      BY <2>1 DEF Withdrawn, Refunded
    <3> HIDE DEF u, l, b
    <3>3. /\ b \in [made : BOOLEAN, pending : Nat, used : Nat, remaining : Nat]
          /\ b.made = balance.made /\ b.pending = balance.pending /\ b.used = u /\ b.remaining = l
      BY <1>1, <3>1, <3>2
    <3> QED
      BY <2>1, <3>1, <3>3
  <2>2. CASE ~Refunds(j)
    <3>1. b = balance
      BY <2>2 DEF Withdrawn
    <3> HIDE DEF b
    <3> QED
      BY <1>1, <2>2, <3>1
  <2> QED
    BY <2>1, <2>2
<1>5. CASE Deducts(j)
  <2>1. j.type \in LeaveType /\ j.type.allocated \in Allocations /\ j.type.allocated \in Nat
    BY <1>2, <1>5, AllocationsAssumption DEF LeaveType
  <2>2. Marked(j) = [made |-> TRUE, pending |-> b.pending + 0, used |-> b.used + FullDay,
                     remaining |-> j.type.allocated - b.used - b.pending - 0 - FullDay]
    BY <1>5 DEF Marked, Withdrawn, Booked
  <2>3. j.type.allocated - b.used - b.pending >= 2
    BY <1>2, <1>5 DEF Fits, FullDay
  <2> DEFINE l == j.type.allocated - b.used - b.pending - 0 - FullDay
             u == b.used + FullDay
             p == b.pending + 0
  <2>4. l \in Nat /\ u \in Nat /\ p \in Nat /\ p = b.pending /\ u = b.used + 2 /\ p + u + l = j.type.allocated
    BY <1>1, <1>4, <2>1, <2>3 DEF FullDay
  <2> HIDE DEF l, u, p, b
  <2>5. /\ Marked(j) \in [made : BOOLEAN, pending : Nat, used : Nat, remaining : Nat]
        /\ Marked(j).made /\ Marked(j).pending = p /\ Marked(j).used = u /\ Marked(j).remaining = l
    BY <2>2, <2>4 DEF l, u, p
  <2>6. Marked(j).used = balance.used - (IF Refunds(j) THEN 2 ELSE 0) + (IF Deducts(j) THEN 2 ELSE 0)
    BY <1>1, <1>4, <1>5, <2>4, <2>5
  <2>7. Marked(j).pending = balance.pending
    BY <1>4, <2>4, <2>5
  <2>8. Marked(j).made =>
          \E a \in Allocations : Marked(j).pending + Marked(j).used + Marked(j).remaining = a
    BY <2>1, <2>4, <2>5
  <2>9. /\ (IF Refunds(j) THEN 2 ELSE 0) <= balance.used
        /\ Marked(j) # balance => Balance \in holds[w]
    BY <1>1, <1>2, <1>3, <1>5
  <2> QED
    BY <2>5, <2>6, <2>7, <2>8, <2>9
<1>6. CASE ~Deducts(j)
  <2>1. Marked(j) = b
    BY <1>6 DEF Marked, Withdrawn
  <2>2. ~Refunds(j) => b = balance
    BY DEF Withdrawn
  <2> HIDE DEF b
  <2>3. Marked(j).made =>
          \E a \in Allocations : Marked(j).pending + Marked(j).used + Marked(j).remaining = a
    <3>1. balance.made => \E a \in Allocations : balance.pending + balance.used + balance.remaining = a
      BY DEF Inv, Accounts, NeverOverdrawn
    <3>2. b.pending + b.used + b.remaining = balance.pending + balance.used + balance.remaining
      BY <1>1, <1>3, <1>4
    <3> QED
      BY <1>4, <2>1, <3>1, <3>2
  <2>4. Marked(j).used = balance.used - (IF Refunds(j) THEN 2 ELSE 0) + (IF Deducts(j) THEN 2 ELSE 0)
    BY <1>1, <1>4, <1>6, <2>1
  <2> QED
    BY <1>2, <1>3, <1>1, <1>4, <1>6, <2>1, <2>2, <2>3, <2>4
<1> QED
  BY <1>5, <1>6

\* The commit of manualAttendance or checkIn, the record and a marked day's balance, keeps the invariant.
LEMMA WriteRecordInv ==
  ASSUME Inv, NEW w \in Workers, WriteRecord(w)
  PROVE  Inv'
<1> DEFINE j == job[w]
           d == j.day
           back == IF Refunds(j) THEN 2 ELSE 0
           taken == IF Deducts(j) THEN 2 ELSE 0
<1>1. /\ pc[w] = "commit" /\ j.op \in Marking /\ Blockers(w) = {} /\ (j.row \/ ~Exists(d))
      /\ record' = [record EXCEPT ![d] = Written(j)]
      /\ balance' = IF j.op = "manualAttendance" THEN Marked(j) ELSE balance
      /\ request' = request /\ End(w) /\ UNCHANGED <<type, closed, events>>
  BY DEF WriteRecord, Marking
<1>2. /\ Records(w) /\ j \in Jobs /\ d \in Days
      /\ j.op = "manualAttendance" => j.mark \in Marks
      /\ balance \in [made : BOOLEAN, pending : Nat, used : Nat, remaining : Nat]
      /\ balance.pending \in Nat /\ balance.used \in Nat /\ balance.remaining \in Nat
  BY <1>1 DEF Inv, Control, ControlOf, TypeOK, Records
<1>3. /\ record' \in [Days -> [status : RecordStatuses, in : BOOLEAN, paid : BOOLEAN, conflict : BOOLEAN]]
      /\ record'[d] = Written(j) /\ \A e \in Days \ {d} : record'[e] = record[e]
      /\ MarksStand'
  <2>1. /\ Written(j) \in [status : RecordStatuses, in : BOOLEAN, paid : BOOLEAN, conflict : BOOLEAN]
        /\ Written(j).paid /\ Written(j).status # "ON_LEAVE" => Written(j).in
    BY <1>1, <1>2, WrittenRow DEF Inv
  <2>2. /\ record' \in [Days -> [status : RecordStatuses, in : BOOLEAN, paid : BOOLEAN, conflict : BOOLEAN]]
        /\ record'[d] = Written(j) /\ \A e \in Days \ {d} : record'[e] = record[e]
    BY <1>1, <1>2, <2>1 DEF Inv, TypeOK
  <2> QED
    BY <2>1, <2>2 DEF Inv, MarksStand
<1>4. /\ MarkedDays' \ {d} = MarkedDays \ {d}
      /\ j.op = "checkIn" => MarkedDays' = MarkedDays
      /\ j.op = "manualAttendance" => (d \in MarkedDays' <=> Deducts(j))
      /\ Refunds(j) <=> d \in MarkedDays
  <2>1. /\ j.op = "checkIn" =>
             (Written(j).paid /\ Written(j).status = "ON_LEAVE" <=> d \in MarkedDays)
        /\ j.op = "manualAttendance" =>
             (Written(j).paid /\ Written(j).status = "ON_LEAVE" <=> Deducts(j))
        /\ Refunds(j) <=> d \in MarkedDays
    BY <1>1, <1>2, WrittenRow DEF Inv
  <2>2. d \in MarkedDays' <=> Written(j).paid /\ Written(j).status = "ON_LEAVE"
    BY <1>2, <1>3 DEF MarkedDays
  <2>3. MarkedDays' \ {d} = MarkedDays \ {d}
    BY <1>3 DEF MarkedDays
  <2> QED
    BY <2>1, <2>2, <2>3
<1>5. /\ balance' \in [made : BOOLEAN, pending : Nat, used : Nat, remaining : Nat]
      /\ balance'.pending = balance.pending
      /\ balance.made => balance'.made
      /\ balance'.made => \E a \in Allocations : balance'.pending + balance'.used + balance'.remaining = a
      /\ balance' # balance => Balance \in holds[w]
  <2>1. CASE j.op = "manualAttendance"
    BY <1>1, <2>1, MarkedBalance
  <2>2. CASE j.op # "manualAttendance"
    BY <1>1, <1>2, <2>2 DEF Inv, Accounts, NeverOverdrawn
  <2> QED
    BY <2>1, <2>2
<1>6. balance'.used - 2 * Cardinality(MarkedDays') = balance.used - 2 * Cardinality(MarkedDays)
  <2>1. CASE j.op = "checkIn"
    BY <1>1, <1>4, <2>1
  <2>2. CASE j.op = "manualAttendance"
    <3>1. balance'.used = balance.used - back + taken
      BY <1>1, <2>2, MarkedBalance
    <3> DEFINE Rest == MarkedDays \ {d}
    <3>2. IsFiniteSet(Rest) /\ Cardinality(Rest) \in Nat
      BY MarkedNat, FS_RemoveElement, FS_CardinalityType
    <3>3. Cardinality(MarkedDays) = Cardinality(Rest) + (IF Refunds(j) THEN 1 ELSE 0)
      <4>1. CASE d \in MarkedDays
        BY <1>4, <3>2, <4>1, MarkedNat, FS_RemoveElement
      <4>2. CASE d \notin MarkedDays
        <5>1. Rest = MarkedDays
          BY <4>2
        <5> QED
          BY <1>4, <3>2, <4>2, <5>1
      <4> QED
        BY <4>1, <4>2
    <3>4. Cardinality(MarkedDays') = Cardinality(Rest) + (IF Deducts(j) THEN 1 ELSE 0)
      <4>1. CASE Deducts(j)
        <5>1. MarkedDays' = Rest \union {d} /\ d \notin Rest
          BY <1>4, <2>2, <4>1
        <5> HIDE DEF Rest
        <5> QED
          BY <3>2, <4>1, <5>1, FS_AddElement
      <4>2. CASE ~Deducts(j)
        <5>1. MarkedDays' = Rest
          BY <1>4, <2>2, <4>2
        <5> QED
          BY <3>2, <4>2, <5>1
      <4> QED
        BY <4>1, <4>2
    <3> HIDE DEF Rest
    <3> QED
      BY <1>2, <3>1, <3>2, <3>3, <3>4
  <2> QED
    BY <1>1, <2>1, <2>2 DEF Marking
<1>7. Keeps(w)
  <2>1. Record(d) \in Wanted(w)
    BY <1>1 DEF Wanted, Marking
  <2>2. \A v \in Workers \ {w} : Record(d) \notin holds[v]
    BY <1>1, <1>2, <2>1, OnlyHolder, LockNames
  <2>3. balance' # balance => \A v \in Workers \ {w} : Balance \notin holds[v]
    BY <1>5, OnlyHolder, LockNames
  <2> QED
    BY <1>1, <1>3, <2>2, <2>3 DEF Keeps
<1>8. Rows' /\ NoOverlap'
  BY <1>1, <1>5 DEF Inv, Rows, NoOverlap, ActiveRequests
<1>9. Accounts'
  <2>1. \A s : DaysWith(s)' = DaysWith(s) /\ DaysWith(s) \in Nat
    BY <1>1, DaysWithNat DEF DaysWith, With, Inv
  <2>2. PendingAccounted'
    BY <1>5, <2>1 DEF PendingAccounted, Inv, Accounts
  <2>3. UsedCovers'
    <3>1. IsFiniteSet(MarkedDays') /\ Cardinality(MarkedDays') \in Nat
      <4>1. MarkedDays' \subseteq Days
        BY DEF MarkedDays
      <4> QED
        BY <4>1, DaysAssumption, FS_Subset, FS_CardinalityType
    <3>2. balance'.used \in Nat
      BY <1>5
    <3> QED
      BY <1>2, <1>6, <2>1, <3>1, <3>2, MarkedNat DEF UsedCovers, Inv, Accounts, FullDay
  <2>4. NeverOverdrawn'
    BY <1>5 DEF NeverOverdrawn
  <2> QED
    BY <2>2, <2>3, <2>4 DEF Accounts
<1>10. /\ End(w) /\ UNCHANGED <<type, closed, events>>
       /\ request' \in [Requests -> [status : Statuses, span : Spans \union {None}, days : Nat, step : Steps]]
  BY <1>1 DEF Inv, TypeOK
<1> QED
  BY <1>3, <1>5, <1>7, <1>8, <1>9, <1>10, CommitStep

-----------------------------------------------------------------------------
(* The invariant *)

\* A calendar change or an edit of the leave type touches nobody's rows.
LEMMA OutsideInv ==
  ASSUME Inv, ChangeCalendar \/ EditType
  PROVE  Inv'
<1>1. /\ type' \in LeaveType /\ closed' \in SUBSET Days /\ events' \in 0..MaxEvents
      /\ UNCHANGED <<balance, request, record, holds, pc, job>>
  <2>1. events' \in 0..MaxEvents
    BY AllocationsAssumption DEF ChangeCalendar, EditType, Inv, TypeOK
  <2> QED
    BY <2>1 DEF ChangeCalendar, EditType, Inv, TypeOK
<1>2. TypeOK' /\ Exclusive' /\ Rows' /\ MarksStand' /\ NoOverlap'
  BY <1>1 DEF Inv, TypeOK, Exclusive, Rows, MarksStand, NoOverlap, ActiveRequests
<1>3. Accounts'
  BY <1>1 DEF Inv, Accounts, PendingAccounted, UsedCovers, NeverOverdrawn, DaysWith, With, MarkedDays
<1>4. Control'
  <2> SUFFICES ASSUME NEW w \in Workers
               PROVE  ControlOf(w)'
    BY DEF Control
  <2>1. ControlOf(w)
    BY DEF Inv, Control
  <2>2. Applies(w)' /\ Handles(w)'
    BY <1>1, <2>1 DEF ControlOf, Applies, Handles, ActiveRequests
  <2>3. Records(w)'
    BY <1>1, <2>1 DEF ControlOf, Records, Refunds, Deducts, Fits, Withdrawn, Refunded
  <2> QED
    BY <1>1, <2>1, <2>2, <2>3 DEF ControlOf
<1> QED
  BY <1>2, <1>3, <1>4 DEF Inv

\* The first balance, no requests and no records satisfy the invariant.
LEMMA InitInv == Init => Inv
<1> SUFFICES ASSUME Init
             PROVE  Inv
  OBVIOUS
<1>1. TypeOK
  BY AllocationsAssumption DEF Init, TypeOK, NoBalance, NoRequest, NoRecord, NoJob, Jobs, Labels, Statuses,
     Steps, RecordStatuses
<1>2. Exclusive /\ MarksStand /\ NoOverlap
  BY DEF Init, Exclusive, MarksStand, NoOverlap, NoRecord, NoRequest, ActiveRequests, Active
<1>3. Rows
  BY DEF Init, Rows, NoRequest
<1>4. Control
  BY DEF Init, Control, ControlOf, Ops, Applies, Handles, Records, NoJob, About, Marking
<1>5. With("PENDING") = {} /\ With("APPROVED") = {} /\ MarkedDays = {}
  BY DEF Init, With, NoRequest, MarkedDays, NoRecord
<1>6. DaysWith("PENDING") = 0 /\ DaysWith("APPROVED") = 0
  BY <1>5, SumEmpty DEF DaysWith
<1>7. Cardinality(MarkedDays) = 0
  BY <1>5, FS_EmptySet
<1>8. Accounts
  BY <1>6, <1>7 DEF Init, Accounts, PendingAccounted, UsedCovers, NeverOverdrawn, NoBalance, FullDay
<1> QED
  BY <1>1, <1>2, <1>3, <1>4, <1>8 DEF Inv

\* Every step keeps the invariant.
LEMMA NextInv == Inv /\ [Next]_vars => Inv'
<1> SUFFICES ASSUME Inv, [Next]_vars
             PROVE  Inv'
  OBVIOUS
<1>1. CASE UNCHANGED vars
  <2>1. UNCHANGED <<type, closed, balance, request, record, holds, pc, job, events>>
    BY <1>1 DEF vars
  <2>2. TypeOK' /\ Exclusive' /\ Rows' /\ MarksStand' /\ NoOverlap'
    BY <2>1 DEF Inv, TypeOK, Exclusive, Rows, MarksStand, NoOverlap, ActiveRequests
  <2>3. Accounts'
    BY <2>1 DEF Inv, Accounts, PendingAccounted, UsedCovers, NeverOverdrawn, DaysWith, With, MarkedDays
  <2>4. Control'
    BY <2>1 DEF Inv, Control, ControlOf, Applies, Handles, ActiveRequests, Records, Refunds, Deducts, Fits,
                Withdrawn, Refunded
  <2> QED
    BY <2>2, <2>3, <2>4 DEF Inv
<1>2. CASE ChangeCalendar \/ EditType
  BY <1>2, OutsideInv
<1>3. ASSUME NEW w \in Workers, Begin(w)
      PROVE  Inv'
  BY <1>3, ApplyLeaveInv, AskAboutInv, MarkDayInv, CheckInInv DEF Begin
<1>4. ASSUME NEW w \in Workers, Proceed(w)
      PROVE  Inv'
  <2>1. CASE LockEmployee(w) \/ NoBalanceRow(w) \/ InsertRequest(w)
    BY <2>1, LockEmployeeInv, NoBalanceRowInv, InsertRequestInv
  <2>2. CASE LockRequest(w) \/ CancelInstead(w) \/ Release(w) \/ Recalculate(w)
    BY <2>2, LockRequestInv, CancelInsteadInv, ReleaseInv, RecalculateInv
  <2>3. CASE LockBalance(w) \/ LockRecords(w) \/ Approve(w) \/ CancelApproved(w)
    BY <2>3, LockBalanceInv, LockRecordsInv, ApproveInv, CancelApprovedInv
  <2>4. CASE LockRecord(w) \/ TakeBalance(w) \/ WriteRecord(w)
    BY <2>4, LockRecordInv, TakeBalanceInv, WriteRecordInv
  <2>5. CASE Skip(w) \/ Throw(w) \/ DeadlockVictim(w)
    <3>1. Refuse(w)
      BY <2>5 DEF Skip, Throw, DeadlockVictim
    <3> QED
      BY <3>1, RefuseInv
  <2> QED
    BY <1>4, <2>1, <2>2, <2>3, <2>4, <2>5 DEF Proceed
<1>5. ASSUME NEW w \in Workers, Crash(w)
      PROVE  Inv'
  <2>1. End(w) /\ UNCHANGED tables /\ events' \in 0..MaxEvents
    BY <1>5, AllocationsAssumption DEF Crash, Inv, TypeOK
  <2> QED
    BY <2>1, EndsQuietly
<1> QED
  BY <1>1, <1>2, <1>3, <1>4, <1>5 DEF Next

\* In every reachable state the invariant holds.
THEOREM Invariance == Spec => []Inv
<1> QED
  BY InitInv, NextInv, PTL DEF Spec

\* The balance accounts for every request and every marked day, however the handlers of the
\* employee's requests and days interleave, fail and crash.
THEOREM Accounted == Spec => []BalanceAccounted
<1>1. Inv => BalanceAccounted
  BY DEF Inv, Accounts, BalanceAccounted
<1> QED
  BY <1>1, Invariance, PTL

\* What is booked and what remains always add up to an allocation, and never go beyond it.
THEOREM Overdrawn == Spec => []NeverOverdrawn
<1>1. Inv => NeverOverdrawn
  BY DEF Inv, Accounts
<1> QED
  BY <1>1, Invariance, PTL

\* No two active requests of the employee take the same day, unless both are half days that do
\* not name the same half.
THEOREM Overlaps == Spec => []NoOverlap
<1>1. Inv => NoOverlap
  BY DEF Inv
<1> QED
  BY <1>1, Invariance, PTL

-----------------------------------------------------------------------------
(* The ledger *)

Entry(row) == [kind |-> Kind(row.status), days |-> row.days]

Entries == [r \in Requests |-> Entry(request[r])]

\* A booking of the ledger, or none
Booking == Ledger!Next \/ UNCHANGED <<Entries, balance.pending, balance.used>>

\* A step that changes one request changes its entry only.
LEMMA EntryMoves ==
  ASSUME TypeOK, NEW r \in Requests, NEW row, request' = [request EXCEPT ![r] = row], row.days \in Nat
  PROVE  /\ Entries' = [Entries EXCEPT ![r] = Entry(row)] /\ Entries'[r] = Entry(row)
         /\ Entries[r] = Entry(request[r]) /\ Ledger!Only(r)
<1>1. Entries'[r] = Entry(row) /\ Entries[r] = Entry(request[r])
  BY DEF Entries, TypeOK
<1>2. Entries' = [Entries EXCEPT ![r] = Entry(row)]
  BY DEF Entries, TypeOK
<1>3. Entry(row).days \in Nat
  BY DEF Entry
<1>4. Entries' = [Entries EXCEPT ![r] = Entries'[r]] /\ Entries'[r].days \in Nat
  BY <1>1, <1>2, <1>3
<1> QED
  BY <1>1, <1>2, <1>4 DEF Ledger!Only, Entries, Entry

\* A step that writes neither a request nor the balance books nothing.
LEMMA NothingBooked ==
  ASSUME request' = request, balance' = balance
  PROVE  Booking
BY DEF Booking, Entries

\* A booking of one request is a booking.
LEMMA OneBooked ==
  ASSUME NEW r \in Requests, Ledger!Open(r) \/ Ledger!Recount(r) \/ Ledger!Settle(r) \/ Ledger!Close(r)
  PROVE  Booking
BY DEF Booking, Ledger!Next

\* applyLeave books one entry of the ledger: a reservation, or days used at once.
LEMMA InsertRequestBooks ==
  ASSUME Inv, NEW w \in Workers, InsertRequest(w)
  PROVE  Booking
<1>0. PICK r \in Requests : r = job[w].r
  BY DEF Inv, Control, ControlOf, Applies, InsertRequest
<1> DEFINE j == job[w]
           status == IF j.type.approval THEN "PENDING" ELSE "APPROVED"
           row == [status |-> status, span |-> j.span, days |-> j.days,
                   step |-> IF j.type.approval THEN "PENDING" ELSE "none"]
           kind == IF j.type.approval THEN "pending" ELSE "used"
<1>1. /\ ControlOf(w) /\ j \in Jobs /\ j.op = "applyLeave"
      /\ request' = [request EXCEPT ![r] = row]
      /\ balance' = IF j.type.approval THEN Booked(j.type, balance, j.days, 0)
                                       ELSE Booked(j.type, balance, 0, j.days)
  BY <1>0 DEF Inv, Control, TypeOK, InsertRequest
<1>2. r \in Requests /\ j.days \in Nat /\ j.days > 0 /\ request[r] = NoRequest
  BY <1>0, <1>1 DEF ControlOf, Applies, Jobs
<1>3. row.days = j.days /\ row.status = status
  OBVIOUS
<1>4. /\ Entries'[r] = Entry(row) /\ Entries[r] = Entry(request[r]) /\ Ledger!Only(r)
  <2>1. TypeOK /\ row.days \in Nat /\ request' = [request EXCEPT ![r] = row]
    BY <1>1, <1>2, <1>3 DEF Inv
  <2> HIDE DEF row
  <2> QED
    BY <1>2, <2>1, EntryMoves
<1>5. Entries'[r].kind = kind /\ Entries'[r].days = j.days /\ Entries[r].kind = "none"
  BY <1>2, <1>3, <1>4 DEF Entry, Kind, NoRequest
<1>6. /\ balance'.pending = balance.pending + (IF kind = "pending" THEN j.days ELSE 0)
      /\ balance'.used = balance.used + (IF kind = "used" THEN j.days ELSE 0)
  BY <1>1 DEF Booked
<1>7. kind \in {"pending", "used"}
  OBVIOUS
<1> HIDE DEF kind, row
<1>8. Ledger!Open(r)
  BY <1>2, <1>4, <1>5, <1>6, <1>7 DEF Ledger!Open, Ledger!Book, Entries, Entry
<1> QED
  BY <1>2, <1>8, OneBooked

\* recalculateSingleLeave corrects one entry of the ledger, or books nothing.
LEMMA RecalculateBooks ==
  ASSUME Inv, NEW w \in Workers, Recalculate(w)
  PROVE  Booking
<1>0. PICK r \in Requests : r = job[w].r
  BY Handled DEF Recalculate, HasBalance, About
<1> DEFINE n == request[r].days
           m == Count(request[r].span)
           row == [request[r] EXCEPT !.days = m]
           kind == Kind(request[r].status)
<1>1. /\ job[w].op = "recalculateSingleLeave" /\ job[w].op \in About
      /\ pc[w] \in {"balance", "create", "records", "commit"}
      /\ balance' = IF request[r].status = "APPROVED"
                    THEN [balance EXCEPT !.remaining = @ - (m - n), !.used = @ + (m - n)]
                    ELSE [balance EXCEPT !.remaining = @ - (m - n), !.pending = @ + (m - n)]
      /\ request' = [request EXCEPT ![r].days = @ + (m - n)]
  BY <1>0 DEF Recalculate, HasBalance, About
<1>2. /\ r \in Requests /\ request[r].status \in Active /\ n \in Nat /\ m \in Nat
      /\ request[r] \in [status : Statuses, span : Spans \union {None}, days : Nat, step : Steps]
      /\ balance \in [made : BOOLEAN, pending : Nat, used : Nat, remaining : Nat]
  BY <1>0, <1>1, Handled, CountNat DEF Ready, Inv, TypeOK
<1>3. request' = [request EXCEPT ![r] = row]
  <2>1. n + (m - n) = m
    BY <1>2
  <2> QED
    BY <1>1, <1>2, <2>1 DEF Inv, TypeOK
<1>4. row.days = m /\ row.status = request[r].status
  BY <1>2
<1> HIDE DEF row
<1>5. /\ Entries'[r] = Entry(row) /\ Entries[r] = Entry(request[r]) /\ Ledger!Only(r)
  <2>1. TypeOK /\ row.days \in Nat
    BY <1>2, <1>4 DEF Inv
  <2> QED
    BY <1>2, <1>3, <2>1, EntryMoves
<1>6. Entries'[r].kind = kind /\ Entries'[r].days = m /\ Entries[r].kind = kind /\ Entries[r].days = n
  BY <1>4, <1>5 DEF Entry
<1>7. kind = IF request[r].status = "APPROVED" THEN "used" ELSE "pending"
  BY <1>2 DEF Active, Kind
<1>8. /\ balance'.pending = balance.pending + (IF kind = "pending" THEN m - n ELSE 0)
      /\ balance'.used = balance.used + (IF kind = "used" THEN m - n ELSE 0)
  <2>1. m - n \in Int /\ balance.pending + 0 = balance.pending /\ balance.used + 0 = balance.used
    BY <1>2
  <2>2. CASE request[r].status = "APPROVED"
    <3>1. kind = "used"
      BY <1>7, <2>2
    <3> QED
      BY <1>1, <1>2, <2>1, <2>2, <3>1
  <2>3. CASE request[r].status # "APPROVED"
    <3>1. kind = "pending"
      BY <1>7, <2>3
    <3> QED
      BY <1>1, <1>2, <2>1, <2>3, <3>1
  <2> QED
    BY <2>2, <2>3
<1>9. kind \in {"pending", "used"}
  BY <1>7
<1> HIDE DEF kind, n, m
<1>10. Ledger!Recount(r)
  BY <1>5, <1>6, <1>8, <1>9 DEF Ledger!Recount, Ledger!Book, Entries, Entry
<1> QED
  BY <1>2, <1>10, OneBooked

\* approveLeave turns a reservation of the ledger into days used.
LEMMA ApproveBooks ==
  ASSUME Inv, NEW w \in Workers, Approve(w)
  PROVE  Booking
<1>0. PICK r \in Requests : r = job[w].r
  BY Handled DEF Approve, About
<1> DEFINE n == job[w].days
           was == request[r].days
           row == [request[r] EXCEPT !.status = "APPROVED", !.step = "APPROVED", !.days = n]
<1>1. /\ job[w].op = "approveLeave" /\ job[w].op \in About /\ pc[w] = "commit"
      /\ balance' = [balance EXCEPT !.pending = @ - was, !.used = @ + n, !.remaining = @ + was - n]
      /\ request' = [request EXCEPT ![r].status = "APPROVED", ![r].step = "APPROVED", ![r].days = n]
  BY <1>0 DEF Approve, About
<1>2. /\ r \in Requests /\ request[r].status = "PENDING" /\ n \in Nat
      /\ request[r] \in [status : Statuses, span : Spans \union {None}, days : Nat, step : Steps]
      /\ balance \in [made : BOOLEAN, pending : Nat, used : Nat, remaining : Nat]
  BY <1>0, <1>1, Handled DEF Ready, Inv, TypeOK, Jobs
<1>3. request' = [request EXCEPT ![r] = row]
  BY <1>1, <1>2 DEF Inv, TypeOK
<1>4. row.days = n /\ row.status = "APPROVED"
  BY <1>2
<1> HIDE DEF row
<1>5. /\ Entries'[r] = Entry(row) /\ Entries[r] = Entry(request[r]) /\ Ledger!Only(r)
  <2>1. TypeOK /\ row.days \in Nat
    BY <1>2, <1>4 DEF Inv
  <2> QED
    BY <1>2, <1>3, <2>1, EntryMoves
<1>6. Entries'[r].kind = "used" /\ Entries'[r].days = n /\ Entries[r].kind = "pending" /\ Entries[r].days = was
  BY <1>2, <1>4, <1>5 DEF Entry, Kind
<1>7. balance'.pending = balance.pending - was /\ balance'.used = balance.used + n
  BY <1>1, <1>2
<1> HIDE DEF n, was
<1>8. Ledger!Settle(r)
  BY <1>5, <1>6, <1>7 DEF Ledger!Settle, Entries, Entry
<1> QED
  BY <1>2, <1>8, OneBooked

\* A request that is closed gives back what it holds.
LEMMA CloseBooks ==
  ASSUME Inv, NEW r \in Requests, NEW row, request' = [request EXCEPT ![r] = row],
         request[r].status \in Active, row.days = request[r].days, Kind(row.status) = "closed",
         LET n == request[r].days
             approved == request[r].status = "APPROVED"
         IN /\ balance'.pending = balance.pending - (IF approved THEN 0 ELSE n)
            /\ balance'.used = balance.used - (IF approved THEN n ELSE 0)
  PROVE  Booking
<1> DEFINE n == request[r].days
           kind == Kind(request[r].status)
<1>1. n \in Nat /\ balance.pending \in Nat /\ balance.used \in Nat
  BY DEF Inv, TypeOK
<1>2. /\ Entries' = [Entries EXCEPT ![r] = Entry(row)] /\ Entries[r] = Entry(request[r])
  BY <1>1, EntryMoves DEF Inv
<1>3. Entries' = [Entries EXCEPT ![r].kind = "closed"]
  <2>1. Entry(row) = [Entries[r] EXCEPT !.kind = "closed"]
    BY <1>2 DEF Entry
  <2> QED
    BY <1>2, <2>1 DEF Entries
<1>4. kind = IF request[r].status = "APPROVED" THEN "used" ELSE "pending"
  BY DEF Active, Kind
<1>5. Entries[r].kind = kind /\ Entries[r].days = n
  BY <1>2 DEF Entry
<1>6. /\ balance'.pending = balance.pending + (IF kind = "pending" THEN -n ELSE 0)
      /\ balance'.used = balance.used + (IF kind = "used" THEN -n ELSE 0)
  BY <1>1, <1>4
<1>7. kind \in {"pending", "used"}
  BY <1>4
<1> HIDE DEF kind, n
<1>8. Ledger!Close(r)
  BY <1>3, <1>5, <1>6, <1>7 DEF Ledger!Close, Ledger!Book, Entries, Entry
<1> QED
  BY <1>8 DEF Booking, Ledger!Next

\* rejectLeave and cancelLeave close a reservation of the ledger.
LEMMA ReleaseBooks ==
  ASSUME Inv, NEW w \in Workers, Release(w)
  PROVE  Booking
<1> DEFINE r == job[w].r
           n == request[r].days
           row == IF job[w].op = "rejectLeave" THEN [request[r] EXCEPT !.status = "REJECTED", !.step = "REJECTED"]
                                               ELSE [request[r] EXCEPT !.status = "CANCELLED"]
<1>1. /\ job[w].op \in {"rejectLeave", "cancelLeave"} /\ job[w].op \in About
      /\ pc[w] \in {"balance", "create", "records", "commit"}
      /\ balance' = [balance EXCEPT !.pending = @ - n, !.remaining = @ + n]
  BY DEF Release, HasBalance, About
<1>2. /\ r \in Requests /\ request[r].status = "PENDING" /\ request[r].status \in Active
      /\ request[r] \in [status : Statuses, span : Spans \union {None}, days : Nat, step : Steps]
      /\ balance \in [made : BOOLEAN, pending : Nat, used : Nat, remaining : Nat]
  BY <1>1, Handled DEF Ready, Inv, TypeOK, Active
<1>3. request' = [request EXCEPT ![r] = row]
  BY <1>1, <1>2 DEF Release, Inv, TypeOK
<1>4. row.days = n /\ row.status \in {"REJECTED", "CANCELLED"}
  BY <1>2
<1>5. Kind(row.status) = "closed"
  BY <1>4 DEF Kind
<1>6. /\ balance'.pending = balance.pending - (IF request[r].status = "APPROVED" THEN 0 ELSE n)
      /\ balance'.used = balance.used - (IF request[r].status = "APPROVED" THEN n ELSE 0)
  BY <1>1, <1>2
<1> HIDE DEF row
<1> QED
  BY <1>2, <1>3, <1>4, <1>5, <1>6, CloseBooks

\* cancelApprovedLeave closes an entry of days used.
LEMMA CancelApprovedBooks ==
  ASSUME Inv, NEW w \in Workers, CancelApproved(w)
  PROVE  Booking
<1> DEFINE r == job[w].r
           n == request[r].days
           row == [request[r] EXCEPT !.status = "CANCELLED_AFTER_APPROVAL"]
<1>1. /\ job[w].op = "cancelApprovedLeave" /\ job[w].op \in About /\ pc[w] = "commit"
      /\ balance' = [balance EXCEPT !.used = @ - n, !.remaining = @ + n]
      /\ request' = [request EXCEPT ![r].status = "CANCELLED_AFTER_APPROVAL"]
  BY DEF CancelApproved, About
<1>2. /\ r \in Requests /\ request[r].status = "APPROVED" /\ request[r].status \in Active
      /\ request[r] \in [status : Statuses, span : Spans \union {None}, days : Nat, step : Steps]
      /\ balance \in [made : BOOLEAN, pending : Nat, used : Nat, remaining : Nat]
  BY <1>1, Handled DEF Ready, Inv, TypeOK, Active
<1>3. request' = [request EXCEPT ![r] = row]
  BY <1>1, <1>2 DEF Inv, TypeOK
<1>4. row.days = n /\ row.status = "CANCELLED_AFTER_APPROVAL"
  BY <1>2
<1>5. Kind(row.status) = "closed"
  BY <1>4 DEF Kind
<1>6. /\ balance'.pending = balance.pending - (IF request[r].status = "APPROVED" THEN 0 ELSE n)
      /\ balance'.used = balance.used - (IF request[r].status = "APPROVED" THEN n ELSE 0)
  BY <1>1, <1>2
<1> HIDE DEF row
<1> QED
  BY <1>2, <1>3, <1>4, <1>5, <1>6, CloseBooks

\* manualAttendance books a marked day or takes it back; checkIn books nothing.
LEMMA WriteRecordBooks ==
  ASSUME Inv, NEW w \in Workers, WriteRecord(w)
  PROVE  Booking
<1> DEFINE j == job[w]
<1>1. /\ pc[w] = "commit" /\ j.op \in Marking /\ (j.row \/ ~Exists(j.day))
      /\ balance' = IF j.op = "manualAttendance" THEN Marked(j) ELSE balance
      /\ request' = request
  BY DEF WriteRecord, Marking
<1>2. balance.used \in Nat
  BY DEF Inv, TypeOK
<1>3. CASE j.op # "manualAttendance"
  BY <1>1, <1>3, NothingBooked
<1>4. CASE j.op = "manualAttendance"
  <2>1. /\ balance'.pending = balance.pending /\ Entries' = Entries
        /\ balance'.used = balance.used - (IF Refunds(j) THEN 2 ELSE 0) + (IF Deducts(j) THEN 2 ELSE 0)
        /\ (IF Refunds(j) THEN 2 ELSE 0) <= balance.used
    BY <1>1, <1>4, MarkedBalance DEF Entries
  <2>2. \/ balance'.used = balance.used
        \/ balance'.used = balance.used + 2
        \/ balance'.used = IF balance.used > 2 THEN balance.used - 2 ELSE 0
    <3> DEFINE a == Refunds(j)
               b == Deducts(j)
    <3> HIDE DEF a, b
    <3>1. /\ balance'.used = balance.used - (IF a THEN 2 ELSE 0) + (IF b THEN 2 ELSE 0)
          /\ (IF a THEN 2 ELSE 0) <= balance.used
      BY <2>1 DEF a, b
    <3>2. CASE a /\ b
      BY <1>2, <3>1, <3>2
    <3>3. CASE a /\ ~b
      BY <1>2, <3>1, <3>3
    <3>4. CASE ~a
      BY <1>2, <3>1, <3>4
    <3> QED
      BY <3>2, <3>3, <3>4
  <2>3. CASE balance'.used = balance.used
    BY <2>1, <2>3 DEF Booking
  <2>4. CASE balance'.used # balance.used
    <3>1. Ledger!Mark
      BY <2>1, <2>2, <2>4 DEF Ledger!Mark, Entries, Entry, FullDay
    <3> QED
      BY <3>1 DEF Booking, Ledger!Next
  <2> QED
    BY <2>3, <2>4
<1> QED
  BY <1>3, <1>4

\* Every step of the handlers is one booking of the ledger, or none.
LEMMA StepBooks == Inv /\ [Next]_vars => Booking
<1> SUFFICES ASSUME Inv, [Next]_vars
             PROVE  Booking
  OBVIOUS
<1>1. CASE UNCHANGED vars
  BY <1>1, NothingBooked DEF vars
<1>2. CASE ChangeCalendar \/ EditType
  BY <1>2, NothingBooked DEF ChangeCalendar, EditType
<1>3. ASSUME NEW w \in Workers, Begin(w) \/ Crash(w)
      PROVE  Booking
  <2>1. request' = request /\ balance' = balance
    BY <1>3 DEF Begin, ApplyLeave, AskAbout, MarkDay, CheckIn, Start, Crash, tables
  <2> QED
    BY <2>1, NothingBooked
<1>4. ASSUME NEW w \in Workers, Proceed(w)
      PROVE  Booking
  <2>1. CASE InsertRequest(w) \/ Release(w) \/ Recalculate(w)
    BY <2>1, InsertRequestBooks, ReleaseBooks, RecalculateBooks
  <2>2. CASE Approve(w) \/ CancelApproved(w) \/ WriteRecord(w)
    BY <2>2, ApproveBooks, CancelApprovedBooks, WriteRecordBooks
  <2>3. CASE \/ LockEmployee(w) \/ NoBalanceRow(w) \/ LockRequest(w) \/ CancelInstead(w)
             \/ LockBalance(w) \/ LockRecords(w) \/ LockRecord(w) \/ TakeBalance(w)
    <3>1. request' = request /\ balance' = balance
      BY <2>3 DEF LockEmployee, NoBalanceRow, LockRequest, CancelInstead, LockBalance, LockRecords,
                  LockRecord, TakeBalance, tables
    <3> QED
      BY <3>1, NothingBooked
  <2>4. CASE Skip(w) \/ Throw(w) \/ DeadlockVictim(w)
    <3>1. request' = request /\ balance' = balance
      BY <2>4 DEF Skip, Throw, DeadlockVictim, Refuse, tables
    <3> QED
      BY <3>1, NothingBooked
  <2> QED
    BY <1>4, <2>1, <2>2, <2>3, <2>4 DEF Proceed
<1> QED
  BY <1>1, <1>2, <1>3, <1>4 DEF Next

\* The handlers implement the ledger: each commit books one request as a whole, or one marked day.
THEOREM Refinement == Spec => ImplementsLedger
<1>1. Init => Ledger!Init
  BY DEF Init, Ledger!Init, NoRequest, NoBalance, Kind
<1>2. Inv /\ [Next]_vars => [Ledger!Next]_<<Entries, balance.pending, balance.used>>
  BY StepBooks DEF Booking
<1>3. Spec => Ledger!Spec
  BY <1>1, <1>2, Invariance, PTL DEF Spec, Ledger!Spec, Entries, Entry
<1> QED
  BY <1>3 DEF ImplementsLedger
=============================================================================
