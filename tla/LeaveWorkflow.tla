----------------------------- MODULE LeaveWorkflow -----------------------------
(***************************************************************************)
(* Leave of one employee: requests of one leave type, the balance row of   *)
(* the year, the attendance rows of the days, and the handlers of          *)
(* leave-requests, leave-requests-workflow, leave-revalidation and         *)
(* attendance (manualAttendance, checkIn) that write them, each in a READ  *)
(* COMMITTED transaction of its own.                                       *)
(*                                                                         *)
(* Every handler locks the rows it is going to write before it writes them,*)
(* so a transaction is a run of steps that each acquire row locks or read, *)
(* and one last step that writes and commits.  An INSERT holds the lock of *)
(* the unique key it inserts, and of the employee row its foreign key      *)
(* names.  Days are counted in halves: a whole day is two.                 *)
(***************************************************************************)
EXTENDS Integers, FiniteSets, FiniteSetsExt

CONSTANTS Requests,    \* leave_requests rows, absent until created
          Days,        \* calendar days of one year, the first one is today
          Workers,     \* request handlers, event listeners and the nightly job
          Spans,       \* what employees ask for
          Allocations, \* values of leave_types.daysPerYear, in half days
          Marks,       \* statuses an administrator writes into an attendance row
          Asked,       \* handlers that are called
          MaxEvents,   \* bound on calendar changes, edits of the leave type, crashes
          None

ASSUME RequestsAssumption == IsFiniteSet(Requests)

ASSUME DaysAssumption == Days \subseteq Nat /\ IsFiniteSet(Days) /\ Days # {}

FullDay == 2
HalfDay == 1
Halves == {"No", "FIRST_HALF", "SECOND_HALF", "null"}   \* null: a half day that names no half

ASSUME SpansAssumption ==
  /\ Spans \subseteq [from : Days, to : Days, half : Halves]
  /\ \A s \in Spans : s.half # "No" => s.from = s.to

ASSUME AllocationsAssumption == Allocations \subseteq Nat /\ MaxEvents \in Nat

VARIABLES type,     \* leave_types row: daysPerYear and requiresApproval
          closed,   \* days that are weekly off or a holiday of the company
          balance,  \* committed employee_leave_balances row
          request,  \* committed leave_requests rows and their approval step
          record,   \* committed attendance_records row of each day
          holds,    \* row locks of each worker's transaction
          pc, job,  \* control state and local variables of each worker
          events    \* calendar changes, edits and crashes so far

vars == <<type, closed, balance, request, record, holds, pc, job, events>>
tables == <<type, closed, balance, request, record>>

Active == {"PENDING", "APPROVED"}
Statuses == Active \union {"none", "REJECTED", "CANCELLED", "CANCELLED_AFTER_APPROVAL"}
Steps == {"none", "PENDING", "APPROVED", "REJECTED"}

NoRequest == [status |-> "none", span |-> None, days |-> 0, step |-> "none"]
NoBalance == [made |-> FALSE, pending |-> 0, used |-> 0, remaining |-> 0]

\* in: there is a check-in; paid: the last manual entry took a day from the balance
NoRecord == [status |-> "none", in |-> FALSE, paid |-> FALSE, conflict |-> FALSE]

RecordStatuses == Marks \union {"none", "null", "ABSENT", "ON_LEAVE", "HALF_DAY"}

Handlers == {"applyLeave", "approveLeave", "rejectLeave", "cancelLeave",
             "cancelApprovedLeave", "recalculateSingleLeave", "manualAttendance", "checkIn"}

Labels == {"idle", "employee", "create", "request", "balance", "records", "record", "commit"}

LeaveType == [allocated : Allocations, approval : BOOLEAN]

NoJob == [op |-> "none", r |-> None, span |-> None, days |-> 0, type |-> None,
          day |-> None, mark |-> "none", row |-> FALSE]

Jobs == [op : Handlers \union {"none"}, r : Requests \union {None},
         span : Spans \union {None}, days : Nat, type : LeaveType \union {None},
         day : Days \union {None}, mark : Marks \union {"none"}, row : BOOLEAN]

\* Row locks.  Key is the share lock a foreign key takes on the employee row.
Employee == <<"employee">>
Key == <<"employee key">>
Balance == <<"balance">>
Request(r) == <<"request", r>>
Record(d) == <<"record", d>>
Locks == {Employee, Key, Balance} \union {Request(r) : r \in Requests}
                                  \union {Record(d) : d \in Days}

\* Every variable has its type.
TypeOK ==
  /\ type \in LeaveType
  /\ closed \in SUBSET Days
  /\ balance \in [made : BOOLEAN, pending : Nat, used : Nat, remaining : Nat]
  /\ request \in [Requests -> [status : Statuses, span : Spans \union {None},
                               days : Nat, step : Steps]]
  /\ record \in [Days -> [status : RecordStatuses, in : BOOLEAN,
                          paid : BOOLEAN, conflict : BOOLEAN]]
  /\ holds \in [Workers -> SUBSET Locks]
  /\ pc \in [Workers -> Labels]
  /\ job \in [Workers -> Jobs]
  /\ events \in 0..MaxEvents

-----------------------------------------------------------------------------
(* Days of a request *)

DaysOf(s) == {d \in Days : s.from <= d /\ d <= s.to}

\* calculateActualLeaveDays
Count(s) == IF s.half # "No" THEN HalfDay ELSE FullDay * Cardinality(DaysOf(s) \ closed)

\* Two requests exclude each other, unless both are half days that do not name the same half:
\* one that names none differs from every other, an undefined type from a null one too.
Overlap(s, t) ==
  /\ DaysOf(s) \intersect DaysOf(t) # {}
  /\ \/ "No" \in {s.half, t.half}
     \/ s.half = t.half /\ s.half # "null"

ActiveRequests == {r \in Requests : request[r].status \in Active}

\* Days an approved leave covers
OnLeave(d) == \E r \in Requests : /\ request[r].status = "APPROVED"
                                  /\ d \in DaysOf(request[r].span)

-----------------------------------------------------------------------------
(* Transactions *)

Exists(d) == record[d].status # "none"

\* Attendance rows of the days that w has locked
Seen(w) == {d \in Days : Record(d) \in holds[w]}

CheckedIn(w) == {d \in Seen(w) : record[d].in}

\* Locks the next step of w waits for: FOR UPDATE finds committed rows only.
Wanted(w) ==
  CASE pc[w] = "employee" -> {Employee}
    [] pc[w] = "request"  -> {Request(job[w].r)}
    [] pc[w] = "balance" /\ balance.made -> {Balance}
    [] pc[w] = "create"   -> {Balance, Key}
    [] pc[w] = "records"  -> {Record(d) : d \in {e \in DaysOf(request[job[w].r].span) : Exists(e)}}
    [] pc[w] = "record" /\ Exists(job[w].day) -> {Record(job[w].day)}
    [] pc[w] = "commit"   -> CASE job[w].op \in {"manualAttendance", "checkIn"} -> {Key, Record(job[w].day)}
                               [] job[w].op = "approveLeave" /\ CheckedIn(w) # {} -> {Key}
                               [] OTHER -> {}
    [] OTHER -> {}

Clash(x) == CASE x = Key -> {Employee}
              [] x = Employee -> {Employee, Key}
              [] OTHER -> {x}

Blockers(w) == {v \in Workers \ {w} : \E x \in Wanted(w) : holds[v] \intersect Clash(x) # {}}

Acquire(w) ==
  /\ Blockers(w) = {}
  /\ holds' = [holds EXCEPT ![w] = @ \union Wanted(w)]

Goto(w, label, j) ==
  /\ pc' = [pc EXCEPT ![w] = label]
  /\ job' = [job EXCEPT ![w] = j]

\* Commit or rollback: the locks go.
End(w) ==
  /\ holds' = [holds EXCEPT ![w] = {}]
  /\ Goto(w, "idle", NoJob)

Refuse(w) == End(w) /\ UNCHANGED <<tables, events>>

Start(w, label, j) ==
  /\ pc[w] = "idle"
  /\ j.op \in Asked
  /\ Goto(w, label, j)
  /\ UNCHANGED <<tables, holds, events>>

-----------------------------------------------------------------------------
(* applyLeave: the days are counted and the leave type is read before the transaction *)

Fresh == {r \in Requests : request[r] = NoRequest /\ \A v \in Workers : job[v].r # r}

ApplyLeave(w) ==
  \E s \in Spans, r \in Fresh :
    /\ Count(s) > 0
    /\ Start(w, "employee", [NoJob EXCEPT !.op = "applyLeave", !.r = r, !.span = s,
                                          !.days = Count(s), !.type = type])

\* (mutant) The employee row is not locked.
LockEmployeeNot(w) ==
  /\ pc[w] = "employee"
  /\ \A r \in ActiveRequests : ~Overlap(request[r].span, job[w].span)
  /\ Goto(w, "balance", job[w])
  /\ UNCHANGED <<tables, holds, events>>

\* Other requests of the employee are read under the lock of the employee row.
LockEmployee(w) ==
  /\ pc[w] = "employee"
  /\ \A r \in ActiveRequests : ~Overlap(request[r].span, job[w].span)
  /\ Acquire(w)
  /\ Goto(w, "balance", job[w])
  /\ UNCHANGED <<tables, events>>

Fits(t, b, days) == t.allocated - b.used - b.pending >= days

\* The balance row with some more days pending or used, under leave type t
Booked(t, b, pending, used) ==
  [made |-> TRUE, pending |-> b.pending + pending, used |-> b.used + used,
   remaining |-> t.allocated - b.used - b.pending - pending - used]

\* A balance row that is not there is created, which waits for one being created.
NoBalanceRow(w) ==
  /\ pc[w] = "balance"
  /\ ~balance.made
  /\ Goto(w, "create", job[w])
  /\ UNCHANGED <<tables, holds, events>>

\* The balance row is locked, or inserted, by w's step.
HasBalance(w) ==
  /\ \/ pc[w] = "balance" /\ balance.made
     \/ pc[w] = "create" /\ ~balance.made
  /\ Blockers(w) = {}

\* The approval a type asks for is the one read before the transaction.
InsertRequest(w) ==
  LET j == job[w]
      status == IF j.type.approval THEN "PENDING" ELSE "APPROVED"
  IN /\ j.op = "applyLeave"
     /\ HasBalance(w)
     /\ Fits(j.type, balance, j.days)
     /\ request' = [request EXCEPT ![j.r] =
          [status |-> status, span |-> j.span, days |-> j.days,
           step |-> IF j.type.approval THEN "PENDING" ELSE "none"]]
     /\ balance' = IF j.type.approval THEN Booked(j.type, balance, j.days, 0)
                                      ELSE Booked(j.type, balance, 0, j.days)
     /\ End(w)
     /\ UNCHANGED <<type, closed, record, events>>

-----------------------------------------------------------------------------
(* approveLeave, rejectLeave, cancelLeave, cancelApprovedLeave, recalculateSingleLeave *)

AskAbout(w) ==
  \E op \in Handlers \ {"applyLeave", "manualAttendance", "checkIn"}, r \in Requests :
    /\ request[r] # NoRequest
    /\ op = "recalculateSingleLeave" => r \in ActiveRequests
    /\ Start(w, "request", [NoJob EXCEPT !.op = op, !.r = r])

\* (mutant) Approved requests are not recalculated.
AllowedPending(op, r) ==
  CASE op = "cancelApprovedLeave" -> request[r].status = "APPROVED"
    [] op = "cancelLeave" -> request[r].status \in Active
    [] OTHER -> request[r].status = "PENDING"

Allowed(op, r) ==
  CASE op \in {"approveLeave", "rejectLeave"} -> request[r].status = "PENDING" /\ request[r].step = "PENDING"
    [] op = "cancelApprovedLeave" -> request[r].status = "APPROVED"
    [] OTHER -> request[r].status \in Active

LockRequest(w) ==
  /\ pc[w] = "request"
  /\ Allowed(job[w].op, job[w].r)
  /\ ~(job[w].op = "cancelLeave" /\ request[job[w].r].status = "APPROVED")
  /\ Acquire(w)
  /\ Goto(w, "balance", job[w])
  /\ UNCHANGED <<tables, events>>

\* cancelLeave of an approved request, by one who may: in a new transaction
CancelInstead(w) ==
  /\ pc[w] = "request"
  /\ job[w].op = "cancelLeave"
  /\ Blockers(w) = {}
  /\ request[job[w].r].status = "APPROVED"
  /\ Goto(w, "request", [job[w] EXCEPT !.op = "cancelApprovedLeave"])
  /\ UNCHANGED <<tables, holds, events>>

\* What a request that is not approved gives back
Release(w) ==
  LET r == job[w].r
      n == request[r].days
  IN /\ job[w].op \in {"rejectLeave", "cancelLeave"}
     /\ HasBalance(w)
     /\ request' = IF job[w].op = "rejectLeave"
                   THEN [request EXCEPT ![r].status = "REJECTED", ![r].step = "REJECTED"]
                   ELSE [request EXCEPT ![r].status = "CANCELLED"]
     /\ balance' = [balance EXCEPT !.pending = @ - n, !.remaining = @ + n]
     /\ End(w)
     /\ UNCHANGED <<type, closed, record, events>>

\* (mutant) The balance of a recalculation may become negative.
RecountableAlways(r, days) == TRUE

\* The balance can take the difference between the days counted now and before.
Recountable(r, days) ==
  LET diff == days - request[r].days
  IN /\ balance.remaining - diff >= 0
     /\ (IF request[r].status = "APPROVED" THEN balance.used ELSE balance.pending) + diff >= 0

\* (mutant) The pending days are adjusted whatever the status.
RecalculatePending(w) ==
  LET r == job[w].r
      diff == Count(request[r].span) - request[r].days
  IN /\ job[w].op = "recalculateSingleLeave"
     /\ HasBalance(w)
     /\ diff # 0
     /\ Recountable(r, Count(request[r].span))
     /\ request' = [request EXCEPT ![r].days = @ + diff]
     /\ balance' = [balance EXCEPT !.remaining = @ - diff, !.pending = @ + diff]
     /\ End(w)
     /\ UNCHANGED <<type, closed, record, events>>

Recalculate(w) ==
  LET r == job[w].r
      diff == Count(request[r].span) - request[r].days
  IN /\ job[w].op = "recalculateSingleLeave"
     /\ HasBalance(w)
     /\ diff # 0
     /\ Recountable(r, Count(request[r].span))
     /\ request' = [request EXCEPT ![r].days = @ + diff]
     /\ balance' = IF request[r].status = "APPROVED"
                   THEN [balance EXCEPT !.remaining = @ - diff, !.used = @ + diff]
                   ELSE [balance EXCEPT !.remaining = @ - diff, !.pending = @ + diff]
     /\ End(w)
     /\ UNCHANGED <<type, closed, record, events>>

\* (mutant) It returns without rolling back.
SkipHolding(w) ==
  LET r == job[w].r
  IN /\ job[w].op = "recalculateSingleLeave"
     /\ HasBalance(w)
     /\ Count(request[r].span) = request[r].days
     /\ Goto(w, "idle", NoJob)
     /\ UNCHANGED <<tables, holds, events>>

\* A recalculation that finds nothing to do
Skip(w) ==
  LET r == job[w].r
  IN /\ job[w].op = "recalculateSingleLeave"
     /\ HasBalance(w)
     /\ Count(request[r].span) = request[r].days
     /\ Refuse(w)

\* approveLeave counts the days again on another connection, under its locks.
LockBalance(w) ==
  LET r == job[w].r
      days == Count(request[r].span)
  IN /\ pc[w] = "balance"
     /\ job[w].op \in {"approveLeave", "cancelApprovedLeave"}
     /\ job[w].op = "approveLeave" /\ days # request[r].days => Recountable(r, days)
     /\ Acquire(w)
     /\ Goto(w, "records", IF job[w].op = "approveLeave" THEN [job[w] EXCEPT !.days = days] ELSE job[w])
     /\ UNCHANGED <<tables, events>>

LockRecords(w) ==
  /\ pc[w] = "records"
  /\ Acquire(w)
  /\ Goto(w, "commit", job[w])
  /\ UNCHANGED <<tables, events>>

\* An attendance row of an approved day: a check-in is a conflict.
OnApproval(d, half) ==
  IF record[d].in THEN [record[d] EXCEPT !.conflict = TRUE]
  ELSE IF half = "No" THEN [record[d] EXCEPT !.status = "ON_LEAVE"]
  ELSE IF record[d].status = "ABSENT" THEN [record[d] EXCEPT !.status = "HALF_DAY"]
  ELSE record[d]

\* (mutant) The days booked are those counted now, the days released as well.
ApproveUnadjusted(w) ==
  LET r == job[w].r
      n == job[w].days
  IN /\ pc[w] = "commit"
     /\ job[w].op = "approveLeave"
     /\ Blockers(w) = {}
     /\ request' = [request EXCEPT ![r].status = "APPROVED", ![r].step = "APPROVED", ![r].days = n]
     /\ balance' = [balance EXCEPT !.pending = @ - n, !.used = @ + n]
     /\ record' = [d \in Days |-> IF d \in Seen(w) THEN OnApproval(d, request[r].span.half) ELSE record[d]]
     /\ End(w)
     /\ UNCHANGED <<type, closed, events>>

Approve(w) ==
  LET r == job[w].r
      n == job[w].days
      was == request[r].days
  IN /\ pc[w] = "commit"
     /\ job[w].op = "approveLeave"
     /\ Blockers(w) = {}
     /\ request' = [request EXCEPT ![r].status = "APPROVED", ![r].step = "APPROVED", ![r].days = n]
     /\ balance' = [balance EXCEPT !.pending = @ - was, !.used = @ + n, !.remaining = @ + was - n]
     /\ record' = [d \in Days |-> IF d \in Seen(w) THEN OnApproval(d, request[r].span.half) ELSE record[d]]
     /\ End(w)
     /\ UNCHANGED <<type, closed, events>>

\* Rows without a check-in are deleted, whoever made them.
CancelApproved(w) ==
  LET r == job[w].r
      n == request[r].days
  IN /\ pc[w] = "commit"
     /\ job[w].op = "cancelApprovedLeave"
     /\ request' = [request EXCEPT ![r].status = "CANCELLED_AFTER_APPROVAL"]
     /\ balance' = [balance EXCEPT !.used = @ - n, !.remaining = @ + n]
     /\ record' = [d \in Days |-> IF d \notin Seen(w) THEN record[d]
                                  ELSE IF record[d].in THEN [record[d] EXCEPT !.status = "null"]
                                  ELSE NoRecord]
     /\ End(w)
     /\ UNCHANGED <<type, closed, events>>

-----------------------------------------------------------------------------
(* manualAttendance, checkIn *)

Today == Min(Days)

MarkDay(w) ==
  \E d \in Days, mark \in Marks :
    Start(w, "record", [NoJob EXCEPT !.op = "manualAttendance", !.day = d, !.mark = mark])

CheckIn(w) == Start(w, "record", [NoJob EXCEPT !.op = "checkIn", !.day = Today])

\* The last manual entry of the day took a day off the balance and is withdrawn.
Refunds(j) == j.row /\ record[j.day].status = "ON_LEAVE" /\ record[j.day].paid

Deducts(j) == j.mark = "ON_LEAVE"

LockRecord(w) ==
  LET j == [job[w] EXCEPT !.row = Exists(job[w].day)]
  IN /\ pc[w] = "record"
     /\ j.op = "checkIn" => ~record[j.day].in
     /\ Acquire(w)
     /\ Goto(w, IF j.op = "manualAttendance" /\ (Refunds(j) \/ Deducts(j)) THEN "balance" ELSE "commit", j)
     /\ UNCHANGED <<tables, events>>

Refunded(b) == [b EXCEPT !.used = IF @ > FullDay THEN @ - FullDay ELSE 0, !.remaining = @ + FullDay]

\* The balance after a manual entry, under the leave type read in the transaction
Marked(j) ==
  LET b == IF Refunds(j) THEN Refunded(balance) ELSE balance
  IN IF Deducts(j) THEN Booked(j.type, b, 0, FullDay) ELSE b

MarkFits(j) == Deducts(j) =>
  Fits(type, IF Refunds(j) THEN Refunded(balance) ELSE balance, FullDay)

TakeBalance(w) ==
  /\ job[w].op = "manualAttendance"
  /\ HasBalance(w)
  /\ MarkFits(job[w])
  /\ Acquire(w)
  /\ Goto(w, "commit", [job[w] EXCEPT !.type = type])
  /\ UNCHANGED <<tables, events>>

\* A presence is entered with its times.
Written(j) ==
  LET old == IF j.row THEN record[j.day] ELSE [NoRecord EXCEPT !.status = "null"]
      leave == old.conflict \/ OnLeave(j.day)
  IN IF j.op = "checkIn" THEN [old EXCEPT !.in = TRUE, !.conflict = leave]
     ELSE [status |-> j.mark, in |-> j.mark = "PRESENT", paid |-> Deducts(j), conflict |-> leave]

WriteRecord(w) ==
  LET j == job[w]
  IN /\ pc[w] = "commit"
     /\ j.op \in {"manualAttendance", "checkIn"}
     /\ Blockers(w) = {}
     /\ j.row \/ ~Exists(j.day)
     /\ record' = [record EXCEPT ![j.day] = Written(j)]
     /\ balance' = IF j.op = "manualAttendance" THEN Marked(j) ELSE balance
     /\ End(w)
     /\ UNCHANGED <<type, closed, request, events>>

-----------------------------------------------------------------------------
(* Errors, and what happens around the requests *)

\* A handler that throws rolls back.
Throw(w) ==
  LET j == job[w]
  IN /\ Blockers(w) = {}
     /\ \/ pc[w] = "employee" /\ \E r \in ActiveRequests : Overlap(request[r].span, j.span)
        \/ pc[w] = "request" /\ ~Allowed(j.op, j.r)
        \/ pc[w] = "request" /\ j.op = "cancelLeave" /\ request[j.r].status = "APPROVED"
        \/ pc[w] = "create" /\ balance.made
        \/ HasBalance(w) /\ j.op = "applyLeave" /\ ~Fits(j.type, balance, j.days)
        \/ HasBalance(w) /\ j.op = "manualAttendance" /\ ~MarkFits(j)
        \/ /\ pc[w] = "balance"
           /\ j.op \in {"approveLeave", "recalculateSingleLeave"}
           /\ Count(request[j.r].span) # request[j.r].days
           /\ ~Recountable(j.r, Count(request[j.r].span))
        \/ pc[w] = "record" /\ j.op = "checkIn" /\ record[j.day].in
        \/ /\ pc[w] = "commit"
           /\ j.op \in {"manualAttendance", "checkIn"}
           /\ ~j.row /\ Exists(j.day)
     /\ Refuse(w)

\* PostgreSQL breaks a cycle of waiting transactions.
DeadlockVictim(w) ==
  /\ \E S \in SUBSET Workers : w \in S /\ \A v \in S : Blockers(v) \intersect S # {}
  /\ Refuse(w)

Crash(w) ==
  /\ pc[w] # "idle"
  /\ events < MaxEvents
  /\ events' = events + 1
  /\ End(w)
  /\ UNCHANGED tables

\* A holiday is added or removed.
ChangeCalendar ==
  /\ events < MaxEvents
  /\ events' = events + 1
  /\ \E d \in Days : closed' = IF d \in closed THEN closed \ {d} ELSE closed \union {d}
  /\ UNCHANGED <<type, balance, request, record, holds, pc, job>>

EditType ==
  /\ events < MaxEvents
  /\ events' = events + 1
  /\ type' \in LeaveType \ {type}
  /\ UNCHANGED <<closed, balance, request, record, holds, pc, job>>

-----------------------------------------------------------------------------
Init ==
  /\ type \in LeaveType
  /\ closed \in SUBSET Days
  /\ balance = NoBalance
  /\ request = [r \in Requests |-> NoRequest]
  /\ record = [d \in Days |-> NoRecord]
  /\ holds = [w \in Workers |-> {}]
  /\ pc = [w \in Workers |-> "idle"]
  /\ job = [w \in Workers |-> NoJob]
  /\ events = 0

Proceed(w) ==
  \/ LockEmployee(w) \/ NoBalanceRow(w) \/ InsertRequest(w)
  \/ LockRequest(w) \/ CancelInstead(w) \/ Release(w) \/ Recalculate(w) \/ Skip(w)
  \/ LockBalance(w) \/ LockRecords(w) \/ Approve(w) \/ CancelApproved(w)
  \/ LockRecord(w) \/ TakeBalance(w) \/ WriteRecord(w)
  \/ Throw(w) \/ DeadlockVictim(w)

Begin(w) == ApplyLeave(w) \/ AskAbout(w) \/ MarkDay(w) \/ CheckIn(w)

Next ==
  \/ ChangeCalendar
  \/ EditType
  \/ \E w \in Workers : Begin(w) \/ Proceed(w) \/ Crash(w)

Spec == Init /\ [][Next]_vars

\* The nightly job comes to every request that is still active.
Nightly(r) == \E w \in Workers :
  Start(w, "request", [NoJob EXCEPT !.op = "recalculateSingleLeave", !.r = r]) /\ r \in ActiveRequests

\* Transactions proceed, locks are granted in the order they are asked for, and
\* every night the days of every active request are counted again.
FairSpec ==
  /\ Spec
  /\ \A w \in Workers : SF_vars(Proceed(w))
  /\ \A r \in Requests : SF_vars(Nightly(r))

-----------------------------------------------------------------------------
(* Properties *)

With(status) == {r \in Requests : request[r].status = status}

DaysWith(status) == SumFunctionOnSet([r \in Requests |-> request[r].days], With(status))

\* The balance's pending days are exactly those of the pending requests, however
\* approvals, cancellations and recalculations of the same requests interleave.
PendingAccounted == balance.pending = DaysWith("PENDING")

\* Days whose last manual entry took a day from the balance
MarkedDays == {d \in Days : record[d].paid /\ record[d].status = "ON_LEAVE"}

\* No approved request, and no day an administrator has marked as leave, is
\* missing from the used days.
UsedCovers == balance.used >= DaysWith("APPROVED") + FullDay * Cardinality(MarkedDays)

\* The balance accounts for every request and every marked day.
BalanceAccounted == TypeOK /\ PendingAccounted /\ UsedCovers

\* What is booked and what remains always add up to an allocation the leave type
\* had, and never go beyond it.
NeverOverdrawn ==
  balance.made => balance.remaining >= 0 /\ \E a \in Allocations : balance.pending + balance.used + balance.remaining = a

\* No two requests of the employee share a day, unless both are half days that do not name
\* the same half.  (Half days that name none may share a half.)
NoOverlap ==
  \A r, s \in ActiveRequests : r # s => ~Overlap(request[r].span, request[s].span)

Kind(status) == CASE status = "none" -> "none"
                  [] status = "PENDING" -> "pending"
                  [] status = "APPROVED" -> "used"
                  [] OTHER -> "closed"

Ledger == INSTANCE LeaveLedger WITH
            entry <- [r \in Requests |-> [kind |-> Kind(request[r].status), days |-> request[r].days]],
            pending <- balance.pending,
            used <- balance.used

\* Every commit is one booking of the ledger, or none.
ImplementsLedger == Ledger!Spec

\* Every request of a client ends.
RequestsEnd == \A w \in Workers : pc[w] # "idle" ~> pc[w] = "idle"

\* Once the calendar is left alone, the nightly job brings the days of every
\* active request up to date, unless the balance cannot take the difference.
DaysCatchUp ==
  \A r \in Requests : []<>(r \in ActiveRequests =>
    \/ request[r].days = Count(request[r].span)
    \/ ~Recountable(r, Count(request[r].span)))

=============================================================================
