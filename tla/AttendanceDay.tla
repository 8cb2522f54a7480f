------------------------------ MODULE AttendanceDay ------------------------------
(***************************************************************************)
(* The attendance record of one employee for one day: the punches of the   *)
(* employee, the override, the entry and the approved correction that      *)
(* state its times, and the three jobs that write the same row - automatic *)
(* breaks and automatic check-out every five minutes, the marking of       *)
(* absentees at night.                                                     *)
(*                                                                         *)
(* A request reads the row FOR UPDATE and writes it in one transaction: it *)
(* is one step.  A run reads the row without a lock and writes it later,   *)
(* whatever it has become.                                                 *)
(*                                                                         *)
(* Time is a small number of instants.  The hours worked, the status and   *)
(* the leave of the day are not kept here (LeaveWorkflow has the status;   *)
(* the rows without times that approving a leave inserts, and cancelling   *)
(* one destroys, are left out).                                            *)
(***************************************************************************)
EXTENDS Naturals, Sequences, FiniteSets

CONSTANTS Runs,       \* runs of the jobs that may overlap
          NoTime,
          BreakStart, BreakEnd, EndWindow,  \* the break policy; how late its end is still noticed
          ShiftEnd, Threshold,              \* the shift; when a missing check-out is supplied
          Midnight, Day, LastInstant,       \* the record's date is today before Midnight
          NightRuns,                        \* the instants of the nightly run, two in the morning
          MinAge, NightAge,                 \* check-ins younger than these are left alone
          Stated,                           \* instants that are stated, by whom it may be
          MaxBreaks                         \* bound on the break logs

\* A time is a number of instants.
ASSUME TimeAssumption ==
  /\ {BreakStart, BreakEnd, EndWindow, ShiftEnd, Threshold, Midnight, Day, LastInstant, MinAge, NightAge} \subseteq Nat
  /\ NightRuns \subseteq Nat /\ MaxBreaks \in Nat
  /\ Stated \subseteq 0 .. LastInstant
  /\ NoTime \notin Nat

\* A usual working day: the break ends, and its end is noticed, before a missing check-out is
\* supplied, which is after the shift; a shift ends late enough that the first night finds no
\* check-in after its end, and the second none after its end on the day after.
ASSUME PolicyAssumption ==
  /\ BreakEnd + EndWindow <= Threshold /\ ShiftEnd <= Threshold
  /\ \A n \in NightRuns :
       /\ Threshold <= n
       /\ n <= ShiftEnd + NightAge \/ (ShiftEnd + Day <= n /\ n <= ShiftEnd + Day + NightAge)

VARIABLES now,
          record,   \* the attendance_records row, NoRow until somebody writes it
          breaks,   \* attendance_logs: BREAK_START and BREAK_END, in order
          wrote,    \* history: the last request that wrote times: "punch", "statement", "entry"
          half,     \* history: has automatic check-out logged the end of a break, and not yet closed the row?
          run       \* per worker: the run it runs, its next statement, the row it read

dayVars == <<now, record, wrote, breaks, half, run>>

Instants == 0 .. LastInstant
Times == Instants \union {NoTime}
PunchStates == {"no row", "NOT_CHECKED_IN", "WORKING", "ON_BREAK", "CHECKED_OUT"}
DayRows == [in : Times, out : Times, state : PunchStates]

DayRow(in, out, state) == [in |-> in, out |-> out, state |-> state]
NoRow == DayRow(NoTime, NoTime, "no row")
NoRecord == record = NoRow
InSession == record.in # NoTime /\ record.out = NoTime
CheckedIn == {"WORKING", "ON_BREAK"}

NotRunning == [at |-> "idle", read |-> NoRow]
RunPositions == {"idle", "startBreak", "endBreak", "closeBreak", "autoCheckout", "nightCheckout", "nightCreate"}

Continue(w, position, read) == run' = [run EXCEPT ![w] = [at |-> position, read |-> read]]
Ended(w) == run' = [run EXCEPT ![w] = NotRunning]

Tick ==
  /\ now < LastInstant
  /\ now' = now + 1
  /\ UNCHANGED <<record, wrote, breaks, half, run>>

-----------------------------------------------------------------------------
\* Requests.

\* Checking in again opens a new session, also out of a break.
CheckIn ==
  /\ now < Midnight
  /\ record.state # "WORKING"
  /\ record' = DayRow(now, NoTime, "WORKING")
  /\ wrote' = "punch"
  /\ UNCHANGED <<now, breaks, half, run>>

OpenBreak == breaks # <<>> /\ breaks[Len(breaks)] = "BREAK_START"

Logged(kind) == breaks' = Append(breaks, kind)

\* After midnight the record is yesterday's and is found only while it has no check-out.
CheckOut ==
  /\ now < Midnight \/ record.out = NoTime
  /\ record.in # NoTime
  /\ record.state \in CheckedIn
  /\ record' = DayRow(record.in, now, "CHECKED_OUT")
  /\ IF OpenBreak THEN Logged("BREAK_END") ELSE UNCHANGED breaks
  /\ UNCHANGED <<now, wrote, half, run>>

StateOf(in, out) ==
  IF out # NoTime THEN "CHECKED_OUT" ELSE IF in # NoTime THEN "WORKING" ELSE "NOT_CHECKED_IN"

\* The times of the row, or others, those to come among them.
Statement(in, out) ==
  /\ record' = DayRow(in, out, StateOf(in, out))
  /\ wrote' = "statement"
  /\ UNCHANGED <<now, breaks, half, run>>

OneAfterAnother(in, out) == in # NoTime /\ out # NoTime => in < out

ManualOverride ==
  /\ ~NoRecord
  /\ \E in \in Stated \union {record.in, NoTime}, out \in Stated \union {record.out, NoTime} :
       OneAfterAnother(in, out) /\ Statement(in, out)

\* An approved correction does not compare its times, and keeps those it does not propose.
ApplyCorrection ==
  \E in \in Stated \union {record.in}, out \in Stated \union {record.out} : Statement(in, out)

\* An administrator's entry closes the day, also without a check-out or any time at all.
ManualAttendance ==
  /\ \E in, out \in Stated \union {NoTime} :
       OneAfterAnother(in, out) /\ record' = DayRow(in, out, "CHECKED_OUT")
  /\ wrote' = "entry"
  /\ UNCHANGED <<now, breaks, half, run>>

-----------------------------------------------------------------------------
\* processAutomaticBreaks: the rows in the wrong state are read, then written by id.

ShouldBeOnBreak == BreakStart <= now /\ now < BreakEnd
ShouldEndBreak == BreakEnd <= now /\ now < BreakEnd + EndWindow

ReadForBreaks(w) ==
  /\ run[w].at = "idle"
  /\ \/ ShouldBeOnBreak /\ record.state = "WORKING" /\ Continue(w, "startBreak", record)
     \/ ShouldEndBreak /\ record.state = "ON_BREAK" /\ Continue(w, "endBreak", record)
  /\ UNCHANGED <<now, record, wrote, breaks, half>>

WriteBreak(w) ==
  /\ run[w].at \in {"startBreak", "endBreak"}
  /\ Len(breaks) < MaxBreaks
  /\ IF run[w].at = "startBreak"
     THEN record' = [record EXCEPT !.state = "ON_BREAK"] /\ Logged("BREAK_START")
     ELSE record' = [record EXCEPT !.state = "WORKING"] /\ Logged("BREAK_END")
  /\ Ended(w)
  /\ UNCHANGED <<now, wrote, half>>

-----------------------------------------------------------------------------
\* processAutoCheckout: every statement commits by itself.

OldEnough(in, age) == in + age <= now

ReadForCheckout(w) ==
  /\ run[w].at = "idle"
  /\ InSession /\ record.state \in CheckedIn
  /\ Threshold <= now
  /\ OldEnough(record.in, MinAge)
  /\ Continue(w, IF record.state = "ON_BREAK" THEN "closeBreak" ELSE "autoCheckout", record)
  /\ UNCHANGED <<now, record, wrote, breaks, half>>

\* A log that cannot be inserted is reported and passed over.
CloseBreak(w) ==
  /\ run[w].at = "closeBreak"
  /\ Len(breaks) < MaxBreaks
  /\ \/ Logged("BREAK_END") /\ half' = TRUE
     \/ UNCHANGED <<breaks, half>>
  /\ Continue(w, "autoCheckout", run[w].read)
  /\ UNCHANGED <<now, record, wrote>>

\* Only what differs from the row that was read is written: the check-in is not,
\* the state is not when the row read already had it.
ClosedRow(read, out) ==
  [record EXCEPT !.out = out, !.state = IF read.state = "CHECKED_OUT" THEN @ ELSE "CHECKED_OUT"]

\* (mutant) the end of the shift, also for somebody who came later
AutoTimeOfShift(in) == ShiftEnd

\* The end of the shift, or a minute after a later check-in.
AutoTime(in) == IF ShiftEnd <= in THEN in ELSE ShiftEnd

AutoCheckout(w) ==
  /\ run[w].at = "autoCheckout"
  /\ record' = ClosedRow(run[w].read, AutoTime(run[w].read.in))
  /\ half' = FALSE
  /\ Ended(w)
  /\ UNCHANGED <<now, wrote, breaks>>

-----------------------------------------------------------------------------
\* markDailyAbsentees, after the day: a missing row is created, an open one closed.

ReadForNight(w) ==
  /\ run[w].at = "idle"
  /\ now \in NightRuns
  /\ \/ NoRecord /\ Continue(w, "nightCreate", record)
     \/ InSession /\ OldEnough(record.in, NightAge) /\ Continue(w, "nightCheckout", record)
  /\ UNCHANGED <<now, record, wrote, breaks, half>>

\* The unique index on employee and date refuses a second row; the run goes on.
NightCreate(w) ==
  /\ run[w].at = "nightCreate"
  /\ record' = IF NoRecord THEN DayRow(NoTime, NoTime, "NOT_CHECKED_IN") ELSE record
  /\ Ended(w)
  /\ UNCHANGED <<now, wrote, breaks, half>>

\* A check-in after the end of the shift belongs to a night shift.
NightTime(in) == IF ShiftEnd < in THEN ShiftEnd + Day ELSE ShiftEnd

NightCheckout(w) ==
  /\ run[w].at = "nightCheckout"
  /\ record' = ClosedRow(run[w].read, NightTime(run[w].read.in))
  /\ Ended(w)
  /\ UNCHANGED <<now, wrote, breaks, half>>

RunStops(w) ==
  /\ run[w].at # "idle"
  /\ Ended(w)
  /\ UNCHANGED <<now, record, wrote, breaks, half>>

-----------------------------------------------------------------------------
DayInit ==
  /\ now = 0
  /\ record = NoRow
  /\ wrote = "punch"
  /\ breaks = <<>>
  /\ half = FALSE
  /\ run = [w \in Runs |-> NotRunning]

RunStep(w) ==
  \/ ReadForBreaks(w) \/ WriteBreak(w)
  \/ ReadForCheckout(w) \/ CloseBreak(w) \/ AutoCheckout(w)
  \/ ReadForNight(w) \/ NightCreate(w) \/ NightCheckout(w)

DayNext ==
  \/ Tick \/ CheckIn \/ CheckOut
  \/ ManualOverride \/ ManualAttendance \/ ApplyCorrection
  \/ \E w \in Runs : RunStep(w) \/ RunStops(w)

DaySpec == DayInit /\ [][DayNext]_dayVars

-----------------------------------------------------------------------------
DayTypeOK ==
  /\ now \in Instants
  /\ record \in DayRows
  /\ wrote \in {"punch", "statement", "entry"}
  /\ breaks \in Seq({"BREAK_START", "BREAK_END"}) /\ Len(breaks) <= MaxBreaks + 1
  /\ run \in [Runs -> [at : RunPositions, read : DayRows]]

\* A day that is closed without the time of a check-out was closed by an administrator's entry:
\* no punch and no job, whatever it read before, does so, and no statement of times.
ClosedHasTime ==
  record.state = "CHECKED_OUT" /\ record.out = NoTime => wrote = "entry"
\* Somebody at work or on a break has checked in and has not checked out.
OpenHasNone ==
  record.state \in CheckedIn => record.in # NoTime /\ record.out = NoTime
\* No check-out lies before the check-in that was punched, also those the jobs supply for an
\* earlier time.
InOrder ==
  wrote = "punch" /\ record.in # NoTime /\ record.out # NoTime => record.in <= record.out
\* A row on a break has a break in its logs that has not ended.
OnBreakIsLogged ==
  record.state = "ON_BREAK" => OpenBreak \/ half
\* The three hold as long as no request comes between the reading and the writing of a job:
\* a break job that read the row first puts somebody on a break who has checked out since.
Sessions == OpenHasNone /\ InOrder /\ OnBreakIsLogged
=============================================================================
