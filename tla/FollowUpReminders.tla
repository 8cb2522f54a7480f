---------------------------- MODULE FollowUpReminders ----------------------------
(***************************************************************************)
(* Follow-ups of one user with one partner, and the reminders of the day   *)
(* they fall due: made by the job of eight o'clock, by a login, and by     *)
(* every request that enters or moves a follow-up.  All of them look for   *)
(* the reminder before they make it, in statements that commit one by one. *)
(*                                                                         *)
(* Left out: what a reminder says, copies for administrators, muted users, *)
(* and enquiries (BusinessReference has syncEnquiryStatus).                *)
(***************************************************************************)
EXTENDS Naturals

CONSTANTS Calls,       \* requests and jobs that may overlap
          FollowUps,
          Days,        \* 1 .. the last day
          Never        \* no next date

ASSUME DaysAssumption == 1 \in Days

VARIABLES today,
          followUps,   \* partner_followups: next date, status, isActive
          reminders,   \* per follow-up, how many FOLLOW_UP notifications it has
          jobDone,     \* has the job of today run to its end?
          missed,      \* history: follow-ups whose request stopped half-way, whose reminder
                       \*          was refused, or that were "completed" as pending
          call         \* per call: its next statement, the follow-ups it is about, the rows it read

reminderVars == <<today, followUps, reminders, jobDone, missed, call>>

Dates == Days \union {Never}
Entered == [due : Dates, status : {"Pending", "Closed"}, active : BOOLEAN]
NotEntered == [state |-> "not entered"]
Known == {f \in FollowUps : followUps[f] \in Entered}

NoCall == [at |-> "idle"]
Due(f) == f \in Known /\ followUps[f] = [due |-> today, status |-> "Pending", active |-> TRUE]

Calling(c, next) == call' = [call EXCEPT ![c] = next]

-----------------------------------------------------------------------------
\* Requests.

\* The new follow-up completes the earlier ones that are still pending.
Superseded(f) ==
  IF followUps[f] \in Entered /\ followUps[f].active /\ followUps[f].due # Never
  THEN [followUps[f] EXCEPT !.status = "Closed"] ELSE followUps[f]

EnterFollowUp(c) ==
  /\ call[c] = NoCall
  /\ \E f \in FollowUps \ Known, due \in Dates, status \in {"Pending", "Closed"} :
       /\ followUps' = [g \in FollowUps |->
            IF g = f THEN [due |-> due, status |-> status, active |-> TRUE] ELSE Superseded(g)]
       /\ Calling(c, [at |-> "read", about |-> {f}, daily |-> FALSE])
  /\ UNCHANGED <<today, reminders, jobDone, missed>>

\* completeFollowUp, rescheduleFollowUp, update and remove load the row, then save what differs.
LoadFollowUp(c) ==
  /\ call[c] = NoCall
  /\ \E f \in Known : followUps[f].active /\ Calling(c, [at |-> "save", about |-> {f}, row |-> followUps[f]])
  /\ UNCHANGED <<today, followUps, reminders, jobDone, missed>>

Changed(read, new, current) == IF new = read THEN current ELSE new

\* No reminder is deleted when a follow-up is completed or removed.  The status that completes
\* it is any the request names, pending too, and no reminder is looked for.
CompleteOrRemove(c) ==
  /\ call[c].at = "save"
  /\ LET row == call[c].row IN
       \E f \in call[c].about :
         \/ \E status \in {"Pending", "Closed"} :
              /\ followUps' = [followUps EXCEPT ![f].status = Changed(row.status, status, @)]
              /\ missed' = IF status = "Pending" THEN missed \union {f} ELSE missed
         \/ followUps' = [followUps EXCEPT ![f].active = FALSE] /\ UNCHANGED missed
  /\ Calling(c, NoCall)
  /\ UNCHANGED <<today, reminders, jobDone>>

\* rescheduleFollowUp names a day and makes the follow-up pending; update names what it likes.
Reschedule(c) ==
  /\ call[c].at = "save"
  /\ LET row == call[c].row IN
       \E f \in call[c].about, new \in Entered :
         /\ followUps' = [followUps EXCEPT ![f] =
              [due |-> Changed(row.due, new.due, @.due),
               status |-> Changed(row.status, new.status, @.status),
               active |-> Changed(row.active, new.active, @.active)]]
         /\ Calling(c, [at |-> "delete", about |-> {f}, daily |-> FALSE])
  /\ UNCHANGED <<today, reminders, jobDone, missed>>

\* A refused deletion is logged, and the request goes on.
DeleteReminders(c) ==
  /\ call[c].at = "delete"
  /\ \/ reminders' = [f \in FollowUps |-> IF f \in call[c].about THEN 0 ELSE reminders[f]]
     \/ UNCHANGED reminders
  /\ Calling(c, [call[c] EXCEPT !.at = "read"])
  /\ UNCHANGED <<today, followUps, jobDone, missed>>

-----------------------------------------------------------------------------
\* checkAndSendUserReminders and notifyDailyFollowUps.

BeginCheck(c) ==
  /\ call[c] = NoCall
  /\ \E daily \in {FALSE, ~jobDone} : Calling(c, [at |-> "read", about |-> {}, daily |-> daily])
  /\ UNCHANGED <<today, followUps, reminders, jobDone, missed>>

\* A daily call is the job of eight o'clock, which serves every user.
EndCheck(c) ==
  /\ Calling(c, NoCall)
  /\ jobDone' = (jobDone \/ call[c].daily)

ReadDue(c) ==
  /\ call[c].at = "read"
  /\ LET rows == {f \in Known : Due(f)} IN
       IF rows = {} THEN EndCheck(c)
       ELSE /\ Calling(c, [at |-> "look", about |-> call[c].about, daily |-> call[c].daily, rows |-> rows])
            /\ UNCHANGED jobDone
  /\ UNCHANGED <<today, followUps, reminders, missed>>

\* One follow-up less to serve.
Served(c, f) ==
  IF call[c].rows = {f} THEN EndCheck(c)
  ELSE Calling(c, [at |-> "look", about |-> call[c].about, daily |-> call[c].daily, rows |-> call[c].rows \ {f}])
       /\ UNCHANGED jobDone

LookForReminder(c) ==
  /\ call[c].at = "look"
  /\ \E f \in call[c].rows :
       IF reminders[f] > 0 THEN Served(c, f)
       ELSE Calling(c, [at |-> "make", about |-> call[c].about, daily |-> call[c].daily, rows |-> call[c].rows, next |-> f])
            /\ UNCHANGED jobDone
  /\ UNCHANGED <<today, followUps, reminders, missed>>

\* A refused INSERT is caught and logged, and the call goes on with the next follow-up.
MakeReminder(c) ==
  /\ call[c].at = "make"
  /\ \/ /\ reminders' = [reminders EXCEPT ![call[c].next] = @ + 1]
        /\ UNCHANGED missed
     \/ /\ missed' = missed \union {call[c].next}
        /\ UNCHANGED reminders
  /\ Served(c, call[c].next)
  /\ UNCHANGED <<today, followUps>>

\* A look-up that fails is caught and logged, a write that fails reaches the client, or the
\* process stops: the rest is not done.
AbandonCall(c) ==
  /\ call[c] # NoCall
  /\ Calling(c, NoCall)
  /\ missed' = missed \union call[c].about
  /\ UNCHANGED <<today, followUps, reminders, jobDone>>

NextDay ==
  /\ today + 1 \in Days
  /\ today' = today + 1
  /\ jobDone' = FALSE
  /\ missed' = {}
  /\ \A c \in Calls : call[c] = NoCall
  /\ UNCHANGED <<followUps, reminders, call>>

-----------------------------------------------------------------------------
RemindersInit ==
  /\ today = 1
  /\ followUps = [f \in FollowUps |-> NotEntered]
  /\ reminders = [f \in FollowUps |-> 0]
  /\ jobDone = FALSE
  /\ missed = {}
  /\ call = [c \in Calls |-> NoCall]

Begin(c) == EnterFollowUp(c) \/ LoadFollowUp(c) \/ BeginCheck(c)
Carry(c) ==
  \/ CompleteOrRemove(c) \/ Reschedule(c) \/ DeleteReminders(c)
  \/ ReadDue(c) \/ LookForReminder(c) \/ MakeReminder(c)

RemindersNext ==
  \/ NextDay
  \/ \E c \in Calls : Begin(c) \/ Carry(c) \/ AbandonCall(c)

RemindersSpec == RemindersInit /\ [][RemindersNext]_reminderVars

-----------------------------------------------------------------------------
RemindersTypeOK ==
  /\ today \in Days
  /\ \A f \in FollowUps : followUps[f] \in Entered \union {NotEntered}
  /\ reminders \in [FollowUps -> Nat]
  /\ missed \subseteq FollowUps
  /\ \A c \in Calls : call[c].at \in {"idle", "save", "delete", "read", "look", "make"}

\* A follow-up has at most one reminder.  Calls that overlap may each find none and each make one.
OneReminder == \A f \in FollowUps : reminders[f] <= 1

\* Once the job has run and nothing is in progress, every follow-up that is due has a
\* reminder, however rescheduling deleted and other calls made them - unless today the request
\* that entered or moved it was cut short, the database refused its reminder, or
\* completeFollowUp, which looks for no reminder, wrote it pending.
DueIsReminded ==
  jobDone /\ (\A c \in Calls : call[c] = NoCall) =>
    \A f \in FollowUps \ missed : Due(f) => reminders[f] > 0
=============================================================================
