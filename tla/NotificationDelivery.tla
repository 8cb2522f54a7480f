---------------------------- MODULE NotificationDelivery ----------------------------
(***************************************************************************)
(* Outgoing notifications: one attempt when a request asks for one         *)
(* (NotificationDispatchService.send), then the retries of a job that      *)
(* wakes every minute (NotificationRetryWorker).  Everything the two hand  *)
(* over goes through a row of notification_logs; a Sequelize instance of   *)
(* the row is what a process holds between its reads and its saves.        *)
(*                                                                         *)
(* The server may stop at any step and start again, a save may be refused  *)
(* by the database, and the WhatsApp channel may be down for any attempt.  *)
(* MaxFaults bounds the stops and refusals of a behaviour.                 *)
(***************************************************************************)
EXTENDS Naturals, FiniteSets

CONSTANTS
    None,           \* no row, no time
    Notifications,  \* what requests ask to be sent, each once
    Ticks,          \* cron ticks that can be in flight at once
    MaxFaults       \* bound on stops of the server and refused saves

ASSUME FaultsAssumption == MaxFaults \in Nat

\* RETRY_DELAYS_MINUTES has two entries.
MAX_WORKER_RETRIES == 2

VARIABLES
    rows,       \* notification_logs, by notification
    job,        \* what each process is doing: a request's send, or a tick
    batch,      \* the instances a tick has fetched and not yet handled
    isRunning,  \* the worker's in-memory flag
    faults,     \* stops and refusals so far
    attempts,   \* (history) how often the channel was tried for a notification
    delivered,  \* (history) how often the channel took it
    unrecorded, \* (history) how often a delivery could not be saved
    broken      \* (history) notifications whose process was stopped, or threw, midway

deliveryVars == <<rows, job, batch, isRunning, faults,
                  attempts, delivered, unrecorded, broken>>

Senders == Notifications \cup Ticks

Final == {"success", "exhausted"}

\* A row is due for a retry, or has no time for one.
LogRows ==
    [status : {"pending"} \cup Final, retryCount : 0 .. MAX_WORKER_RETRIES, nextRetryAt : {None}]
    \cup [status : {"failed"}, retryCount : 0 .. MAX_WORKER_RETRIES - 1, nextRetryAt : {"later", "due"}]

\* What a process holds of a row; isNew if its insert was refused.
Instances == [n : Notifications, retryCount : 0 .. MAX_WORKER_RETRIES, isNew : BOOLEAN]

ASSUME SendersAssumption ==
    /\ Notifications \cap Ticks = {}
    /\ None \notin LogRows \cup Instances \cup {"later", "due"}

\* A process that holds no instance: a request not yet begun or ended, an idle tick.
Rest(at) == [at |-> at, log |-> None, catches |-> 0]

DeliveryTypeOK ==
    /\ rows \in [Notifications -> {None} \cup LogRows]
    /\ job \in [Senders ->
           [at : {"begin", "idle", "batch", "attempt", "record", "reschedule", "end"},
            log : {None} \cup Instances, catches : 0 .. 2]]
    /\ \A t \in Ticks : batch[t] \subseteq Instances
    /\ isRunning \in BOOLEAN
    /\ faults \in 0 .. MaxFaults
    /\ broken \subseteq Notifications

DeliveryInit ==
    /\ rows = [n \in Notifications |-> None]
    /\ job = [p \in Senders |-> Rest(IF p \in Ticks THEN "idle" ELSE "begin")]
    /\ batch = [t \in Ticks |-> {}]
    /\ isRunning = FALSE
    /\ faults = 0
    /\ attempts = [n \in Notifications |-> 0]
    /\ delivered = [n \in Notifications |-> 0]
    /\ unrecorded = [n \in Notifications |-> 0]
    /\ broken = {}

-----------------------------------------------------------------------------
(* Saving an instance.                                                       *)

history == <<attempts, delivered, unrecorded>>

Fault == faults < MaxFaults /\ faults' = faults + 1

Row(status, count, at) == [status |-> status, retryCount |-> count, nextRetryAt |-> at]

\* log.save(): an instance whose row could not be created is inserted, another one
\* updates the fields that changed; retryCount changes only when the worker takes a log.
Save(log, status, at) ==
    rows' = [rows EXCEPT ![log.n] =
                Row(status, IF log.isNew THEN log.retryCount ELSE @.retryCount, at)]

\* The process goes on with its next log: a request has none, a tick has its batch.
Proceed(p) == job' = [job EXCEPT ![p] = Rest(IF p \in Ticks THEN "batch" ELSE "end")]

Goto(p, at) == job' = [job EXCEPT ![p].at = at]

-----------------------------------------------------------------------------
(* send: the log row, then one attempt.                                      *)

\* createLog: when the insert is refused the send goes on with a detached instance.
CreateLog(n) ==
    /\ job[n].at = "begin"
    /\ \E isNew \in BOOLEAN :
         /\ job' = [job EXCEPT ![n] =
                [at |-> "attempt", catches |-> 1,
                 log |-> [n |-> n, retryCount |-> 0, isNew |-> isNew]]]
         /\ IF isNew
            THEN Fault /\ UNCHANGED rows
            ELSE /\ rows' = [rows EXCEPT ![n] = Row("pending", 0, None)]
                 /\ UNCHANGED faults
    /\ UNCHANGED <<batch, isRunning, history, broken>>

\* attemptSend: executeChannel answers whether the channel took the message.
AttemptSend(p) ==
    /\ job[p].at = "attempt"
    /\ LET n == job[p].log.n IN
         /\ attempts' = [attempts EXCEPT ![n] = @ + 1]
         /\ \/ /\ delivered' = [delivered EXCEPT ![n] = @ + 1]
               /\ Goto(p, "record")
            \/ /\ UNCHANGED delivered
               /\ Goto(p, "reschedule")
    /\ UNCHANGED <<rows, batch, isRunning, faults, unrecorded, broken>>

\* The delivery is saved; a refused save is caught like a failed attempt.
RecordSuccess(p) ==
    /\ job[p].at = "record"
    /\ \/ /\ Save(job[p].log, "success", None)
          /\ Proceed(p)
          /\ UNCHANGED <<faults, unrecorded>>
       \/ /\ Fault
          /\ unrecorded' = [unrecorded EXCEPT ![job[p].log.n] = @ + 1]
          /\ job' = [job EXCEPT ![p].at = "reschedule", ![p].catches = @ - 1]
          /\ UNCHANGED rows
    /\ UNCHANGED <<batch, isRunning, attempts, delivered, broken>>

\* What is thrown out of a tick ends its batch, with the flag cleared in `finally'.
Escape(p) ==
    /\ broken' = broken \cup {job[p].log.n}
    /\ job' = [job EXCEPT ![p] = Rest(IF p \in Ticks THEN "idle" ELSE "end")]
    /\ batch' = [t \in Ticks |-> IF t = p THEN {} ELSE batch[t]]
    /\ isRunning' = (isRunning /\ p \notin Ticks)

\* (mutant) the failure is saved without a time for the retry
ScheduleRetryTimeless(p) ==
    /\ job[p].at = "reschedule"
    /\ job[p].log.retryCount < MAX_WORKER_RETRIES
    /\ Save(job[p].log, "failed", None)
    /\ Proceed(p)
    /\ UNCHANGED <<batch, isRunning, faults, broken, history>>

\* scheduleRetryOrExhaust while retries remain.  A refused save is caught and tried
\* again by the enclosing handlers (attemptSend's, and retryOne's for a tick).
ScheduleRetry(p) ==
    /\ job[p].at = "reschedule"
    /\ job[p].log.retryCount < MAX_WORKER_RETRIES
    /\ \/ /\ Save(job[p].log, "failed", "later")
          /\ Proceed(p)
          /\ UNCHANGED <<batch, isRunning, faults, broken>>
       \/ /\ Fault
          /\ UNCHANGED rows
          /\ IF job[p].catches > 0
             THEN /\ job' = [job EXCEPT ![p].catches = @ - 1]
                  /\ UNCHANGED <<batch, isRunning, broken>>
             ELSE Escape(p)
    /\ UNCHANGED history

\* markExhausted: no retry remains; a refused save is only logged.
MarkExhausted(p) ==
    /\ job[p].at = "reschedule"
    /\ job[p].log.retryCount = MAX_WORKER_RETRIES
    /\ Proceed(p)
    /\ \/ /\ Save(job[p].log, "exhausted", None)
          /\ UNCHANGED <<faults, broken>>
       \/ /\ Fault
          /\ broken' = broken \cup {job[p].log.n}
          /\ UNCHANGED rows
    /\ UNCHANGED <<batch, isRunning, history>>

-----------------------------------------------------------------------------
(* The retry worker.                                                         *)

\* (mutant) no flag against a tick that starts while the previous one runs
StartTickAnyway(t) ==
    /\ job[t].at = "idle"
    /\ batch' = [batch EXCEPT ![t] =
           {[n |-> n, retryCount |-> rows[n].retryCount, isNew |-> FALSE] :
                n \in {m \in Notifications : rows[m] # None /\ rows[m].nextRetryAt = "due"}}]
    /\ job' = [job EXCEPT ![t].at = "batch"]
    /\ UNCHANGED <<rows, isRunning, faults, history, broken>>

\* runRetryBatch: skipped while the previous tick is still running.
StartTick(t) ==
    /\ job[t].at = "idle"
    /\ ~isRunning
    /\ isRunning' = TRUE
    /\ LET due == {n \in Notifications :
                      /\ rows[n] # None
                      /\ rows[n].status = "failed"
                      /\ rows[n].retryCount < MAX_WORKER_RETRIES
                      /\ rows[n].nextRetryAt = "due"}
       IN  batch' = [batch EXCEPT ![t] =
               {[n |-> n, retryCount |-> rows[n].retryCount, isNew |-> FALSE] : n \in due}]
    /\ job' = [job EXCEPT ![t].at = "batch"]
    /\ UNCHANGED <<rows, faults, history, broken>>

\* retryOne: count the attempt and mark the row pending, then attempt.  A log that
\* cannot be marked is left for a later tick.
TakeLog(t) ==
    /\ job[t].at = "batch"
    /\ \E log \in batch[t] :
         /\ batch' = [batch EXCEPT ![t] = @ \ {log}]
         /\ \/ /\ rows' = [rows EXCEPT ![log.n] =
                              Row("pending", log.retryCount + 1, None)]
               /\ job' = [job EXCEPT ![t] =
                     [at |-> "attempt", catches |-> 2,
                      log |-> [log EXCEPT !.retryCount = @ + 1]]]
               /\ UNCHANGED faults
            \/ /\ Fault
               /\ UNCHANGED <<rows, job>>
    /\ UNCHANGED <<isRunning, history, broken>>

EndTick(t) ==
    /\ job[t].at = "batch"
    /\ batch[t] = {}
    /\ isRunning' = FALSE
    /\ job' = [job EXCEPT ![t] = Rest("idle")]
    /\ UNCHANGED <<rows, batch, faults, history, broken>>

\* Minutes pass until the time of a retry is reached.
RetryFallsDue(n) ==
    /\ rows[n] # None
    /\ rows[n].nextRetryAt = "later"
    /\ rows' = [rows EXCEPT ![n].nextRetryAt = "due"]
    /\ UNCHANGED <<job, batch, isRunning, faults, history, broken>>

\* The server stops and starts again: what was in memory is gone, the rows stay.
Restart ==
    /\ Fault
    /\ \E p \in Senders : job[p].at \notin {"begin", "idle", "end"}
    /\ broken' = broken \cup {job[p].log.n : p \in {q \in Senders : job[q].log # None}}
    /\ job' = [p \in Senders |->
                  IF p \in Ticks THEN Rest("idle")
                  ELSE IF job[p].at = "begin" THEN job[p] ELSE Rest("end")]
    /\ batch' = [t \in Ticks |-> {}]
    /\ isRunning' = FALSE
    /\ UNCHANGED <<rows, history>>

Step(p) ==
    \/ AttemptSend(p)
    \/ RecordSuccess(p)
    \/ ScheduleRetry(p)
    \/ MarkExhausted(p)

TickStep(t) == StartTick(t) \/ TakeLog(t) \/ EndTick(t) \/ Step(t)

DeliveryNext ==
    \/ \E n \in Notifications : CreateLog(n) \/ RetryFallsDue(n)
    \/ \E p \in Senders : Step(p)
    \/ \E t \in Ticks : StartTick(t) \/ TakeLog(t) \/ EndTick(t)
    \/ Restart

\* While the server runs its promises go on, the cron wakes every minute and time
\* passes; nothing is assumed of Restart, of refusals or of the channel.
DeliveryFairness ==
    /\ WF_deliveryVars(\E n \in Notifications : Step(n))
    /\ WF_deliveryVars(\E n \in Notifications : RetryFallsDue(n))
    /\ WF_deliveryVars(\E t \in Ticks : TickStep(t))

DeliverySpec == DeliveryInit /\ [][DeliveryNext]_deliveryVars

FairDeliverySpec == DeliverySpec /\ DeliveryFairness

-----------------------------------------------------------------------------
(* Properties.                                                               *)

\* The channel takes a message twice only when the success of the first time could
\* not be saved: neither a restart between the send and the save, nor the next
\* tick, sends it again.
DeliveredOnce == \A n \in Notifications : delivered[n] <= 1 + unrecorded[n]

\* However the server is stopped and whatever saves are refused, a notification is
\* attempted at most once by its request and MAX_WORKER_RETRIES times by the worker:
\* the count is saved before the attempt.
AttemptsBounded == \A n \in Notifications : attempts[n] <= 1 + MAX_WORKER_RETRIES

Settled(n) == rows[n] # None /\ rows[n].status \in Final

\* A notification whose request has begun ends as success or exhausted, unless the
\* server stopped, or an error escaped, while a process held it.  Both are for good.
DeliverySettles ==
    []<>(\A n \in Notifications : job[n].at # "begin" => Settled(n) \/ n \in broken)

\* "If the server restarts mid-retry [...] the worker picks it up again": a row that the
\* worker has marked pending is settled.
NotificationsKept ==
    \A n \in Notifications :
        (rows[n] # None /\ rows[n].status = "pending" /\ rows[n].retryCount > 0) ~> Settled(n)
=============================================================================
