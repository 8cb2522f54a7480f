----------------------------- MODULE ChatConversation -----------------------------
(***************************************************************************)
(* One conversation of the chat: messages sent by its members, the unread  *)
(* counter each member row carries, and messages scheduled for later,      *)
(* which a timer of the server posts.  Polls, replies in a thread and      *)
(* system messages are written without a counter.                          *)
(*                                                                         *)
(* A send is one transaction: it updates the sender's member row, then     *)
(* increments the rows of all others in the order PostgreSQL scans them,   *)
(* each row locked until the commit.  Two sends can wait for each other;   *)
(* PostgreSQL rolls one of them back.  Marking as read, scheduling,        *)
(* cancelling and the timer's bookkeeping run in autocommit.               *)
(*                                                                         *)
(* Left out: what members hide, drafts, mentions, the counters of mentions *)
(* and threads, and what PolicyService decides of each user: here a set of *)
(* users is barred from sending (frozen conversation, announcements only,  *)
(* no access, muted).  Of other conversations remains whether the messages *)
(* due there may fill a batch of the timer.                                *)
(***************************************************************************)
EXTENDS Naturals, Sequences, FiniteSets

CONSTANTS
    Nobody,       \* no row, no process, no message
    Users,        \* the members of the conversation
    Privileged,   \* those whose role may post while the conversation is locked
    Requests,     \* requests, each handled once
    Polls,        \* runs of the timer that can be in flight at once
    Scheduled,    \* scheduled messages, each created at most once
    BatchLimit,   \* how many due messages a run of the timer reads
    MaxRestarts   \* bound on restarts of the server

ASSUME MembersAssumption == Privileged \subseteq Users /\ IsFiniteSet(Users)
ASSUME RestartsAssumption == MaxRestarts \in Nat
ASSUME BatchAssumption == BatchLimit \in Nat \ {0}
ASSUME NamesAssumption ==
    /\ Requests \cap Polls = {}
    /\ Nobody \notin Users \cup Requests \cup Polls \cup Scheduled

VARIABLES
    unread,       \* unreadMessagesCount of the member rows, by user
    lock,         \* who holds the row lock of a member row
    isLocked,     \* conversations.isLocked
    barred,       \* users whose messages are refused, locked or not
    isGone,         \* conversations.deletedAt is set
    crowded,      \* may the due messages of other conversations fill a batch?
    scheduled,    \* scheduled_messages
    proc,         \* requests and timer runs
    restarts,     \* restarts so far
    posted,       \* (history) how often a scheduled message was posted
    excused,      \* (history) those a run read while another held them, or whose
                  \*           mark was lost when the server stopped
    arrived,      \* (history) messages of others committed, by member
    uncounted,    \* (history) those written without a counter since the last markRead saved
    loaded,       \* (history) arrivals when the last markRead loaded the member row
    cleared       \* (history) arrivals when the last markRead saved it

chatVars == <<unread, lock, isLocked, barred, isGone, crowded, scheduled, proc, restarts,
              posted, excused, arrived, uncounted, loaded, cleared>>

conditions == <<barred, isGone, crowded>>
readHistory == <<arrived, uncounted, loaded, cleared>>
postHistory == <<posted, excused>>

Processes == Requests \cup Polls

\* What a process carries: its user, the scheduled message it handles, the member
\* rows it has still to increment, the counter it loaded (with the arrivals then), and
\* the instances of due messages a timer run has read.
Idle(at) == [at |-> at, user |-> Nobody, item |-> Nobody,
             todo |-> <<>>, seen |-> [unread |-> 0, arrived |-> 0], batch |-> {}]

ChatTypeOK ==
    /\ unread \in [Users -> Nat]
    /\ lock \in [Users -> Processes \cup {Nobody}]
    /\ isLocked \in BOOLEAN /\ barred \subseteq Users /\ isGone \in BOOLEAN /\ crowded \in BOOLEAN
    /\ scheduled \in [Scheduled -> {Nobody} \cup
           [sender : Users, due : BOOLEAN, isSent : BOOLEAN]]
    /\ \A p \in Processes :
          /\ proc[p].at \in {"begin", "check", "own", "others", "post",
                             "save", "destroy", "idle", "next", "mark", "end"}
          /\ proc[p].user \in Users \cup {Nobody}
          /\ proc[p].item \in Scheduled \cup {Nobody}
          /\ proc[p].batch \subseteq [item : Scheduled, sender : Users]
    /\ restarts \in 0 .. MaxRestarts
    /\ excused \subseteq Scheduled

ChatInit ==
    /\ unread = [u \in Users |-> 0]
    /\ lock = [u \in Users |-> Nobody]
    /\ isLocked = FALSE /\ barred = {} /\ isGone = FALSE /\ crowded = FALSE
    /\ scheduled = [s \in Scheduled |-> Nobody]
    /\ proc = [p \in Processes |-> Idle(IF p \in Polls THEN "idle" ELSE "begin")]
    /\ restarts = 0
    /\ posted = [s \in Scheduled |-> 0]
    /\ excused = {}
    /\ arrived = [u \in Users |-> 0]
    /\ uncounted = arrived
    /\ loaded = arrived
    /\ cleared = arrived

-----------------------------------------------------------------------------
(* Row locks and deadlocks.                                                  *)

Orders(S) == {q \in [1 .. Cardinality(S) -> S] : \A i, j \in DOMAIN q : i # j => q[i] # q[j]}

\* The row a sending transaction wants next, if it wants one.
Wants(p) ==
    CASE proc[p].at = "own" -> proc[p].user
      [] proc[p].at = "others" /\ proc[p].todo # <<>> -> Head(proc[p].todo)
      [] OTHER -> Nobody

Blocks(q, p) == Wants(p) # Nobody /\ lock[Wants(p)] = q

\* The transactions of a cycle of waits.
Deadlocked(p) ==
    \E S \in SUBSET Processes :
        /\ p \in S
        /\ \A q \in S : (\E r \in S : Blocks(r, q)) /\ (\E r \in S : Blocks(q, r))

Released(p) == [u \in Users |-> IF lock[u] = p THEN Nobody ELSE lock[u]]

\* The request ends; the timer goes on with the next message of its batch.
Finish(p) ==
    proc' = [proc EXCEPT ![p] =
                IF p \in Polls THEN [Idle("next") EXCEPT !.batch = proc[p].batch]
                ELSE Idle("end")]

-----------------------------------------------------------------------------
(* MessageService.send.                                                      *)

BeginSend(r) ==
    /\ proc[r].at = "begin"
    /\ \E u \in Users : proc' = [proc EXCEPT ![r].at = "check", ![r].user = u]
    /\ UNCHANGED <<unread, lock, isLocked, conditions, scheduled,
                   restarts, postHistory, readHistory>>

\* The conversation, canSend and isMuted, read before the transaction.
Refused(u) == isGone \/ u \in barred \/ (isLocked /\ u \notin Privileged)

CanSend(p) ==
    /\ proc[p].at = "check"
    /\ IF Refused(proc[p].user)
       THEN Finish(p)
       ELSE proc' = [proc EXCEPT ![p].at = "own"]
    /\ UNCHANGED <<unread, lock, isLocked, conditions, scheduled,
                   restarts, postHistory, readHistory>>

\* The transaction inserts the message, which nobody sees before the commit, and
\* saves the sender's member row: they have read up to it.
LockOwnRow(p) ==
    /\ proc[p].at = "own"
    /\ lock[proc[p].user] = Nobody
    /\ lock' = [lock EXCEPT ![proc[p].user] = p]
    /\ \E order \in Orders(Users \ {proc[p].user}) :
          proc' = [proc EXCEPT ![p].at = "others", ![p].todo = order]
    /\ UNCHANGED <<unread, isLocked, conditions, scheduled,
                   restarts, postHistory, readHistory>>

\* incrementCounters: one UPDATE over the rows of the other members.
LockOtherRow(p) ==
    /\ proc[p].at = "others"
    /\ proc[p].todo # <<>>
    /\ lock[Head(proc[p].todo)] = Nobody
    /\ lock' = [lock EXCEPT ![Head(proc[p].todo)] = p]
    /\ proc' = [proc EXCEPT ![p].todo = Tail(@)]
    /\ UNCHANGED <<unread, isLocked, conditions, scheduled,
                   restarts, postHistory, readHistory>>

\* (mutant) the sender's own row is incremented as well
IncrementedAll(p) == [u \in Users |-> unread[u] + 1]

\* What others wrote, for each member
FromOthers(sender, count) == [u \in Users |-> IF u = sender THEN count[u] ELSE count[u] + 1]

\* The counters a send writes, as they are when it commits.
Incremented(p) == FromOthers(proc[p].user, unread)

CommitSend(p) ==
    /\ proc[p].at = "others"
    /\ proc[p].todo = <<>>
    /\ unread' = Incremented(p)
    /\ lock' = Released(p)
    /\ arrived' = FromOthers(proc[p].user, arrived)
    /\ IF p \in Polls
       THEN /\ proc' = [proc EXCEPT ![p].at = "mark"]
            /\ posted' = [posted EXCEPT ![proc[p].item] = @ + 1]
       ELSE Finish(p) /\ UNCHANGED posted
    /\ UNCHANGED <<isLocked, conditions, scheduled, restarts, excused, uncounted, loaded, cleared>>

\* PostgreSQL rolls a deadlocked transaction back; the error reaches the caller.
RollBackSend(p) ==
    /\ Deadlocked(p)
    /\ lock' = Released(p)
    /\ Finish(p)
    /\ UNCHANGED <<unread, isLocked, conditions, scheduled,
                   restarts, postHistory, readHistory>>

-----------------------------------------------------------------------------
(* Messages without a counter: PollService.createPoll, ThreadService.replyInThread, and the   *)
(* system messages of MemberService and ConversationAdminService, which are nobody's.        *)

BeginPost(r) ==
    /\ proc[r].at = "begin"
    /\ IF isGone \/ isLocked THEN Finish(r)
       ELSE \E u \in Users : proc' = [proc EXCEPT ![r].at = "post", ![r].user = u]
    /\ UNCHANGED <<unread, lock, isLocked, conditions, scheduled,
                   restarts, postHistory, readHistory>>

BeginSystemMessage(r) ==
    /\ proc[r].at = "begin"
    /\ proc' = [proc EXCEPT ![r].at = "post"]
    /\ UNCHANGED <<unread, lock, isLocked, conditions, scheduled,
                   restarts, postHistory, readHistory>>

CommitPost(r) ==
    /\ proc[r].at = "post"
    /\ arrived' = FromOthers(proc[r].user, arrived)
    /\ uncounted' = FromOthers(proc[r].user, uncounted)
    /\ Finish(r)
    /\ UNCHANGED <<unread, lock, isLocked, conditions, scheduled, restarts, postHistory,
                   loaded, cleared>>

-----------------------------------------------------------------------------
(* MessageService.markRead.                                                  *)

\* The member row is loaded.
LoadMember(r) ==
    /\ proc[r].at = "begin"
    /\ \E u \in Users :
          proc' = [proc EXCEPT ![r].at = "save", ![r].user = u,
                               ![r].seen = [unread |-> unread[u], arrived |-> arrived[u]]]
    /\ UNCHANGED <<unread, lock, isLocked, conditions, scheduled,
                   restarts, postHistory, readHistory>>

\* save() writes the fields that differ from what was loaded: a counter that was 0
\* is not written again.
Zeroed(r) ==
    IF proc[r].seen.unread = 0 THEN unread ELSE [unread EXCEPT ![proc[r].user] = 0]

SaveRead(r) ==
    /\ proc[r].at = "save"
    /\ lock[proc[r].user] = Nobody
    /\ unread' = Zeroed(r)
    /\ LET u == proc[r].user  at == proc[r].seen.arrived IN
         /\ loaded' = [loaded EXCEPT ![u] = IF at > @ THEN at ELSE @]
         /\ cleared' = [cleared EXCEPT ![u] = arrived[u]]
         /\ uncounted' = [uncounted EXCEPT ![u] = 0]
    /\ Finish(r)
    /\ UNCHANGED <<lock, isLocked, conditions, scheduled, restarts, postHistory, arrived>>

-----------------------------------------------------------------------------
(* What a conversation refuses, and the scheduled messages.                  *)

SetLock ==
    /\ isLocked' = ~isLocked
    /\ UNCHANGED <<unread, lock, conditions, scheduled, proc,
                   restarts, postHistory, readHistory>>

\* Members are muted, lose access or get it, the conversation is frozen or for announcements.
SetBarred ==
    /\ barred' \in SUBSET Users
    /\ UNCHANGED <<unread, lock, isLocked, isGone, crowded, scheduled, proc,
                   restarts, postHistory, readHistory>>

\* ConversationService.remove; the rows stay.
RemoveConversation ==
    /\ isGone' = TRUE
    /\ UNCHANGED <<unread, lock, isLocked, barred, crowded, scheduled, proc,
                   restarts, postHistory, readHistory>>

\* Messages of other conversations fall due, or are gone.
OthersFallDue ==
    /\ crowded' = ~crowded
    /\ UNCHANGED <<unread, lock, isLocked, barred, isGone, scheduled, proc,
                   restarts, postHistory, readHistory>>

\* scheduleMessage: refused while the conversation is locked, whoever asks.
ScheduleMessage(r) ==
    /\ proc[r].at = "begin"
    /\ \E s \in Scheduled, u \in Users :
         /\ scheduled[s] = Nobody /\ posted[s] = 0
         /\ \A q \in Processes : proc[q].item # s
         /\ scheduled' = IF isGone \/ isLocked THEN scheduled
                         ELSE [scheduled EXCEPT ![s] =
                                  [sender |-> u, due |-> FALSE, isSent |-> FALSE]]
    /\ Finish(r)
    /\ UNCHANGED <<unread, lock, isLocked, conditions, restarts, postHistory, readHistory>>

FallDue(s) ==
    /\ scheduled[s] # Nobody /\ ~scheduled[s].due
    /\ scheduled' = [scheduled EXCEPT ![s].due = TRUE]
    /\ UNCHANGED <<unread, lock, isLocked, conditions, proc,
                   restarts, postHistory, readHistory>>

\* cancelScheduled: refused once isSent is read, otherwise the row is destroyed.
BeginCancel(r) ==
    /\ proc[r].at = "begin"
    /\ \E s \in Scheduled :
         /\ scheduled[s] # Nobody
         /\ IF scheduled[s].isSent THEN Finish(r)
            ELSE proc' = [proc EXCEPT ![r].at = "destroy", ![r].item = s]
    /\ UNCHANGED <<unread, lock, isLocked, conditions, scheduled,
                   restarts, postHistory, readHistory>>

DestroyScheduled(r) ==
    /\ proc[r].at = "destroy"
    /\ scheduled' = [scheduled EXCEPT ![proc[r].item] = Nobody]
    /\ Finish(r)
    /\ UNCHANGED <<unread, lock, isLocked, conditions, restarts, postHistory, readHistory>>

\* The messages a timer run holds: those it has read and not finished with.
Holds(q) == {m.item : m \in proc[q].batch} \cup ({proc[q].item} \ {Nobody})

\* (mutant) isSent is not looked at
DueMessagesSent == {s \in Scheduled : scheduled[s] # Nobody /\ scheduled[s].due}

DueMessages == {s \in Scheduled :
                   /\ scheduled[s] # Nobody
                   /\ scheduled[s].due
                   /\ ~scheduled[s].isSent}

RowsOf(S) == {[item |-> s, sender |-> scheduled[s].sender] : s \in S}

\* The batches of a query without an order that ends at its limit.
DueBatches == {S \in SUBSET DueMessages :
               /\ Cardinality(S) <= BatchLimit
               /\ S = DueMessages \/ Cardinality(S) = BatchLimit \/ crowded}

\* dispatchDueMessages: every 15 seconds, whether or not the run before has ended.
StartPoll(q) ==
    /\ proc[q].at = "idle"
    /\ \E S \in DueBatches :
         /\ proc' = [proc EXCEPT ![q].at = "next", ![q].batch = RowsOf(S)]
         /\ excused' = excused \cup (S \cap UNION {Holds(o) : o \in Polls})
    /\ UNCHANGED <<unread, lock, isLocked, conditions, scheduled,
                   restarts, posted, readHistory>>

\* A destroyed row is not saved.
MarkedSent(s) ==
    IF scheduled[s] = Nobody THEN scheduled ELSE [scheduled EXCEPT ![s].isSent = TRUE]

\* (mutant) isSent is saved before the send
NextDueMarked(q) ==
    /\ proc[q].at = "next" /\ ~isGone
    /\ \E m \in proc[q].batch :
         /\ proc' = [proc EXCEPT ![q].at = "check", ![q].user = m.sender,
                               ![q].item = m.item, ![q].batch = @ \ {m}]
         /\ scheduled' = MarkedSent(m.item)
    /\ UNCHANGED <<unread, lock, isLocked, conditions, restarts, postHistory, readHistory>>

\* Whatever happened to the row since, the instance is sent.
NextDue(q) ==
    /\ proc[q].at = "next" /\ ~isGone
    /\ \E m \in proc[q].batch :
          proc' = [proc EXCEPT ![q].at = "check", ![q].user = m.sender,
                               ![q].item = m.item, ![q].batch = @ \ {m}]
    /\ UNCHANGED <<unread, lock, isLocked, conditions, scheduled,
                   restarts, postHistory, readHistory>>

\* A conversation that is gone: isSent is saved without a send.
DropDue(q) ==
    /\ proc[q].at = "next" /\ isGone
    /\ \E m \in proc[q].batch :
         /\ proc' = [proc EXCEPT ![q].batch = @ \ {m}]
         /\ scheduled' = MarkedSent(m.item)
    /\ UNCHANGED <<unread, lock, isLocked, conditions, restarts, postHistory, readHistory>>

\* isSent is saved after the send has committed.
MarkSent(q) ==
    /\ proc[q].at = "mark"
    /\ scheduled' = MarkedSent(proc[q].item)
    /\ Finish(q)
    /\ UNCHANGED <<unread, lock, isLocked, conditions, restarts, postHistory, readHistory>>

EndPoll(q) ==
    /\ proc[q].at = "next"
    /\ proc[q].batch = {}
    /\ proc' = [proc EXCEPT ![q] = Idle("idle")]
    /\ UNCHANGED <<unread, lock, isLocked, conditions, scheduled,
                   restarts, postHistory, readHistory>>

\* The server stops and starts again: open transactions are rolled back.
RestartServer ==
    /\ restarts < MaxRestarts
    /\ restarts' = restarts + 1
    /\ lock' = [u \in Users |-> Nobody]
    /\ proc' = [p \in Processes |->
                   IF p \in Polls THEN Idle("idle")
                   ELSE IF proc[p].at = "begin" THEN proc[p] ELSE Idle("end")]
    /\ excused' = excused \cup
           {proc[q].item : q \in {o \in Polls : proc[o].at = "mark"}}
    /\ UNCHANGED <<unread, isLocked, conditions, scheduled, posted, readHistory>>

-----------------------------------------------------------------------------

SendStep(p) ==
    \/ CanSend(p)
    \/ LockOwnRow(p)
    \/ LockOtherRow(p)
    \/ CommitSend(p)
    \/ RollBackSend(p)

Arrive(r) == \/ BeginSend(r) \/ LoadMember(r) \/ BeginPost(r) \/ BeginSystemMessage(r)
             \/ ScheduleMessage(r) \/ BeginCancel(r)
RequestStep(r) == SendStep(r) \/ SaveRead(r) \/ CommitPost(r) \/ DestroyScheduled(r)
PollStep(q) == StartPoll(q) \/ NextDue(q) \/ DropDue(q) \/ SendStep(q) \/ MarkSent(q) \/ EndPoll(q)

ChatNext ==
    \/ \E r \in Requests : Arrive(r) \/ RequestStep(r)
    \/ \E q \in Polls : PollStep(q)
    \/ \E s \in Scheduled : FallDue(s)
    \/ SetLock \/ SetBarred \/ RemoveConversation \/ OthersFallDue
    \/ RestartServer

ChatSpec == ChatInit /\ [][ChatNext]_chatVars

\* The server runs what it has begun, its timer fires, and time passes.
ChatFairness ==
    /\ WF_chatVars(\E r \in Requests : RequestStep(r))
    /\ \A q \in Polls : WF_chatVars(PollStep(q))
    /\ WF_chatVars(\E s \in Scheduled : FallDue(s))

-----------------------------------------------------------------------------
(* Properties.                                                               *)

\* A member's counter of unread messages counts every message of the others that was
\* committed after their last markRead saved, except the polls, replies and system messages
\* among them, and none committed before it loaded the row: rolled back sends leave nothing
\* and concurrent ones count each once.
UnreadCounted ==
    \A u \in Users : /\ arrived[u] <= unread[u] + uncounted[u] + cleared[u]
                     /\ unread[u] + loaded[u] <= arrived[u]

\* A scheduled message is posted again only when a second run of the timer read it
\* while another held it, or the server stopped between the post and the mark.
ScheduledOnce == \A s \in Scheduled \ excused : posted[s] <= 1

\* More is due than the timer reads at once.
Overfull == crowded \/ Cardinality(DueMessages) > BatchLimit

\* A due message is posted, although its send may fail in a deadlock, unless it is cancelled,
\* its sender is refused meanwhile, or so much is due that others take its place in the batch.
ScheduledPosted ==
    \A s \in Scheduled :
        (s \in DueMessages) ~>
            (posted[s] > 0 \/ scheduled[s] = Nobody \/ Refused(scheduled[s].sender) \/ Overfull)
=============================================================================
