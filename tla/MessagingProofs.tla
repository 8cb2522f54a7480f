----------------------------- MODULE MessagingProofs -----------------------------
(***************************************************************************)
(* Theorems about a chat conversation, what it keeps and who its members   *)
(* are, the notification log, reminders, the sessions people log in with,  *)
(* the enquiries of a partner and the gateway, each for any number of      *)
(* users, messages, requests, timer runs and restarts, and about the       *)
(* instance that puts them side by side.                                   *)
(***************************************************************************)
EXTENDS MCMessaging, FiniteSetTheorems, TLAPS

-----------------------------------------------------------------------------
(* A conversation: the inductive invariant *)

\* What a process carries
Carried ==
    [at : {"begin", "check", "own", "others", "post", "save", "destroy", "idle", "next", "mark", "end"},
     user : Users \cup {Nobody}, item : Scheduled \cup {Nobody}, todo : Seq(Users),
     seen : [unread : Nat, arrived : Nat], batch : SUBSET [item : Scheduled, sender : Users]]

Postings == [sender : Users, due : BOOLEAN, isSent : BOOLEAN]

ChatTyped ==
    /\ unread \in [Users -> Nat] /\ arrived \in [Users -> Nat]
    /\ uncounted \in [Users -> Nat] /\ loaded \in [Users -> Nat] /\ cleared \in [Users -> Nat]
    /\ lock \in [Users -> Processes \cup {Nobody}]
    /\ isLocked \in BOOLEAN /\ barred \subseteq Users /\ isGone \in BOOLEAN /\ crowded \in BOOLEAN
    /\ scheduled \in [Scheduled -> {Nobody} \cup Postings]
    /\ proc \in [Processes -> Carried]
    /\ restarts \in 0 .. MaxRestarts
    /\ posted \in [Scheduled -> Nat]
    /\ excused \subseteq Scheduled

\* Whoever reads or writes a member row has a user; a timer run that sends has a message,
\* and one that has ended holds nothing.
At(p) ==
    /\ proc[p].at \in {"check", "own", "others", "save", "mark"} => proc[p].user \in Users
    /\ p \in Polls =>
         /\ proc[p].at \in {"idle", "next", "check", "own", "others", "mark"}
         /\ proc[p].at \in {"idle", "next"} <=> proc[p].item = Nobody
         /\ proc[p].at = "idle" => proc[p].batch = {}

AllAt == \A p \in Processes : At(p)

\* What markRead loaded is not ahead of the row; if the counter was 0 then, only what has
\* arrived since is in it.
Loads ==
    \A p \in Processes :
        proc[p].at = "save" =>
            LET u == proc[p].user  seen == proc[p].seen
            IN  /\ seen.arrived <= arrived[u]
                /\ seen.unread = 0 => unread[u] + seen.arrived <= arrived[u]

\* Each instance of a batch is of another message.
Apart ==
    \A q \in Polls :
        /\ \A m, n \in proc[q].batch : m.item = n.item => m = n
        /\ \A m \in proc[q].batch : m.item # proc[q].item

Marks(q, s) == proc[q].at = "mark" /\ proc[q].item = s

\* A message is held by one run of the timer; once it is posted, only by the run that
\* will mark it, and until it is marked there is that run.
Once(s) ==
    /\ \A p, q \in Polls : s \in Holds(p) /\ s \in Holds(q) => p = q
    /\ posted[s] <= 1
    /\ posted[s] = 1 => \A q \in Polls : s \in Holds(q) => Marks(q, s)
    /\ posted[s] = 1 /\ scheduled[s] # Nobody /\ ~scheduled[s].isSent =>
           \E q \in Polls : Marks(q, s)

AllOnce == \A s \in Scheduled \ excused : Once(s)

ChatInv == ChatTyped /\ AllAt /\ UnreadCounted /\ Loads /\ Apart /\ AllOnce

-----------------------------------------------------------------------------
(* Steps of a process *)

\* A process at rest
LEMMA IdleCarried ==
  ASSUME NEW at \in {"begin", "idle", "next", "end"}
  PROVE  /\ Idle(at) \in Carried
         /\ Idle(at).at = at /\ Idle(at).item = Nobody /\ Idle(at).batch = {} /\ Idle(at).user = Nobody
<1>1. <<>> \in Seq(Users)
  OBVIOUS
<1> QED
  BY <1>1 DEF Idle, Carried

\* Only this process moves.
Alone(p) == proc' \in [Processes -> Carried] /\ \A q \in Processes \ {p} : proc'[q] = proc[q]

\* What is left of a process that has finished
Rested(p) ==
    /\ Alone(p)
    /\ proc'[p].item = Nobody
    /\ IF p \in Polls THEN proc'[p].at = "next" /\ proc'[p].batch = proc[p].batch
       ELSE proc'[p].at = "end" /\ proc'[p].batch = {}

\* A process that finishes keeps only its batch.
LEMMA Finishes ==
  ASSUME ChatTyped, NEW p \in Processes, Finish(p)
  PROVE  Rested(p)
<1>1. Idle("next") \in Carried /\ Idle("end") \in Carried
  BY IdleCarried
<1>2. [Idle("next") EXCEPT !.batch = proc[p].batch] \in Carried
  BY <1>1 DEF Carried, ChatTyped
<1>3. /\ proc' \in [Processes -> Carried]
      /\ \A q \in Processes \ {p} : proc'[q] = proc[q]
      /\ proc'[p] = IF p \in Polls THEN [Idle("next") EXCEPT !.batch = proc[p].batch] ELSE Idle("end")
  BY <1>1, <1>2 DEF Finish, ChatTyped
<1>4. CASE p \in Polls
  <2>1. proc'[p] = [Idle("next") EXCEPT !.batch = proc[p].batch]
    BY <1>3, <1>4
  <2>2. proc'[p].item = Nobody /\ proc'[p].at = "next" /\ proc'[p].batch = proc[p].batch
    BY <2>1 DEF Idle
  <2> QED
    BY <1>3, <1>4, <2>2 DEF Rested, Alone
<1>5. CASE p \notin Polls
  <2>1. proc'[p] = Idle("end")
    BY <1>3, <1>5
  <2>2. proc'[p].item = Nobody /\ proc'[p].at = "end" /\ proc'[p].batch = {}
    BY <2>1 DEF Idle
  <2> QED
    BY <1>3, <1>5, <2>2 DEF Rested, Alone
<1> QED
  BY <1>4, <1>5

\* A process that is at another place, with its data or new ones
LEMMA Moves ==
  ASSUME ChatTyped, NEW p \in Processes, NEW c \in Carried,
         proc' = [proc EXCEPT ![p] = c]
  PROVE  Alone(p) /\ proc'[p] = c
BY DEF ChatTyped, Alone

\* The counters stand while no row of a member is saved or loaded.
LEMMA CountsStand ==
  ASSUME ChatInv, UNCHANGED <<unread, arrived, uncounted, loaded, cleared>>, NEW p \in Processes,
         Alone(p), proc'[p].at # "save"
  PROVE  UnreadCounted' /\ Loads'
<1>1. \A q \in Processes : proc'[q].at = "save" => proc'[q] = proc[q]
  BY DEF Alone
<1> QED
  BY <1>1 DEF ChatInv, UnreadCounted, Loads

\* The messages of the timer stand while no run of it moves and no message is changed.
LEMMA TimerStands ==
  ASSUME ChatInv, UNCHANGED <<posted, excused>>, \A q \in Polls : proc'[q] = proc[q],
         \A s \in Scheduled :
            \/ scheduled'[s] = Nobody
            \/ posted[s] = 0
            \/ scheduled[s] # Nobody /\ scheduled'[s].isSent = scheduled[s].isSent
            \/ scheduled'[s] = scheduled[s]
  PROVE  Apart' /\ AllOnce'
<1>1. \A q \in Polls : Holds(q)' = Holds(q) /\ \A s \in Scheduled : Marks(q, s)' <=> Marks(q, s)
  BY DEF Holds, Marks
<1>2. Apart'
  BY DEF ChatInv, Apart
<1>3. SUFFICES ASSUME NEW s \in Scheduled \ excused
               PROVE  Once(s)'
  BY <1>2 DEF AllOnce
<1>4. Once(s)
  BY DEF ChatInv, AllOnce
<1>5. posted[s] \in Nat
  BY DEF ChatInv, ChatTyped
<1> QED
  BY <1>1, <1>4, <1>5 DEF Once
-----------------------------------------------------------------------------
(* Every action keeps the invariant *)

\* The control of the others stands; what remains is that of the process that moves.
LEMMA AtAll ==
  ASSUME ChatInv, NEW p \in Processes, Alone(p), At(p)'
  PROVE  AllAt'
BY DEF ChatInv, AllAt, At, Alone

\* A request that moves to a place, or ends, leaves the timer alone.
LEMMA RequestMoves ==
  ASSUME ChatInv, NEW r \in Requests, Alone(r), At(r)', proc'[r].at # "save",
         UNCHANGED <<unread, lock, isLocked, conditions, scheduled, restarts, postHistory, readHistory>>
  PROVE  ChatInv'
<1>1. r \in Processes /\ \A q \in Polls : proc'[q] = proc[q]
  BY NamesAssumption DEF Processes, Alone
<1>2. UnreadCounted' /\ Loads'
  BY <1>1, CountsStand DEF readHistory
<1>3. Apart' /\ AllOnce'
  BY <1>1, TimerStands DEF postHistory
<1>4. ChatTyped'
  BY DEF conditions, ChatInv, ChatTyped, Alone, postHistory, readHistory
<1> QED
  BY <1>1, <1>2, <1>3, <1>4, AtAll DEF ChatInv

\* A request that has finished
LEMMA RequestRests ==
  ASSUME ChatInv, NEW r \in Requests, Finish(r)
  PROVE  /\ r \in Processes /\ Alone(r) /\ At(r)' /\ proc'[r].at # "save"
         /\ \A q \in Polls : proc'[q] = proc[q]
<1>1. r \in Processes /\ r \notin Polls
  BY NamesAssumption DEF Processes
<1>2. Rested(r)
  BY <1>1, Finishes DEF ChatInv
<1> QED
  BY <1>1, <1>2 DEF Rested, At, Alone, Processes

\* send: the request begins.
LEMMA BeginSendInv ==
  ASSUME ChatInv, NEW r \in Requests, BeginSend(r)
  PROVE  ChatInv'
<1>1. PICK u \in Users : proc' = [proc EXCEPT ![r].at = "check", ![r].user = u]
  BY DEF BeginSend
<1> DEFINE c == [proc[r] EXCEPT !.at = "check", !.user = u]
<1>2. r \in Processes /\ proc[r] \in Carried
  BY DEF Processes, ChatInv, ChatTyped
<1>3. c \in Carried /\ c.at = "check" /\ c.user = u /\ c.item = proc[r].item
  BY <1>2 DEF Carried
<1>4. Alone(r) /\ proc'[r] = c
  BY <1>1, <1>2, <1>3 DEF ChatInv, ChatTyped, Alone
<1>5. At(r)'
  BY <1>3, <1>4, NamesAssumption DEF At
<1> QED
  BY <1>3, <1>4, <1>5, RequestMoves DEF BeginSend

\* Marking as read begins: what the row says is not ahead of itself.
LEMMA LoadMemberInv ==
  ASSUME ChatInv, NEW r \in Requests, LoadMember(r)
  PROVE  ChatInv'
<1>1. PICK u \in Users :
        proc' = [proc EXCEPT ![r].at = "save", ![r].user = u,
                             ![r].seen = [unread |-> unread[u], arrived |-> arrived[u]]]
  BY DEF LoadMember
<1> DEFINE c == [proc[r] EXCEPT !.at = "save", !.user = u,
                                !.seen = [unread |-> unread[u], arrived |-> arrived[u]]]
<1>2. r \in Processes /\ proc[r] \in Carried /\ unread[u] \in Nat /\ arrived[u] \in Nat
  BY DEF Processes, ChatInv, ChatTyped
<1>3. c \in Carried /\ c.at = "save" /\ c.user = u /\ c.seen.arrived = arrived[u] /\ c.seen.unread = unread[u]
  BY <1>2 DEF Carried
<1>4. Alone(r) /\ proc'[r] = c
  BY <1>1, <1>2, <1>3 DEF ChatInv, ChatTyped, Alone
<1>5. At(r)' /\ \A q \in Polls : proc'[q] = proc[q]
  BY <1>3, <1>4, NamesAssumption DEF At, Alone, Processes
<1>6. Apart' /\ AllOnce'
  BY <1>5, TimerStands DEF LoadMember, postHistory
<1>7. Loads' /\ UnreadCounted'
  <2>1. unread' = unread /\ arrived' = arrived /\ UNCHANGED <<uncounted, loaded, cleared>>
    BY DEF LoadMember, readHistory
  <2>2. proc'[r].user = u /\ proc'[r].seen.arrived = arrived[u] /\ proc'[r].seen.unread = unread[u]
    BY <1>3, <1>4
  <2>3. \A p \in Processes \ {r} : proc'[p] = proc[p]
    BY <1>4 DEF Alone
  <2>4. arrived[u] <= arrived[u] /\ (unread[u] = 0 => unread[u] + arrived[u] <= arrived[u])
    BY <1>2
  <2>5. Loads'
    BY <2>1, <2>2, <2>3, <2>4 DEF ChatInv, Loads
  <2> QED
    BY <2>1, <2>5 DEF ChatInv, UnreadCounted
<1>8. ChatTyped'
  BY <1>4 DEF conditions, ChatInv, ChatTyped, Alone, LoadMember, postHistory, readHistory
<1> QED
  BY <1>2, <1>4, <1>5, <1>6, <1>7, <1>8, AtAll DEF ChatInv

\* Marking as read ends: the counter is cleared, unless it was 0 when it was loaded.
LEMMA SaveReadInv ==
  ASSUME ChatInv, NEW r \in Requests, SaveRead(r)
  PROVE  ChatInv'
<1>1. PICK u \in Users : u = proc[r].user
  BY DEF SaveRead, ChatInv, AllAt, At, Processes
<1>2. PICK at \in Nat : at = proc[r].seen.arrived
  BY DEF ChatInv, ChatTyped, Carried, Processes
<1>3. /\ unread' = IF proc[r].seen.unread = 0 THEN unread ELSE [unread EXCEPT ![u] = 0]
      /\ loaded' = [loaded EXCEPT ![u] = IF at > loaded[u] THEN at ELSE loaded[u]]
      /\ cleared' = [cleared EXCEPT ![u] = arrived[u]]
      /\ uncounted' = [uncounted EXCEPT ![u] = 0]
      /\ arrived' = arrived /\ UNCHANGED <<lock, isLocked, conditions, scheduled, restarts, posted, excused>>
      /\ Finish(r) /\ proc[r].at = "save"
  BY <1>1, <1>2 DEF SaveRead, Zeroed, postHistory
<1>4. /\ r \in Processes /\ Alone(r) /\ At(r)' /\ proc'[r].at # "save"
      /\ \A q \in Polls : proc'[q] = proc[q]
  BY <1>3, RequestRests
<1>5. /\ at <= arrived[u]
      /\ proc[r].seen.unread = 0 => unread[u] + at <= arrived[u]
  BY <1>1, <1>2, <1>3, <1>4 DEF ChatInv, Loads
<1>6. /\ unread \in [Users -> Nat] /\ arrived \in [Users -> Nat]
      /\ uncounted \in [Users -> Nat] /\ loaded \in [Users -> Nat] /\ cleared \in [Users -> Nat]
  BY DEF ChatInv, ChatTyped
<1>7. /\ unread' \in [Users -> Nat] /\ loaded' \in [Users -> Nat] /\ cleared' \in [Users -> Nat]
      /\ uncounted' \in [Users -> Nat]
      /\ \A v \in Users : unread'[v] <= unread[v]
      /\ \A v \in Users \ {u} : /\ unread'[v] = unread[v] /\ uncounted'[v] = uncounted[v]
                               /\ loaded'[v] = loaded[v] /\ cleared'[v] = cleared[v]
      /\ cleared'[u] = arrived[u] /\ uncounted'[u] = 0 /\ loaded'[u] = (IF at > loaded[u] THEN at ELSE loaded[u])
      /\ unread'[u] = IF proc[r].seen.unread = 0 THEN unread[u] ELSE 0
  BY <1>3, <1>6
<1>8. UnreadCounted'
  <2>1. SUFFICES ASSUME NEW v \in Users
                 PROVE  /\ arrived'[v] <= unread'[v] + uncounted'[v] + cleared'[v]
                        /\ unread'[v] + loaded'[v] <= arrived'[v]
    BY DEF UnreadCounted
  <2>2. arrived[v] <= unread[v] + uncounted[v] + cleared[v] /\ unread[v] + loaded[v] <= arrived[v]
    BY DEF ChatInv, UnreadCounted
  <2>3. CASE v = u
    BY <1>3, <1>5, <1>6, <1>7, <2>2, <2>3
  <2> QED
    BY <1>3, <1>7, <2>2, <2>3
<1>9. Loads'
  <2>1. SUFFICES ASSUME NEW p \in Processes, proc'[p].at = "save"
                 PROVE  LET v == proc'[p].user  seen == proc'[p].seen
                        IN  /\ seen.arrived <= arrived'[v]
                            /\ seen.unread = 0 => unread'[v] + seen.arrived <= arrived'[v]
    BY DEF Loads
  <2>2. proc'[p] = proc[p]
    BY <1>4, <2>1 DEF Alone
  <2>3. PICK v \in Users : v = proc[p].user
    BY <2>1, <2>2 DEF ChatInv, AllAt, At
  <2>4. PICK n \in Nat : n = proc[p].seen.arrived
    BY DEF ChatInv, ChatTyped, Carried
  <2>5. n <= arrived[v] /\ (proc[p].seen.unread = 0 => unread[v] + n <= arrived[v])
    BY <2>1, <2>2, <2>3, <2>4 DEF ChatInv, Loads
  <2>6. proc[p].seen.unread = 0 => unread'[v] + n <= arrived[v]
    BY <1>6, <1>7, <2>5
  <2> QED
    BY <1>3, <2>2, <2>3, <2>4, <2>5, <2>6
<1>10. Apart' /\ AllOnce'
  BY <1>3, <1>4, TimerStands
<1>11. ChatTyped'
  BY <1>3, <1>4, <1>6, <1>7 DEF conditions, ChatInv, ChatTyped, Alone
<1> QED
  BY <1>4, <1>8, <1>9, <1>10, <1>11, AtAll DEF ChatInv

\* A poll or a reply begins, or a system message.
LEMMA BeginPostInv ==
  ASSUME ChatInv, NEW r \in Requests, BeginPost(r)
  PROVE  ChatInv'
<1>1. CASE Finish(r)
  <2>1. Alone(r) /\ At(r)' /\ proc'[r].at # "save"
    BY <1>1, RequestRests
  <2> QED
    BY <2>1, RequestMoves DEF BeginPost
<1>2. CASE \E u \in Users : proc' = [proc EXCEPT ![r].at = "post", ![r].user = u]
  <2>1. PICK u \in Users : proc' = [proc EXCEPT ![r].at = "post", ![r].user = u]
    BY <1>2
  <2> DEFINE c == [proc[r] EXCEPT !.at = "post", !.user = u]
  <2>2. r \in Processes /\ proc[r] \in Carried
    BY DEF Processes, ChatInv, ChatTyped
  <2>3. c \in Carried /\ c.at = "post"
    BY <2>2 DEF Carried
  <2>4. Alone(r) /\ proc'[r] = c
    BY <2>1, <2>2, <2>3 DEF ChatInv, ChatTyped, Alone
  <2>5. At(r)' /\ proc'[r].at # "save"
    BY <2>3, <2>4, NamesAssumption DEF At
  <2> QED
    BY <2>4, <2>5, RequestMoves DEF BeginPost
<1> QED
  BY <1>1, <1>2 DEF BeginPost

LEMMA BeginSystemMessageInv ==
  ASSUME ChatInv, NEW r \in Requests, BeginSystemMessage(r)
  PROVE  ChatInv'
<1> DEFINE c == [proc[r] EXCEPT !.at = "post"]
<1>1. r \in Processes /\ proc[r] \in Carried
  BY DEF Processes, ChatInv, ChatTyped
<1>2. c \in Carried /\ c.at = "post"
  BY <1>1 DEF Carried
<1>3. Alone(r) /\ proc'[r] = c
  BY <1>1, <1>2 DEF ChatInv, ChatTyped, Alone, BeginSystemMessage
<1>4. At(r)' /\ proc'[r].at # "save"
  BY <1>2, <1>3, NamesAssumption DEF At
<1> QED
  BY <1>3, <1>4, RequestMoves DEF BeginSystemMessage

\* A poll, a reply or a system message counts where no counter does.
LEMMA CommitPostInv ==
  ASSUME ChatInv, NEW r \in Requests, CommitPost(r)
  PROVE  ChatInv'
<1>1. /\ r \in Processes /\ Alone(r) /\ At(r)' /\ proc'[r].at # "save"
      /\ \A q \in Polls : proc'[q] = proc[q]
  BY RequestRests DEF CommitPost
<1>2. /\ unread \in [Users -> Nat] /\ arrived \in [Users -> Nat]
      /\ uncounted \in [Users -> Nat] /\ loaded \in [Users -> Nat] /\ cleared \in [Users -> Nat]
  BY DEF ChatInv, ChatTyped
<1>3. /\ arrived' \in [Users -> Nat] /\ uncounted' \in [Users -> Nat]
      /\ \A v \in Users : \/ arrived'[v] = arrived[v] /\ uncounted'[v] = uncounted[v]
                          \/ arrived'[v] = arrived[v] + 1 /\ uncounted'[v] = uncounted[v] + 1
  BY <1>2 DEF CommitPost, FromOthers
<1>4. UNCHANGED <<unread, loaded, cleared>>
  BY DEF CommitPost
<1>5. UnreadCounted'
  <2>1. SUFFICES ASSUME NEW v \in Users
                 PROVE  /\ arrived'[v] <= unread'[v] + uncounted'[v] + cleared'[v]
                        /\ unread'[v] + loaded'[v] <= arrived'[v]
    BY DEF UnreadCounted
  <2>2. /\ arrived[v] <= unread[v] + uncounted[v] + cleared[v]
        /\ unread[v] + loaded[v] <= arrived[v]
    BY DEF ChatInv, UnreadCounted
  <2> QED
    BY <1>2, <1>3, <1>4, <2>2
<1>6. Loads'
  <2>1. SUFFICES ASSUME NEW q \in Processes, proc'[q].at = "save"
                 PROVE  LET v == proc'[q].user  seen == proc'[q].seen
                        IN  /\ seen.arrived <= arrived'[v]
                            /\ seen.unread = 0 => unread'[v] + seen.arrived <= arrived'[v]
    BY DEF Loads
  <2>2. proc'[q] = proc[q]
    BY <1>1, <2>1 DEF Alone
  <2>3. PICK v \in Users : v = proc[q].user
    BY <2>1, <2>2 DEF ChatInv, AllAt, At
  <2>4. PICK n \in Nat : n = proc[q].seen.arrived
    BY DEF ChatInv, ChatTyped, Carried
  <2>5. n <= arrived[v] /\ (proc[q].seen.unread = 0 => unread[v] + n <= arrived[v])
    BY <2>1, <2>2, <2>3, <2>4 DEF ChatInv, Loads
  <2>6. n <= arrived'[v] /\ (proc[q].seen.unread = 0 => unread'[v] + n <= arrived'[v])
    BY <1>2, <1>3, <1>4, <2>5
  <2> QED
    BY <2>2, <2>3, <2>4, <2>6
<1>7. Apart' /\ AllOnce'
  BY <1>1, TimerStands DEF CommitPost, postHistory
<1>8. ChatTyped'
  BY <1>1, <1>3 DEF conditions, ChatInv, ChatTyped, Alone, CommitPost, postHistory
<1> QED
  BY <1>1, <1>5, <1>6, <1>7, <1>8, AtAll DEF ChatInv

\* A message may be scheduled that was not posted; it is not due yet.
LEMMA ScheduleMessageInv ==
  ASSUME ChatInv, NEW r \in Requests, ScheduleMessage(r)
  PROVE  ChatInv'
<1>1. PICK s \in Scheduled, u \in Users :
        /\ scheduled[s] = Nobody /\ posted[s] = 0
        /\ scheduled' = IF isGone \/ isLocked THEN scheduled
                         ELSE [scheduled EXCEPT ![s] = [sender |-> u, due |-> FALSE, isSent |-> FALSE]]
  BY DEF ScheduleMessage
<1>2. /\ r \in Processes /\ Alone(r) /\ At(r)' /\ proc'[r].at # "save"
      /\ \A q \in Polls : proc'[q] = proc[q]
  BY RequestRests DEF ScheduleMessage
<1>3. [sender |-> u, due |-> FALSE, isSent |-> FALSE] \in Postings
  BY DEF Postings
<1>4. /\ scheduled' \in [Scheduled -> {Nobody} \cup Postings]
      /\ \A t \in Scheduled \ {s} : scheduled'[t] = scheduled[t]
  BY <1>1, <1>3 DEF ChatInv, ChatTyped
<1>5. Apart' /\ AllOnce'
  BY <1>1, <1>2, <1>4, TimerStands DEF ScheduleMessage, postHistory
<1>6. UnreadCounted' /\ Loads'
  BY <1>2, CountsStand DEF ScheduleMessage, readHistory
<1>7. ChatTyped'
  BY <1>2, <1>4 DEF conditions, ChatInv, ChatTyped, Alone, ScheduleMessage, readHistory, postHistory
<1> QED
  BY <1>2, <1>5, <1>6, <1>7, AtAll DEF ChatInv

\* cancelScheduled reads whether the message is sent.
LEMMA BeginCancelInv ==
  ASSUME ChatInv, NEW r \in Requests, BeginCancel(r)
  PROVE  ChatInv'
<1>1. PICK s \in Scheduled :
        IF scheduled[s].isSent THEN Finish(r)
        ELSE proc' = [proc EXCEPT ![r].at = "destroy", ![r].item = s]
  BY DEF BeginCancel
<1>2. CASE Finish(r)
  <2>1. Alone(r) /\ At(r)' /\ proc'[r].at # "save"
    BY <1>2, RequestRests
  <2> QED
    BY <2>1, RequestMoves DEF BeginCancel
<1>3. CASE proc' = [proc EXCEPT ![r].at = "destroy", ![r].item = s]
  <2> DEFINE c == [proc[r] EXCEPT !.at = "destroy", !.item = s]
  <2>1. r \in Processes /\ proc[r] \in Carried
    BY DEF Processes, ChatInv, ChatTyped
  <2>2. c \in Carried /\ c.at = "destroy"
    BY <2>1 DEF Carried
  <2>3. Alone(r) /\ proc'[r] = c
    BY <1>3, <2>1, <2>2 DEF ChatInv, ChatTyped, Alone
  <2>4. At(r)' /\ proc'[r].at # "save"
    BY <2>2, <2>3, NamesAssumption DEF At
  <2> QED
    BY <2>3, <2>4, RequestMoves DEF BeginCancel
<1> QED
  BY <1>1, <1>2, <1>3

\* The row of a cancelled message is destroyed.
LEMMA DestroyScheduledInv ==
  ASSUME ChatInv, NEW r \in Requests, DestroyScheduled(r)
  PROVE  ChatInv'
<1>1. /\ r \in Processes /\ Alone(r) /\ At(r)' /\ proc'[r].at # "save"
      /\ \A q \in Polls : proc'[q] = proc[q]
  BY RequestRests DEF DestroyScheduled
<1>2. /\ scheduled' \in [Scheduled -> {Nobody} \cup Postings]
      /\ \A t \in Scheduled : scheduled'[t] = Nobody \/ scheduled'[t] = scheduled[t]
  BY DEF DestroyScheduled, ChatInv, ChatTyped
<1>3. Apart' /\ AllOnce'
  BY <1>1, <1>2, TimerStands DEF DestroyScheduled, postHistory
<1>4. UnreadCounted' /\ Loads'
  BY <1>1, CountsStand DEF DestroyScheduled, readHistory
<1>5. ChatTyped'
  BY <1>1, <1>2 DEF conditions, ChatInv, ChatTyped, Alone, DestroyScheduled, readHistory, postHistory
<1> QED
  BY <1>1, <1>3, <1>4, <1>5, AtAll DEF ChatInv

\* No process moves: a message falls due, or what the conversation refuses changes.
LEMMA NobodyMoves ==
  ASSUME ChatInv, UNCHANGED <<unread, lock, proc, restarts, postHistory, readHistory>>,
         \A s \in Scheduled :
            \/ scheduled[s] # Nobody /\ scheduled'[s].isSent = scheduled[s].isSent
            \/ scheduled'[s] = scheduled[s],
         scheduled' \in [Scheduled -> {Nobody} \cup Postings], isLocked' \in BOOLEAN,
         barred' \subseteq Users, isGone' \in BOOLEAN, crowded' \in BOOLEAN
  PROVE  ChatInv'
<1>1. Apart' /\ AllOnce'
  BY TimerStands DEF postHistory
<1>2. UnreadCounted' /\ Loads' /\ AllAt'
  BY DEF ChatInv, UnreadCounted, Loads, AllAt, At, readHistory
<1>3. ChatTyped'
  BY DEF conditions, ChatInv, ChatTyped, postHistory, readHistory
<1> QED
  BY <1>1, <1>2, <1>3 DEF ChatInv

\* The time of a message comes.
LEMMA FallDueInv ==
  ASSUME ChatInv, NEW s \in Scheduled, FallDue(s)
  PROVE  ChatInv'
<1>1. scheduled[s] \in Postings /\ scheduled' = [scheduled EXCEPT ![s] = [scheduled[s] EXCEPT !.due = TRUE]]
  BY DEF FallDue, ChatInv, ChatTyped
<1>2. /\ [scheduled[s] EXCEPT !.due = TRUE] \in Postings
      /\ [scheduled[s] EXCEPT !.due = TRUE].isSent = scheduled[s].isSent
  BY <1>1 DEF Postings
<1>3. /\ scheduled' \in [Scheduled -> {Nobody} \cup Postings]
      /\ \A t \in Scheduled :
            \/ scheduled[t] # Nobody /\ scheduled'[t].isSent = scheduled[t].isSent
            \/ scheduled'[t] = scheduled[t]
  BY <1>1, <1>2 DEF FallDue, ChatInv, ChatTyped
<1>4. isLocked' \in BOOLEAN /\ barred' \subseteq Users /\ isGone' \in BOOLEAN /\ crowded' \in BOOLEAN
  BY DEF FallDue, ChatInv, ChatTyped, conditions
<1> QED
  BY <1>3, <1>4, NobodyMoves DEF FallDue

\* A moderator locks or unlocks the conversation, it refuses other people, it is removed, or
\* other messages fall due.
LEMMA ConditionsInv ==
  ASSUME ChatInv, SetLock \/ SetBarred \/ RemoveConversation \/ OthersFallDue
  PROVE  ChatInv'
<1>1. /\ isLocked' \in BOOLEAN /\ barred' \subseteq Users /\ isGone' \in BOOLEAN /\ crowded' \in BOOLEAN
      /\ scheduled' \in [Scheduled -> {Nobody} \cup Postings]
  BY DEF SetLock, SetBarred, RemoveConversation, OthersFallDue, conditions, ChatInv, ChatTyped
<1>2. UNCHANGED <<unread, lock, scheduled, proc, restarts, postHistory, readHistory>>
  BY DEF SetLock, SetBarred, RemoveConversation, OthersFallDue
<1> QED
  BY <1>1, <1>2, NobodyMoves
-----------------------------------------------------------------------------
(* A send, by a request or by the timer *)

\* A message that is no less sent than before, or gone
Stays(s) == scheduled'[s] = scheduled[s] \/ (scheduled'[s] # Nobody => scheduled'[s].isSent)

LEMMA AllStay ==
  ASSUME UNCHANGED scheduled
  PROVE  \A s \in Scheduled : Stays(s)
BY DEF Stays

\* A run of the timer may drop what it holds, or take it from its batch, as long as it is not
\* about to mark it; a message may be marked or gone.
LEMMA RunMoves ==
  ASSUME ChatInv, NEW q \in Polls, Alone(q), proc[q].at # "mark",
         Holds(q)' \subseteq Holds(q),
         \A m, n \in proc'[q].batch : m.item = n.item => m = n,
         \A m \in proc'[q].batch : m.item # proc'[q].item,
         UNCHANGED postHistory, \A s \in Scheduled : Stays(s)
  PROVE  Apart' /\ AllOnce'
<1>1. /\ q \in Processes /\ Polls \subseteq Processes
      /\ \A o \in Polls \ {q} : proc'[o] = proc[o]
  BY DEF Alone, Processes
<1>2. Apart'
  BY <1>1 DEF ChatInv, Apart
<1>3. SUFFICES ASSUME NEW s \in Scheduled \ excused
               PROVE  Once(s)'
  BY <1>2 DEF AllOnce, postHistory
<1>4. Once(s)
  BY DEF ChatInv, AllOnce
<1>5. \A o \in Polls : (s \in Holds(o))' => s \in Holds(o)
  BY <1>1 DEF Holds
<1>6. \A o \in Polls : Marks(o, s) => o # q /\ Marks(o, s)'
  BY <1>1 DEF Marks
<1>7. posted' = posted /\ (scheduled'[s] # Nobody /\ ~scheduled'[s].isSent => scheduled'[s] = scheduled[s])
  BY DEF postHistory, Stays
<1> QED
  BY <1>4, <1>5, <1>6, <1>7 DEF Once

\* What a send, or the end of one, does to the process that runs it
Sends(p) ==
    /\ Alone(p)
    /\ proc'[p].at # "save"
    /\ proc'[p].batch = proc[p].batch \/ p \notin Polls
    /\ proc'[p].item \in {proc[p].item, Nobody}

\* A send that does not commit changes nothing but locks.
LEMMA SendMoves ==
  ASSUME ChatInv, NEW p \in Processes, Sends(p), At(p)', p \in Polls => proc[p].at # "mark",
         lock' \in [Users -> Processes \cup {Nobody}],
         UNCHANGED <<unread, isLocked, conditions, scheduled, restarts, postHistory, readHistory>>
  PROVE  ChatInv'
<1>1. UnreadCounted' /\ Loads'
  BY CountsStand DEF Sends, readHistory
<1>2. ChatTyped'
  BY DEF conditions, ChatInv, ChatTyped, Sends, Alone, postHistory, readHistory
<1>3. Apart' /\ AllOnce'
  <2>1. CASE p \in Polls
    <3>1. Holds(p)' \subseteq Holds(p)
      BY <2>1 DEF Sends, Holds
    <3>2. \A m \in proc[p].batch : m.item \in Scheduled /\ m.item # Nobody
      BY NamesAssumption DEF ChatInv, ChatTyped, Carried
    <3>3. /\ \A m, n \in proc'[p].batch : m.item = n.item => m = n
          /\ \A m \in proc'[p].batch : m.item # proc'[p].item
      BY <2>1, <3>2 DEF ChatInv, Apart, Sends
    <3> QED
      BY <2>1, <3>1, <3>3, AllStay, RunMoves DEF Sends
  <2>2. CASE p \notin Polls
    BY <2>2, TimerStands DEF Sends, Alone, postHistory, Processes
  <2> QED
    BY <2>1, <2>2
<1> QED
  BY <1>1, <1>2, <1>3, AtAll DEF ChatInv, Sends

\* A send that ends without a mark to write
LEMMA SendRests ==
  ASSUME ChatTyped, NEW p \in Processes, Finish(p)
  PROVE  Sends(p) /\ At(p)'
<1>1. Rested(p)
  BY Finishes
<1> QED
  BY <1>1 DEF Rested, Sends, At

\* A send at its next statement, with its message and its batch
LEMMA SendGoesOn ==
  ASSUME ChatInv, NEW p \in Processes, NEW at \in {"own", "others"}, NEW todo \in Seq(Users),
         proc[p].user \in Users, proc[p].at \in {"check", "own", "others"},
         proc' = [proc EXCEPT ![p] = [proc[p] EXCEPT !.at = at, !.todo = todo]]
  PROVE  Sends(p) /\ At(p)'
<1> DEFINE c == [proc[p] EXCEPT !.at = at, !.todo = todo]
<1>1. proc[p] \in Carried
  BY DEF ChatInv, ChatTyped
<1>2. /\ c \in Carried /\ c.at = at /\ c.user = proc[p].user /\ c.item = proc[p].item
      /\ c.batch = proc[p].batch
  BY <1>1 DEF Carried
<1>3. Alone(p) /\ proc'[p] = c
  BY <1>2, Moves DEF ChatInv
<1>4. At(p)
  BY DEF ChatInv, AllAt
<1> QED
  BY <1>2, <1>3, <1>4 DEF Sends, At

\* Any order of the members
LEMMA OrdersSeq ==
  ASSUME NEW S \in SUBSET Users, NEW order \in Orders(S)
  PROVE  order \in Seq(Users)
<1>1. IsFiniteSet(S)
  BY FS_Subset, MembersAssumption
<1>2. Cardinality(S) \in Nat
  BY <1>1, FS_CardinalityType
<1>3. order \in [1 .. Cardinality(S) -> Users]
  BY DEF Orders
<1> QED
  BY <1>2, <1>3

\* canSend refuses, or the transaction begins.
LEMMA CanSendInv ==
  ASSUME ChatInv, NEW p \in Processes, CanSend(p)
  PROVE  ChatInv'
<1>1. lock' \in [Users -> Processes \cup {Nobody}] /\ ChatTyped
  BY DEF CanSend, ChatInv, ChatTyped
<1>2. Sends(p) /\ At(p)'
  <2>1. CASE Finish(p)
    BY <1>1, <2>1, SendRests
  <2>2. CASE proc' = [proc EXCEPT ![p].at = "own"]
    <3>1. proc[p] \in Carried /\ proc[p].todo \in Seq(Users) /\ proc[p].user \in Users
      BY DEF ChatInv, ChatTyped, Carried, AllAt, At, CanSend
    <3>2. proc' = [proc EXCEPT ![p] = [proc[p] EXCEPT !.at = "own", !.todo = proc[p].todo]]
      <4>1. [proc[p] EXCEPT !.at = "own", !.todo = proc[p].todo] = [proc[p] EXCEPT !.at = "own"]
        BY <3>1 DEF Carried
      <4> QED
        BY <2>2, <4>1
    <3> QED
      BY <3>1, <3>2, SendGoesOn DEF CanSend
  <2> QED
    BY <2>1, <2>2 DEF CanSend
<1> QED
  BY <1>1, <1>2, SendMoves DEF CanSend

\* The transaction has the sender's row.
LEMMA LockOwnRowInv ==
  ASSUME ChatInv, NEW p \in Processes, LockOwnRow(p)
  PROVE  ChatInv'
<1>1. proc[p].user \in Users
  BY DEF ChatInv, AllAt, At, LockOwnRow
<1>2. lock' \in [Users -> Processes \cup {Nobody}]
  BY DEF LockOwnRow, ChatInv, ChatTyped
<1>3. PICK order \in Orders(Users \ {proc[p].user}) :
        proc' = [proc EXCEPT ![p].at = "others", ![p].todo = order]
  BY DEF LockOwnRow
<1>4. order \in Seq(Users)
  <2>1. PICK S \in SUBSET Users : S = Users \ {proc[p].user}
    OBVIOUS
  <2> QED
    BY <1>3, <2>1, OrdersSeq
<1>5. proc' = [proc EXCEPT ![p] = [proc[p] EXCEPT !.at = "others", !.todo = order]]
  BY <1>3
<1>6. Sends(p) /\ At(p)'
  BY <1>1, <1>4, <1>5, SendGoesOn DEF LockOwnRow
<1> QED
  BY <1>2, <1>6, SendMoves DEF LockOwnRow

\* It has another member's row.
LEMMA LockOtherRowInv ==
  ASSUME ChatInv, NEW p \in Processes, LockOtherRow(p)
  PROVE  ChatInv'
<1>1. proc[p].user \in Users /\ proc[p] \in Carried
  BY DEF ChatInv, AllAt, At, LockOtherRow, ChatTyped
<1>2. proc[p].todo \in Seq(Users) /\ proc[p].todo # <<>>
  BY <1>1 DEF Carried, LockOtherRow
<1>3. Tail(proc[p].todo) \in Seq(Users) /\ Head(proc[p].todo) \in Users
  BY <1>2
<1>4. lock' \in [Users -> Processes \cup {Nobody}]
  BY <1>3 DEF LockOtherRow, ChatInv, ChatTyped
<1>5. proc' = [proc EXCEPT ![p] = [proc[p] EXCEPT !.at = "others", !.todo = Tail(proc[p].todo)]]
  <2>1. [proc[p] EXCEPT !.at = "others", !.todo = Tail(proc[p].todo)]
          = [proc[p] EXCEPT !.todo = Tail(proc[p].todo)]
    BY <1>1 DEF Carried, LockOtherRow
  <2> QED
    BY <2>1 DEF LockOtherRow
<1>6. Sends(p) /\ At(p)'
  BY <1>1, <1>3, <1>5, SendGoesOn DEF LockOtherRow
<1> QED
  BY <1>4, <1>6, SendMoves DEF LockOtherRow

\* Locks that are released are those of processes.
LEMMA ReleasedTyped ==
  ASSUME ChatTyped, NEW p \in Processes
  PROVE  Released(p) \in [Users -> Processes \cup {Nobody}]
BY DEF ChatTyped, Released

\* PostgreSQL rolls back a transaction that waits for a row.
LEMMA RollBackSendInv ==
  ASSUME ChatInv, NEW p \in Processes, RollBackSend(p)
  PROVE  ChatInv'
<1>1. Wants(p) # Nobody
  BY DEF RollBackSend, Deadlocked, Blocks
<1>2. proc[p].at # "mark"
  BY <1>1 DEF Wants
<1>3. Sends(p) /\ At(p)' /\ lock' \in [Users -> Processes \cup {Nobody}]
  BY SendRests, ReleasedTyped DEF RollBackSend, ChatInv
<1> QED
  BY <1>2, <1>3, SendMoves DEF RollBackSend
\* The commit counts one more message for everybody but its sender.
LEMMA CommitCounts ==
  ASSUME ChatInv, NEW p \in Processes, NEW u \in Users, u = proc[p].user, Alone(p), proc'[p].at # "save",
         unread' = Incremented(p), UNCHANGED <<uncounted, loaded, cleared>>,
         arrived' = FromOthers(proc[p].user, arrived)
  PROVE  /\ UnreadCounted' /\ Loads'
         /\ unread' \in [Users -> Nat] /\ arrived' \in [Users -> Nat]
<1>1. /\ unread \in [Users -> Nat] /\ arrived \in [Users -> Nat]
      /\ uncounted \in [Users -> Nat] /\ loaded \in [Users -> Nat] /\ cleared \in [Users -> Nat]
  BY DEF ChatInv, ChatTyped
<1>2. /\ unread' \in [Users -> Nat] /\ arrived' \in [Users -> Nat]
      /\ \A v \in Users : \/ unread'[v] = unread[v] /\ arrived'[v] = arrived[v]
                          \/ unread'[v] = unread[v] + 1 /\ arrived'[v] = arrived[v] + 1
  BY <1>1 DEF Incremented, FromOthers
<1>3. UnreadCounted'
  <2>1. SUFFICES ASSUME NEW v \in Users
                 PROVE  /\ arrived'[v] <= unread'[v] + uncounted'[v] + cleared'[v]
                        /\ unread'[v] + loaded'[v] <= arrived'[v]
    BY DEF UnreadCounted
  <2>2. arrived[v] <= unread[v] + uncounted[v] + cleared[v] /\ unread[v] + loaded[v] <= arrived[v]
    BY DEF ChatInv, UnreadCounted
  <2> QED
    BY <1>1, <1>2, <2>2
<1>4. Loads'
  <2>1. SUFFICES ASSUME NEW q \in Processes, proc'[q].at = "save"
                 PROVE  LET v == proc'[q].user  seen == proc'[q].seen
                        IN  /\ seen.arrived <= arrived'[v]
                            /\ seen.unread = 0 => unread'[v] + seen.arrived <= arrived'[v]
    BY DEF Loads
  <2>2. proc'[q] = proc[q]
    BY <2>1 DEF Alone
  <2>3. PICK v \in Users : v = proc[q].user
    BY <2>1, <2>2 DEF ChatInv, AllAt, At
  <2>4. PICK n \in Nat : n = proc[q].seen.arrived
    BY DEF ChatInv, ChatTyped, Carried
  <2>5. n <= arrived[v] /\ (proc[q].seen.unread = 0 => unread[v] + n <= arrived[v])
    BY <2>1, <2>2, <2>3, <2>4 DEF ChatInv, Loads
  <2>6. n <= arrived'[v] /\ (proc[q].seen.unread = 0 => unread'[v] + n <= arrived'[v])
    BY <1>1, <1>2, <2>5
  <2> QED
    BY <2>2, <2>3, <2>4, <2>6
<1> QED
  BY <1>2, <1>3, <1>4

\* The commit of a run posts a message that was not posted, and the run will mark it.
LEMMA CommitPosts ==
  ASSUME ChatInv, NEW q \in Polls, NEW s \in Scheduled, s = proc[q].item, proc[q].at = "others",
         Alone(q), proc'[q].at = "mark", proc'[q].item = s, proc'[q].batch = proc[q].batch,
         posted' = [posted EXCEPT ![s] = @ + 1], UNCHANGED <<scheduled, excused>>
  PROVE  Apart' /\ AllOnce' /\ posted' \in [Scheduled -> Nat]
<1>1. /\ q \in Processes /\ Polls \subseteq Processes
      /\ \A o \in Polls \ {q} : proc'[o] = proc[o]
  BY DEF Alone, Processes
<1>2. posted \in [Scheduled -> Nat]
  BY DEF ChatInv, ChatTyped
<1>3. Apart'
  BY <1>1 DEF ChatInv, Apart
<1>4. \A o \in Polls : Holds(o)' = Holds(o)
  BY <1>1 DEF Holds
<1>5. /\ posted' \in [Scheduled -> Nat]
      /\ \A t \in Scheduled \ {s} : posted'[t] = posted[t]
      /\ posted'[s] = posted[s] + 1
  BY <1>2
<1>6. SUFFICES ASSUME NEW t \in Scheduled \ excused
               PROVE  Once(t)'
  BY <1>3, <1>5 DEF AllOnce
<1>7. Once(t)
  BY DEF ChatInv, AllOnce
<1>8. s \in Holds(q) /\ ~Marks(q, s)
  BY NamesAssumption DEF Holds, Marks
<1>9. /\ \A o \in Polls : Marks(o, t) => Marks(o, t)'
      /\ Marks(q, s)'
  BY <1>1 DEF Marks
<1>10. CASE t = s
  <2>1. posted[s] # 1 /\ posted[s] <= 1 /\ posted[s] \in Nat
    BY <1>2, <1>7, <1>8, <1>10 DEF Once
  <2>2. posted'[s] = 1
    BY <1>5, <2>1
  <2>3. \A o \in Polls : s \in Holds(o) => o = q
    BY <1>7, <1>8, <1>10 DEF Once
  <2>4. \A o, r \in Polls : s \in Holds(o) /\ s \in Holds(r) => o = r
    BY <2>3
  <2> QED
    BY <1>4, <1>9, <1>10, <2>2, <2>3, <2>4 DEF Once
<1>11. CASE t # s
  BY <1>4, <1>5, <1>7, <1>9, <1>11 DEF Once
<1> QED
  BY <1>10, <1>11

\* The transaction commits.
LEMMA CommitSendInv ==
  ASSUME ChatInv, NEW p \in Processes, CommitSend(p)
  PROVE  ChatInv'
<1>1. PICK u \in Users : u = proc[p].user
  BY DEF CommitSend, ChatInv, AllAt, At
<1>2. lock' \in [Users -> Processes \cup {Nobody}]
  BY ReleasedTyped DEF CommitSend, ChatInv
<1>3. CASE p \in Polls
  <2> DEFINE c == [proc[p] EXCEPT !.at = "mark"]
  <2>1. proc[p] \in Carried /\ proc[p].item \in Scheduled
    BY <1>3 DEF ChatInv, ChatTyped, Carried, AllAt, At, CommitSend
  <2>2. /\ c \in Carried /\ c.at = "mark" /\ c.user = proc[p].user /\ c.item = proc[p].item
        /\ c.batch = proc[p].batch
    BY <2>1 DEF Carried
  <2>3. Alone(p) /\ proc'[p] = c
    <3>1. proc' = [proc EXCEPT ![p] = c]
      BY <1>3 DEF CommitSend
    <3> HIDE DEF c
    <3> QED
      BY <2>2, <3>1, Moves DEF ChatInv
  <2>4. At(p)' /\ proc'[p].at # "save"
    BY <1>1, <2>1, <2>2, <2>3, NamesAssumption DEF At
  <2>5. PICK s \in Scheduled : s = proc[p].item
    BY <2>1
  <2>6. posted' = [posted EXCEPT ![s] = @ + 1]
    BY <1>3, <2>5 DEF CommitSend
  <2>7. Apart' /\ AllOnce' /\ posted' \in [Scheduled -> Nat]
    BY <1>3, <2>2, <2>3, <2>5, <2>6, CommitPosts DEF CommitSend
  <2>8. UnreadCounted' /\ Loads' /\ unread' \in [Users -> Nat] /\ arrived' \in [Users -> Nat]
    BY <1>1, <2>3, <2>4, CommitCounts DEF CommitSend
  <2>9. ChatTyped'
    BY <1>2, <2>3, <2>7, <2>8 DEF conditions, ChatInv, ChatTyped, Alone, CommitSend
  <2> QED
    BY <2>3, <2>4, <2>7, <2>8, <2>9, AtAll DEF ChatInv
<1>4. CASE p \notin Polls
  <2>1. p \in Requests /\ Finish(p) /\ UNCHANGED posted
    BY <1>4 DEF CommitSend, Processes
  <2>2. /\ Alone(p) /\ At(p)' /\ proc'[p].at # "save"
        /\ \A q \in Polls : proc'[q] = proc[q]
    BY <2>1, RequestRests
  <2>3. Apart' /\ AllOnce'
    BY <2>1, <2>2, TimerStands DEF CommitSend
  <2>4. UnreadCounted' /\ Loads' /\ unread' \in [Users -> Nat] /\ arrived' \in [Users -> Nat]
    BY <1>1, <2>2, CommitCounts DEF CommitSend
  <2>5. ChatTyped'
    BY <1>2, <2>1, <2>2, <2>4 DEF conditions, ChatInv, ChatTyped, Alone, CommitSend
  <2> QED
    BY <2>2, <2>3, <2>4, <2>5, AtAll DEF ChatInv
<1> QED
  BY <1>3, <1>4

-----------------------------------------------------------------------------
(* The timer *)

\* A run that reads what is due excuses the messages another run holds.
LEMMA StartPollInv ==
  ASSUME ChatInv, NEW q \in Polls, StartPoll(q)
  PROVE  ChatInv'
<1>1. q \in Processes /\ Polls \subseteq Processes /\ proc[q] \in Carried
  BY DEF Processes, ChatInv, ChatTyped
<1>2. At(q) /\ proc[q].item = Nobody /\ proc[q].batch = {}
  BY <1>1 DEF ChatInv, AllAt, At, StartPoll
<1>a. PICK S \in DueBatches :
        /\ proc' = [proc EXCEPT ![q].at = "next", ![q].batch = RowsOf(S)]
        /\ excused' = excused \cup (S \cap UNION {Holds(o) : o \in Polls})
  BY DEF StartPoll
<1>b. S \subseteq DueMessages
  BY DEF DueBatches
<1>3. /\ \A m \in RowsOf(S) : m.item \in S /\ m.item # Nobody
      /\ \A m, n \in RowsOf(S) : m.item = n.item => m = n
      /\ RowsOf(S) \subseteq [item : Scheduled, sender : Users]
  <2>1. \A s \in DueMessages : s \in Scheduled /\ scheduled[s].sender \in Users /\ s # Nobody
    BY NamesAssumption DEF DueMessages, ChatInv, ChatTyped, Postings
  <2> QED
    BY <1>b, <2>1 DEF RowsOf
<1> DEFINE c == [proc[q] EXCEPT !.at = "next", !.batch = RowsOf(S)]
<1>4. /\ c \in Carried /\ c.at = "next" /\ c.item = Nobody /\ c.user = proc[q].user
      /\ c.batch = RowsOf(S)
  BY <1>1, <1>2, <1>3 DEF Carried
<1>5. Alone(q) /\ proc'[q] = c
  <2>1. proc' = [proc EXCEPT ![q] = c]
    BY <1>a
  <2> HIDE DEF c
  <2> QED
    BY <1>1, <1>4, <2>1, Moves DEF ChatInv
<1>6. At(q)' /\ proc'[q].at # "save"
  BY <1>4, <1>5 DEF At
<1>7. UnreadCounted' /\ Loads'
  BY <1>1, <1>5, <1>6, CountsStand DEF StartPoll, readHistory
<1>8. \A o \in Polls \ {q} : proc'[o] = proc[o]
  BY <1>1, <1>5 DEF Alone
<1>9. Apart'
  <2>1. proc'[q].batch = RowsOf(S) /\ proc'[q].item = Nobody
    BY <1>4, <1>5
  <2>2. /\ \A m, n \in proc'[q].batch : m.item = n.item => m = n
        /\ \A m \in proc'[q].batch : m.item # proc'[q].item
    BY <1>3, <2>1
  <2> QED
    BY <1>8, <2>2 DEF ChatInv, Apart
<1>10. /\ excused' = excused \cup (S \cap UNION {Holds(o) : o \in Polls})
       /\ posted' = posted /\ scheduled' = scheduled
  BY <1>a DEF StartPoll
<1>11. AllOnce'
  <2>1. SUFFICES ASSUME NEW s \in Scheduled, s \notin excused'
                 PROVE  Once(s)'
    BY DEF AllOnce
  <2>2. Once(s)
    BY <1>10, <2>1 DEF ChatInv, AllOnce
  <2>3. \A o \in Polls \ {q} : Holds(o)' = Holds(o)
    BY <1>8 DEF Holds
  <2>4. s \in Holds(q)' => s \in S
    BY <1>3, <1>4, <1>5 DEF Holds
  <2>5. s \in S => \A o \in Polls : s \notin Holds(o)
    BY <1>10, <2>1
  <2>6. \A o \in Polls : Marks(o, s) => s \in Holds(o) /\ Marks(o, s)'
    <3>1. ~Marks(q, s)
      BY DEF Marks, StartPoll
    <3> QED
      BY <1>8, <3>1, NamesAssumption DEF Marks, Holds
  <2>7. s \in S => posted[s] # 1
    BY <1>b, <2>2, <2>5, <2>6 DEF Once, DueMessages
  <2>8. \A o, r \in Polls : (s \in Holds(o))' /\ (s \in Holds(r))' => o = r
    BY <2>2, <2>3, <2>4, <2>5 DEF Once
  <2>9. posted[s] = 1 => \A o \in Polls : (s \in Holds(o))' => Marks(o, s)'
    BY <2>2, <2>3, <2>4, <2>6, <2>7 DEF Once
  <2> QED
    BY <1>10, <2>2, <2>6, <2>8, <2>9 DEF Once
<1>12. ChatTyped'
  <2>1. S \subseteq Scheduled
    BY <1>b DEF DueMessages
  <2>2. excused' \subseteq Scheduled
    BY <1>10, <2>1 DEF ChatInv, ChatTyped
  <2>3. UNCHANGED <<unread, lock, isLocked, barred, isGone, crowded, scheduled, restarts, posted,
                    arrived, uncounted, loaded, cleared>>
    BY DEF StartPoll, readHistory, conditions
  <2> QED
    BY <1>5, <2>2, <2>3 DEF ChatInv, ChatTyped, Alone
<1> QED
  BY <1>1, <1>5, <1>6, <1>7, <1>9, <1>11, <1>12, AtAll DEF ChatInv

\* The run takes an instance from its batch.
LEMMA NextDueInv ==
  ASSUME ChatInv, NEW q \in Polls, NextDue(q)
  PROVE  ChatInv'
<1>1. q \in Processes /\ proc[q] \in Carried
  BY DEF Processes, ChatInv, ChatTyped
<1>2. PICK m \in proc[q].batch :
        proc' = [proc EXCEPT ![q].at = "check", ![q].user = m.sender,
                             ![q].item = m.item, ![q].batch = @ \ {m}]
  BY DEF NextDue
<1>3. m.sender \in Users /\ m.item \in Scheduled /\ m.item # Nobody
  BY <1>1, <1>2, NamesAssumption DEF Carried
<1> DEFINE c == [proc[q] EXCEPT !.at = "check", !.user = m.sender, !.item = m.item,
                                !.batch = proc[q].batch \ {m}]
<1>4. /\ c \in Carried /\ c.at = "check" /\ c.user = m.sender /\ c.item = m.item
      /\ c.batch = proc[q].batch \ {m}
  BY <1>1, <1>3 DEF Carried
<1>5. Alone(q) /\ proc'[q] = c
  <2>1. proc' = [proc EXCEPT ![q] = c]
    BY <1>2
  <2> HIDE DEF c
  <2> QED
    BY <1>1, <1>4, <2>1, Moves DEF ChatInv
<1>6. At(q)' /\ proc'[q].at # "save"
  BY <1>3, <1>4, <1>5 DEF At
<1>7. UnreadCounted' /\ Loads'
  BY <1>1, <1>5, <1>6, CountsStand DEF NextDue, readHistory
<1>8. Holds(q)' \subseteq Holds(q)
  BY <1>2, <1>4, <1>5 DEF Holds
<1>9. /\ \A k, n \in proc'[q].batch : k.item = n.item => k = n
      /\ \A n \in proc'[q].batch : n.item # proc'[q].item
  <2>1. \A k, n \in proc[q].batch : k.item = n.item => k = n
    BY DEF ChatInv, Apart
  <2>2. proc'[q].batch = proc[q].batch \ {m} /\ proc'[q].item = m.item
    BY <1>4, <1>5
  <2> QED
    BY <1>2, <2>1, <2>2
<1>10. Apart' /\ AllOnce'
  BY <1>5, <1>8, <1>9, AllStay, RunMoves DEF NextDue
<1>11. ChatTyped'
  BY <1>5 DEF conditions, ChatInv, ChatTyped, Alone, NextDue, readHistory, postHistory
<1> QED
  BY <1>1, <1>5, <1>6, <1>7, <1>10, <1>11, AtAll DEF ChatInv

\* A message that is marked, unless its row is gone
LEMMA Marking ==
  ASSUME ChatTyped, NEW s \in Scheduled, scheduled' = MarkedSent(s)
  PROVE  /\ scheduled' \in [Scheduled -> {Nobody} \cup Postings]
         /\ \A t \in Scheduled \ {s} : scheduled'[t] = scheduled[t]
         /\ scheduled'[s] # Nobody => scheduled'[s].isSent
<1>1. CASE scheduled[s] = Nobody
  BY <1>1 DEF ChatTyped, MarkedSent
<1>2. CASE scheduled[s] # Nobody
  <2>1. scheduled[s] \in Postings
    BY <1>2 DEF ChatTyped
  <2>2. /\ [scheduled[s] EXCEPT !.isSent = TRUE] \in Postings
        /\ [scheduled[s] EXCEPT !.isSent = TRUE].isSent
    BY <2>1 DEF Postings
  <2> QED
    BY <1>2, <2>2 DEF ChatTyped, MarkedSent
<1> QED
  BY <1>1, <1>2

\* The conversation is gone: the run drops an instance and marks the row.
LEMMA DropDueInv ==
  ASSUME ChatInv, NEW q \in Polls, DropDue(q)
  PROVE  ChatInv'
<1>1. q \in Processes /\ proc[q] \in Carried
  BY DEF Processes, ChatInv, ChatTyped
<1>2. PICK m \in proc[q].batch : /\ proc' = [proc EXCEPT ![q].batch = @ \ {m}]
                                 /\ scheduled' = MarkedSent(m.item)
  BY DEF DropDue
<1>3. PICK s \in Scheduled : s = m.item
  BY <1>1, <1>2 DEF Carried
<1> DEFINE c == [proc[q] EXCEPT !.batch = proc[q].batch \ {m}]
<1>4. /\ c \in Carried /\ c.at = "next" /\ c.user = proc[q].user /\ c.item = proc[q].item
      /\ c.batch = proc[q].batch \ {m}
  BY <1>1 DEF Carried, DropDue
<1>5. Alone(q) /\ proc'[q] = c
  <2>1. proc' = [proc EXCEPT ![q] = c]
    BY <1>2
  <2> HIDE DEF c
  <2> QED
    BY <1>1, <1>4, <2>1, Moves DEF ChatInv
<1>6. At(q)' /\ proc'[q].at # "save"
  <2>1. At(q) /\ proc[q].at = "next"
    BY <1>1 DEF ChatInv, AllAt, DropDue
  <2> QED
    BY <1>4, <1>5, <2>1 DEF At
<1>7. UnreadCounted' /\ Loads'
  BY <1>1, <1>5, <1>6, CountsStand DEF DropDue, readHistory
<1>8. /\ scheduled' \in [Scheduled -> {Nobody} \cup Postings]
      /\ \A t \in Scheduled : Stays(t)
  BY <1>2, <1>3, Marking DEF ChatInv, Stays
<1>9. Apart' /\ AllOnce'
  <2>1. Holds(q)' \subseteq Holds(q)
    BY <1>4, <1>5 DEF Holds
  <2>2. /\ \A k, n \in proc[q].batch : k.item = n.item => k = n
        /\ \A n \in proc[q].batch : n.item # proc[q].item
    BY DEF ChatInv, Apart
  <2>3. /\ \A k, n \in proc'[q].batch : k.item = n.item => k = n
        /\ \A n \in proc'[q].batch : n.item # proc'[q].item
    BY <1>4, <1>5, <2>2
  <2>4. UNCHANGED postHistory /\ proc[q].at # "mark"
    BY DEF DropDue
  <2> QED
    BY <1>5, <1>8, <2>1, <2>3, <2>4, RunMoves
<1>10. ChatTyped'
  BY <1>5, <1>8 DEF conditions, ChatInv, ChatTyped, Alone, DropDue, readHistory, postHistory
<1> QED
  BY <1>1, <1>5, <1>6, <1>7, <1>9, <1>10, AtAll DEF ChatInv

\* The run ends.
LEMMA EndPollInv ==
  ASSUME ChatInv, NEW q \in Polls, EndPoll(q)
  PROVE  ChatInv'
<1>1. q \in Processes
  BY DEF Processes
<1>2. /\ Idle("idle") \in Carried /\ Idle("idle").at = "idle" /\ Idle("idle").item = Nobody
      /\ Idle("idle").batch = {}
  BY IdleCarried
<1>3. Alone(q) /\ proc'[q] = Idle("idle")
  BY <1>1, <1>2, Moves DEF ChatInv, EndPoll
<1>4. At(q)' /\ proc'[q].at # "save"
  BY <1>2, <1>3 DEF At
<1>5. Holds(q)' = {}
  BY <1>2, <1>3 DEF Holds
<1>6. Apart' /\ AllOnce'
  BY <1>2, <1>3, <1>5, AllStay, RunMoves DEF EndPoll
<1>7. UnreadCounted' /\ Loads'
  BY <1>1, <1>3, <1>4, CountsStand DEF EndPoll, readHistory
<1>8. ChatTyped'
  BY <1>3 DEF conditions, ChatInv, ChatTyped, Alone, EndPoll, readHistory, postHistory
<1> QED
  BY <1>1, <1>3, <1>4, <1>6, <1>7, <1>8, AtAll DEF ChatInv

\* The run marks what it has posted.
LEMMA MarkSentInv ==
  ASSUME ChatInv, NEW q \in Polls, MarkSent(q)
  PROVE  ChatInv'
<1>1. q \in Processes /\ Polls \subseteq Processes
  BY DEF Processes
<1>2. PICK s \in Scheduled : s = proc[q].item
  BY <1>1 DEF ChatInv, AllAt, At, MarkSent, ChatTyped, Carried
<1>3. Rested(q)
  BY <1>1, Finishes DEF ChatInv, MarkSent
<1>4. At(q)' /\ proc'[q].at # "save" /\ Alone(q) /\ proc'[q].item = Nobody /\ proc'[q].batch = proc[q].batch
  BY <1>3 DEF Rested, At
<1>5. \A o \in Polls \ {q} : proc'[o] = proc[o]
  BY <1>1, <1>4 DEF Alone
<1>6. /\ scheduled' \in [Scheduled -> {Nobody} \cup Postings]
      /\ \A t \in Scheduled \ {s} : scheduled'[t] = scheduled[t]
      /\ scheduled'[s] # Nobody => scheduled'[s].isSent
  BY <1>2, Marking DEF ChatInv, MarkSent
<1>7. Apart'
  <2>1. \A m \in proc[q].batch : m.item # Nobody
    BY <1>1, NamesAssumption DEF ChatInv, ChatTyped, Carried
  <2> QED
    BY <1>4, <1>5, <2>1 DEF ChatInv, Apart
<1>8. AllOnce'
  <2>1. posted' = posted /\ excused' = excused
    BY DEF MarkSent, postHistory
  <2>2. SUFFICES ASSUME NEW t \in Scheduled \ excused
                 PROVE  Once(t)'
    BY <2>1 DEF AllOnce
  <2>3. Once(t)
    BY DEF ChatInv, AllOnce
  <2>4. \A o \in Polls : (t \in Holds(o))' => t \in Holds(o)
    BY <1>4, <1>5 DEF Holds
  <2>5. CASE t = s
    <3>1. \A o \in Polls : (t \in Holds(o))' => (Marks(o, t) /\ o # q) \/ posted[t] # 1
      <4>1. q \in Polls /\ s \in Holds(q)
        BY <1>2, NamesAssumption DEF Holds
      <4>2. \A m \in proc[q].batch : m.item # s
        BY <1>2 DEF ChatInv, Apart
      <4>3. s \notin Holds(q)'
        BY <1>4, <4>2, NamesAssumption DEF Holds
      <4> QED
        BY <2>3, <2>4, <2>5, <4>1, <4>3 DEF Once
    <3>2. \A o \in Polls : Marks(o, t) /\ o # q => Marks(o, t)'
      BY <1>5 DEF Marks
    <3> QED
      BY <1>6, <2>1, <2>3, <2>4, <2>5, <3>1, <3>2 DEF Once
  <2>6. CASE t # s
    <3>1. \A o \in Polls : Marks(o, t) => Marks(o, t)'
      BY <1>2, <1>5, <2>6 DEF Marks
    <3> QED
      BY <1>6, <2>1, <2>3, <2>4, <2>6, <3>1 DEF Once
  <2> QED
    BY <2>5, <2>6
<1>9. UnreadCounted' /\ Loads'
  BY <1>1, <1>4, CountsStand DEF MarkSent, readHistory
<1>10. ChatTyped'
  BY <1>4, <1>6 DEF conditions, ChatInv, ChatTyped, Alone, MarkSent, readHistory, postHistory
<1> QED
  BY <1>1, <1>4, <1>7, <1>8, <1>9, <1>10, AtAll DEF ChatInv
-----------------------------------------------------------------------------
(* The server stops; the theorems about a conversation *)

\* What is in memory is gone: every run of the timer is over, and what one was about to mark
\* is excused.
LEMMA RestartServerInv ==
  ASSUME ChatInv, RestartServer
  PROVE  ChatInv'
<1>1. /\ Idle("idle") \in Carried /\ Idle("idle").at = "idle" /\ Idle("idle").item = Nobody
      /\ Idle("idle").batch = {} /\ Idle("end") \in Carried /\ Idle("end").at = "end"
  BY IdleCarried
<1>2. /\ proc' \in [Processes -> Carried]
      /\ \A q \in Polls : proc'[q] = Idle("idle")
      /\ \A p \in Processes : proc'[p].at \in {"idle", "begin", "end"}
  BY <1>1 DEF RestartServer, Processes, ChatInv, ChatTyped
<1>3. AllAt'
  BY <1>1, <1>2 DEF AllAt, At
<1>4. Loads'
  BY <1>2 DEF Loads
<1>5. Apart'
  BY <1>1, <1>2 DEF Apart
<1>6. \A q \in Polls : Holds(q)' = {}
  BY <1>1, <1>2 DEF Holds
<1>7. /\ excused' = excused \cup {proc[q].item : q \in {o \in Polls : proc[o].at = "mark"}}
      /\ UNCHANGED <<unread, isLocked, barred, isGone, crowded, scheduled, posted,
                      arrived, uncounted, loaded, cleared>>
  BY DEF RestartServer, readHistory, conditions
<1>8. AllOnce'
  <2>1. SUFFICES ASSUME NEW s \in Scheduled, s \notin excused'
                 PROVE  Once(s)'
    BY DEF AllOnce
  <2>2. Once(s)
    BY <1>7, <2>1 DEF ChatInv, AllOnce
  <2>3. \A q \in Polls : ~Marks(q, s)
    BY <1>7, <2>1 DEF Marks
  <2> QED
    BY <1>6, <1>7, <2>2, <2>3 DEF Once
<1>9. UnreadCounted'
  BY <1>7 DEF ChatInv, UnreadCounted
<1>10. ChatTyped'
  <2>1. \A q \in Polls : proc[q].at = "mark" => proc[q].item \in Scheduled
    BY DEF Processes, ChatInv, ChatTyped, Carried, AllAt, At
  <2>2. excused' \subseteq Scheduled
    BY <1>7, <2>1 DEF ChatInv, ChatTyped
  <2>3. restarts' \in 0 .. MaxRestarts /\ lock' \in [Users -> Processes \cup {Nobody}]
    BY RestartsAssumption DEF RestartServer, ChatInv, ChatTyped
  <2> QED
    BY <1>2, <1>7, <2>2, <2>3 DEF ChatInv, ChatTyped
<1> QED
  BY <1>3, <1>4, <1>5, <1>8, <1>9, <1>10 DEF ChatInv

\* A send, step by step
LEMMA SendStepInv ==
  ASSUME ChatInv, NEW p \in Processes, SendStep(p)
  PROVE  ChatInv'
BY CanSendInv, LockOwnRowInv, LockOtherRowInv, CommitSendInv, RollBackSendInv DEF SendStep

\* Every step of the chat keeps the invariant.
LEMMA ChatNextInv == ChatInv /\ [ChatNext]_chatVars => ChatInv'
<1> SUFFICES ASSUME ChatInv, [ChatNext]_chatVars
             PROVE  ChatInv'
  OBVIOUS
<1>1. ASSUME NEW r \in Requests, Arrive(r) \/ RequestStep(r)
      PROVE  ChatInv'
  <2>1. r \in Processes
    BY DEF Processes
  <2> QED
    BY <1>1, <2>1, BeginSendInv, LoadMemberInv, BeginPostInv, BeginSystemMessageInv, ScheduleMessageInv,
       BeginCancelInv, SendStepInv, SaveReadInv, CommitPostInv, DestroyScheduledInv DEF Arrive, RequestStep
<1>2. ASSUME NEW q \in Polls, PollStep(q)
      PROVE  ChatInv'
  <2>1. q \in Processes
    BY DEF Processes
  <2> QED
    BY <1>2, <2>1, StartPollInv, NextDueInv, DropDueInv, SendStepInv, MarkSentInv, EndPollInv DEF PollStep
<1>3. CASE UNCHANGED chatVars
  <2>1. /\ ChatTyped' /\ AllAt' /\ UnreadCounted' /\ Loads' /\ Apart'
    BY <1>3 DEF ChatInv, ChatTyped, AllAt, At, UnreadCounted, Loads, Apart, chatVars, conditions
  <2>2. AllOnce'
    BY <1>3 DEF ChatInv, AllOnce, Once, Holds, Marks, chatVars
  <2> QED
    BY <2>1, <2>2 DEF ChatInv
<1> QED
  BY <1>1, <1>2, <1>3, FallDueInv, ConditionsInv, RestartServerInv DEF ChatNext

\* A new conversation has no messages.
LEMMA ChatInitInv == ChatInit => ChatInv
<1> SUFFICES ASSUME ChatInit
             PROVE  ChatInv
  OBVIOUS
<1>1. \A at \in {"begin", "idle"} :
        /\ Idle(at) \in Carried /\ Idle(at).at = at /\ Idle(at).item = Nobody /\ Idle(at).batch = {}
  BY IdleCarried
<1>2. /\ proc \in [Processes -> Carried]
      /\ \A p \in Processes : /\ proc[p].at = IF p \in Polls THEN "idle" ELSE "begin"
                              /\ proc[p].item = Nobody /\ proc[p].batch = {}
  BY <1>1 DEF ChatInit
<1>3. ChatTyped
  <2>1. /\ unread = [u \in Users |-> 0] /\ arrived = [u \in Users |-> 0]
        /\ uncounted = [u \in Users |-> 0] /\ loaded = [u \in Users |-> 0]
        /\ cleared = [u \in Users |-> 0] /\ barred = {} /\ isGone = FALSE /\ crowded = FALSE
        /\ lock = [u \in Users |-> Nobody] /\ isLocked = FALSE /\ restarts = 0
        /\ scheduled = [s \in Scheduled |-> Nobody] /\ posted = [s \in Scheduled |-> 0] /\ excused = {}
    BY DEF ChatInit
  <2>2. restarts \in 0 .. MaxRestarts
    BY <2>1, RestartsAssumption
  <2>3. /\ unread \in [Users -> Nat] /\ arrived \in [Users -> Nat]
        /\ uncounted \in [Users -> Nat] /\ loaded \in [Users -> Nat] /\ cleared \in [Users -> Nat]
        /\ posted \in [Scheduled -> Nat]
    BY <2>1
  <2>4. /\ lock \in [Users -> Processes \cup {Nobody}] /\ isLocked \in BOOLEAN
        /\ scheduled \in [Scheduled -> {Nobody} \cup Postings]
    BY <2>1
  <2> QED
    BY <1>2, <2>1, <2>2, <2>3, <2>4 DEF ChatTyped
<1>4. AllAt /\ Loads
  BY <1>2 DEF AllAt, At, Loads
<1>5. UnreadCounted
  BY DEF ChatInit, UnreadCounted
<1>6. Apart /\ AllOnce
  <2>1. \A q \in Polls : Holds(q) = {} /\ proc[q].batch = {}
    BY <1>2 DEF Holds, Processes
  <2>2. \A s \in Scheduled : posted[s] = 0
    BY DEF ChatInit
  <2> QED
    BY <2>1, <2>2 DEF Apart, AllOnce, Once
<1> QED
  BY <1>3, <1>4, <1>5, <1>6 DEF ChatInv

\* The type invariant of the conversation follows.
LEMMA ChatTypes == ChatInv => ChatTypeOK
BY DEF ChatInv, ChatTyped, ChatTypeOK, Carried, Postings

\* Whatever sends and reads race, and whatever is rolled back, a member's counter counts the
\* messages of the others since they last read, each once, except polls, replies and system messages.
THEOREM Unread == ChatSpec => []UnreadCounted
<1>1. ChatInv => UnreadCounted
  BY DEF ChatInv
<1> QED
  BY <1>1, ChatInitInv, ChatNextInv, PTL DEF ChatSpec

\* Runs of the timer that overlap, sends that fail and restarts post a scheduled message
\* twice only when another run read it meanwhile, or the server stopped before the mark.
THEOREM PostedOnce == ChatSpec => []ScheduledOnce
<1>1. ChatInv => ScheduledOnce
  BY DEF ChatInv, AllOnce, Once, ScheduledOnce
<1> QED
  BY <1>1, ChatInitInv, ChatNextInv, PTL DEF ChatSpec
-----------------------------------------------------------------------------
(* The notification log: the inductive invariant *)

SenderJobs ==
    [at : {"begin", "idle", "batch", "attempt", "record", "reschedule", "end"},
     log : {None} \cup Instances, catches : 0 .. 2]

DeliveryTyped ==
    /\ rows \in [Notifications -> {None} \cup LogRows]
    /\ job \in [Senders -> SenderJobs]
    /\ batch \in [Ticks -> SUBSET Instances]
    /\ isRunning \in BOOLEAN
    /\ faults \in 0 .. MaxFaults
    /\ attempts \in [Notifications -> Nat]
    /\ delivered \in [Notifications -> Nat]
    /\ unrecorded \in [Notifications -> Nat]
    /\ broken \subseteq Notifications

\* A process holds an instance from its attempt until it has saved the outcome: the row says
\* pending with the count of the instance, or could not be created.  The attempt is one of
\* those counted, and only a delivery that is to be saved is not excused.
Held(p) ==
    /\ job[p].at \in {"attempt", "record", "reschedule"} <=> job[p].log # None
    /\ job[p].at \in {"attempt", "record"} => job[p].catches >= 1
    /\ p \in Ticks => job[p].at \in {"idle", "batch", "attempt", "record", "reschedule"}
    /\ p \notin Ticks => job[p].at \notin {"idle", "batch"}
    /\ job[p].log # None =>
         LET log == job[p].log
         IN  /\ IF log.isNew THEN p = log.n /\ rows[log.n] = None /\ log.retryCount = 0
                ELSE /\ rows[log.n] # None
                     /\ rows[log.n].status = "pending"
                     /\ rows[log.n].retryCount = log.retryCount
             /\ p \notin Ticks => log.n = p
             /\ job[p].at = "attempt" => attempts[log.n] <= log.retryCount
             /\ job[p].at \in {"attempt", "reschedule"} => delivered[log.n] <= unrecorded[log.n]

AllHeld == \A p \in Senders : Held(p)

\* A notification has one holder.
Sole ==
    \A p, q \in Senders :
        job[p].log # None /\ job[q].log # None /\ job[p].log.n = job[q].log.n => p = q

\* One tick runs; what it has fetched has failed and is as it was fetched.
Running ==
    /\ \A t \in Ticks : job[t].at # "idle" => isRunning
    /\ \A t, o \in Ticks : job[t].at # "idle" /\ job[o].at # "idle" => t = o
    /\ \A t \in Ticks : job[t].at = "idle" => batch[t] = {}

Fetched ==
    \A t \in Ticks : \A log \in batch[t] :
        /\ ~log.isNew /\ rows[log.n] # None
        /\ rows[log.n].status = "failed" /\ rows[log.n].retryCount = log.retryCount

\* What is recorded of a notification: the count of its row bounds its attempts, and a failed
\* row has no delivery but those that could not be saved.
Books(n) ==
    /\ attempts[n] <= 1 + (IF rows[n] = None THEN 0 ELSE rows[n].retryCount)
    /\ delivered[n] <= 1 + unrecorded[n]
    /\ rows[n] # None /\ rows[n].status = "failed" => delivered[n] <= unrecorded[n]
    /\ job[n].at = "begin" =>
         rows[n] = None /\ attempts[n] = 0 /\ delivered[n] = 0 /\ unrecorded[n] = 0

AllBooks == \A n \in Notifications : Books(n)

DeliveryInv == DeliveryTyped /\ AllHeld /\ Sole /\ Running /\ Fetched /\ AllBooks

-----------------------------------------------------------------------------
(* Steps of the delivery *)

\* Only this process moves, and only this notification's row and counts.
Only(p, n) ==
    /\ \A q \in Senders \ {p} : job'[q] = job[q]
    /\ \A m \in Notifications \ {n} :
         /\ rows'[m] = rows[m] /\ attempts'[m] = attempts[m]
         /\ delivered'[m] = delivered[m] /\ unrecorded'[m] = unrecorded[m]

\* Nobody but p has to do with n.
Unshared(p, n) ==
    /\ \A q \in Senders \ {p} : job[q].log # None => job[q].log.n # n
    /\ \A t \in Ticks : \A log \in batch'[t] : log \in batch[t] /\ log.n # n

\* Then all others stand.
LEMMA OthersStand ==
  ASSUME DeliveryInv, NEW p \in Senders, NEW n \in Notifications, Only(p, n), Unshared(p, n),
         p \notin Ticks => n = p,
         job'[p].log # None => job'[p].log.n = n,
         Held(p)', Books(n)'
  PROVE  AllHeld' /\ Sole' /\ Fetched' /\ AllBooks'
<1>1. AllHeld'
  <2>1. SUFFICES ASSUME NEW q \in Senders, q # p
                 PROVE  Held(q)'
    BY DEF AllHeld
  <2>2. Held(q) /\ job'[q] = job[q] /\ job[q].log \in {None} \cup Instances
    BY <2>1 DEF DeliveryInv, AllHeld, DeliveryTyped, SenderJobs, Only
  <2>3. job[q].log # None => job[q].log.n \in Notifications \ {n}
    BY <2>1, <2>2 DEF Unshared, Instances
  <2> QED
    BY <2>2, <2>3 DEF Held, Only
<1>2. Sole'
  BY DEF DeliveryInv, Sole, Only, Unshared
<1>3. Fetched'
  <2>1. SUFFICES ASSUME NEW t \in Ticks, NEW log \in batch'[t]
                 PROVE  /\ ~log.isNew /\ rows'[log.n] # None
                        /\ rows'[log.n].status = "failed" /\ rows'[log.n].retryCount = log.retryCount
    BY DEF Fetched
  <2>2. log \in batch[t] /\ log.n # n
    BY DEF Unshared
  <2>3. log.n \in Notifications
    BY <2>2 DEF DeliveryInv, DeliveryTyped, Instances
  <2> QED
    BY <2>2, <2>3 DEF DeliveryInv, Fetched, Only
<1>4. AllBooks'
  <2>1. SUFFICES ASSUME NEW m \in Notifications, m # n
                 PROVE  Books(m)'
    BY DEF AllBooks
  <2>2. Books(m) /\ m # p /\ m \in Senders
    BY <2>1, SendersAssumption DEF DeliveryInv, AllBooks, Senders
  <2> QED
    BY <2>1, <2>2 DEF Books, Only
<1> QED
  BY <1>1, <1>2, <1>3, <1>4

\* Whoever holds a notification has it alone: neither another process nor a batch has it.
LEMMA HolderAlone ==
  ASSUME DeliveryInv, NEW p \in Senders, job[p].log # None, NEW n \in Notifications, n = job[p].log.n,
         \A t \in Ticks : batch'[t] \subseteq batch[t]
  PROVE  Unshared(p, n) /\ (p \notin Ticks => n = p)
<1>1. Held(p)
  BY DEF DeliveryInv, AllHeld
<1>2. rows[n] = None \/ rows[n].status = "pending"
  BY <1>1 DEF Held
<1>3. \A t \in Ticks : \A log \in batch[t] : log.n # n
  BY <1>2 DEF DeliveryInv, Fetched
<1>4. \A q \in Senders \ {p} : job[q].log # None => job[q].log.n # n
  BY DEF DeliveryInv, Sole
<1> QED
  BY <1>1, <1>3, <1>4 DEF Unshared, Held

\* What a process holds
LEMMA Holding ==
  ASSUME DeliveryInv, NEW p \in Senders, job[p].at \in {"attempt", "record", "reschedule"}
  PROVE  /\ job[p] \in SenderJobs /\ job[p].log \in Instances /\ job[p].log # None
         /\ job[p].log.n \in Notifications
         /\ job[p].log.retryCount \in 0 .. MAX_WORKER_RETRIES
         /\ Held(p) /\ Books(job[p].log.n)
<1>1. Held(p) /\ job[p] \in SenderJobs
  BY DEF DeliveryInv, AllHeld, DeliveryTyped
<1>2. job[p].log # None /\ job[p].log \in Instances
  BY <1>1 DEF Held, SenderJobs
<1> QED
  BY <1>1, <1>2 DEF Instances, DeliveryInv, AllBooks

\* The types stand but for what a step changes.
LEMMA TypesStand ==
  ASSUME DeliveryInv, NEW p \in Senders, NEW j \in SenderJobs, job' = [job EXCEPT ![p] = j]
  PROVE  /\ job' \in [Senders -> SenderJobs] /\ job'[p] = j
         /\ \A q \in Senders \ {p} : job'[q] = job[q]
BY DEF DeliveryInv, DeliveryTyped

\* A process at rest
LEMMA RestTyped ==
  ASSUME NEW at \in {"begin", "idle", "batch", "attempt", "record", "reschedule", "end"}
  PROVE  /\ Rest(at) \in SenderJobs /\ Rest(at).at = at /\ Rest(at).log = None
BY DEF Rest, SenderJobs

\* A tick that stays in its batch, or a request, leaves the flag as it is.
LEMMA RunningStands ==
  ASSUME DeliveryInv, NEW p \in Senders, \A q \in Senders \ {p} : job'[q] = job[q],
         p \in Ticks => job[p].at # "idle" /\ job'[p].at # "idle",
         UNCHANGED <<batch, isRunning>>
  PROVE  Running'
<1>1. \A t \in Ticks : t \in Senders /\ (job'[t].at = "idle" <=> job[t].at = "idle")
  BY DEF Senders
<1> QED
  BY <1>1 DEF DeliveryInv, Running

\* A process that goes on, its tick still running
LEMMA Proceeds ==
  ASSUME DeliveryInv, NEW p \in Senders, Proceed(p),
         job[p].at \in {"attempt", "record", "reschedule"}
  PROVE  /\ job' \in [Senders -> SenderJobs] /\ job'[p].log = None
         /\ job'[p].at = (IF p \in Ticks THEN "batch" ELSE "end")
         /\ \A q \in Senders \ {p} : job'[q] = job[q]
         /\ Held(p)'
<1>1. Rest("batch") \in SenderJobs /\ Rest("end") \in SenderJobs
  BY RestTyped
<1>2. /\ job' \in [Senders -> SenderJobs]
      /\ job'[p] = Rest(IF p \in Ticks THEN "batch" ELSE "end")
      /\ \A q \in Senders \ {p} : job'[q] = job[q]
  BY <1>1, TypesStand DEF Proceed
<1>3. job'[p].log = None /\ job'[p].at = (IF p \in Ticks THEN "batch" ELSE "end")
  BY <1>2, RestTyped
<1> QED
  BY <1>2, <1>3 DEF Held

\* The outcome is saved and the holder goes on.
LEMMA OutcomeSaved ==
  ASSUME DeliveryInv, NEW p \in Senders, job[p].at \in {"record", "reschedule"},
         NEW status, NEW at, Save(job[p].log, status, at), Proceed(p),
         Row(status, job[p].log.retryCount, at) \in LogRows,
         status = "failed" => job[p].at = "reschedule",
         UNCHANGED <<batch, isRunning, faults, broken, attempts, delivered, unrecorded>>
  PROVE  DeliveryInv'
<1>1. /\ job[p] \in SenderJobs /\ job[p].log \in Instances /\ job[p].log # None
      /\ job[p].log.n \in Notifications /\ Held(p) /\ Books(job[p].log.n)
  BY Holding
<1>2. PICK n \in Notifications : n = job[p].log.n
  BY <1>1
<1>3. Unshared(p, n) /\ (p \notin Ticks => n = p)
  BY <1>1, <1>2, HolderAlone
<1>4. /\ rows' \in [Notifications -> {None} \cup LogRows]
      /\ rows'[n] = Row(status, job[p].log.retryCount, at) /\ rows'[n] # None
      /\ \A m \in Notifications \ {n} : rows'[m] = rows[m]
  <2>1. rows \in [Notifications -> {None} \cup LogRows]
    BY DEF DeliveryInv, DeliveryTyped
  <2>2. ~job[p].log.isNew => rows[n].retryCount = job[p].log.retryCount
    BY <1>1, <1>2 DEF Held
  <2>3. PICK row \in LogRows : row = Row(status, job[p].log.retryCount, at)
    OBVIOUS
  <2>4. rows' = [rows EXCEPT ![n] = row]
    BY <1>2, <2>2, <2>3 DEF Save
  <2> QED
    BY <2>1, <2>3, <2>4, SendersAssumption
<1>5. /\ job' \in [Senders -> SenderJobs] /\ job'[p].log = None
      /\ job'[p].at = (IF p \in Ticks THEN "batch" ELSE "end")
      /\ \A q \in Senders \ {p} : job'[q] = job[q]
      /\ Held(p)'
  BY Proceeds
<1>6. rows'[n].status = status /\ rows'[n].retryCount = job[p].log.retryCount
  BY <1>4 DEF Row
<1>7. Books(n)'
  <2>1. attempts'[n] <= 1 + rows'[n].retryCount
    <3>1. rows[n] # None => rows[n].retryCount = job[p].log.retryCount
      BY <1>1, <1>2 DEF Held
    <3>2. rows[n] = None => job[p].log.retryCount = 0
      BY <1>1, <1>2 DEF Held
    <3> QED
      BY <1>1, <1>2, <1>6, <3>1, <3>2 DEF Books
  <2>2. delivered'[n] <= 1 + unrecorded'[n] /\ (status = "failed" => delivered'[n] <= unrecorded'[n])
    BY <1>1, <1>2 DEF Books, Held
  <2>3. job'[n].at # "begin"
    <3>1. CASE n = p
      BY <1>5, <3>1
    <3>2. CASE n # p
      <4>1. n \in Senders /\ job'[n] = job[n] /\ ~job[p].log.isNew
        BY <1>1, <1>2, <1>5, <3>2 DEF Senders, Held
      <4>2. rows[n] # None
        BY <1>1, <1>2, <4>1 DEF Held
      <4> QED
        BY <1>1, <1>2, <4>1, <4>2 DEF Books
    <3> QED
      BY <3>1, <3>2
  <2> QED
    BY <1>4, <1>6, <2>1, <2>2, <2>3 DEF Books
<1>8. Only(p, n)
  BY <1>4, <1>5 DEF Only
<1>9. AllHeld' /\ Sole' /\ Fetched' /\ AllBooks'
  BY <1>3, <1>5, <1>7, <1>8, OthersStand
<1>10. Running'
  BY <1>1, <1>5, RunningStands DEF Held
<1>11. DeliveryTyped'
  BY <1>4, <1>5 DEF DeliveryInv, DeliveryTyped
<1> QED
  BY <1>9, <1>10, <1>11 DEF DeliveryInv
\* A row with a time, or without one
LEMMA RowTyped ==
  /\ \A c \in 0 .. MAX_WORKER_RETRIES : \A status \in {"pending"} \cup Final : Row(status, c, None) \in LogRows
  /\ \A c \in 0 .. MAX_WORKER_RETRIES : c < MAX_WORKER_RETRIES => Row("failed", c, "later") \in LogRows
BY DEF Row, LogRows, MAX_WORKER_RETRIES, Final

\* The row of a notification is created, or the send goes on without.
LEMMA CreateLogInv ==
  ASSUME DeliveryInv, NEW n \in Notifications, CreateLog(n)
  PROVE  DeliveryInv'
<1>1. PICK isNew \in BOOLEAN :
        /\ job' = [job EXCEPT ![n] = [at |-> "attempt", catches |-> 1,
                                      log |-> [n |-> n, retryCount |-> 0, isNew |-> isNew]]]
        /\ IF isNew THEN Fault /\ UNCHANGED rows
           ELSE rows' = [rows EXCEPT ![n] = Row("pending", 0, None)] /\ UNCHANGED faults
  BY DEF CreateLog
<1>2. /\ n \in Senders /\ n \notin Ticks /\ job[n].at = "begin"
      /\ UNCHANGED <<batch, isRunning, attempts, delivered, unrecorded, broken>>
  BY SendersAssumption DEF Senders, CreateLog, history
<1>3. rows[n] = None /\ attempts[n] = 0 /\ delivered[n] = 0 /\ unrecorded[n] = 0
  BY <1>2 DEF DeliveryInv, AllBooks, Books
<1> DEFINE log == [n |-> n, retryCount |-> 0, isNew |-> isNew]
           j == [at |-> "attempt", catches |-> 1, log |-> log]
<1>4. /\ log \in Instances /\ log.n = n /\ log.retryCount = 0 /\ log.isNew = isNew
      /\ j \in SenderJobs /\ j.at = "attempt" /\ j.log = log /\ j.catches = 1 /\ j.log # None
  BY SendersAssumption DEF Instances, SenderJobs, MAX_WORKER_RETRIES
<1>5. job' \in [Senders -> SenderJobs] /\ job'[n] = j /\ \A q \in Senders \ {n} : job'[q] = job[q]
  <2>1. job' = [job EXCEPT ![n] = j]
    BY <1>1
  <2> HIDE DEF j
  <2> QED
    BY <1>2, <1>4, <2>1, TypesStand
<1>6. /\ rows' \in [Notifications -> {None} \cup LogRows] /\ faults' \in 0 .. MaxFaults
      /\ \A m \in Notifications \ {n} : rows'[m] = rows[m]
      /\ IF isNew THEN rows'[n] = None
         ELSE rows'[n] # None /\ rows'[n].status = "pending" /\ rows'[n].retryCount = 0
  <2>1. rows \in [Notifications -> {None} \cup LogRows] /\ faults \in 0 .. MaxFaults
    BY DEF DeliveryInv, DeliveryTyped
  <2>2. PICK row \in LogRows : row = Row("pending", 0, None)
    BY RowTyped DEF MAX_WORKER_RETRIES
  <2>3. row # None /\ row.status = "pending" /\ row.retryCount = 0
    BY <2>2, SendersAssumption DEF Row
  <2>4. CASE isNew
    BY <1>1, <1>3, <2>1, <2>4, FaultsAssumption DEF Fault
  <2>5. CASE ~isNew
    BY <1>1, <2>1, <2>2, <2>3, <2>5
  <2> QED
    BY <2>4, <2>5
<1>7. Unshared(n, n)
  <2>1. \A q \in Senders \ {n} : job[q].log # None => job[q].log.n # n
    <3>1. SUFFICES ASSUME NEW q \in Senders \ {n}, job[q].log # None, job[q].log.n = n
                   PROVE  FALSE
      OBVIOUS
    <3>2. Held(q)
      BY DEF DeliveryInv, AllHeld
    <3> QED
      BY <1>3, <3>1, <3>2 DEF Held
  <2>2. \A t \in Ticks : \A l \in batch[t] : l.n # n
    BY <1>3 DEF DeliveryInv, Fetched
  <2> QED
    BY <1>2, <2>1, <2>2 DEF Unshared
<1>8. Held(n)'
  BY <1>2, <1>3, <1>4, <1>5, <1>6 DEF Held
<1>9. Books(n)'
  BY <1>2, <1>3, <1>4, <1>5, <1>6 DEF Books
<1>10. Only(n, n)
  BY <1>2, <1>5, <1>6 DEF Only
<1>11. AllHeld' /\ Sole' /\ Fetched' /\ AllBooks'
  <2>1. job'[n].log # None => job'[n].log.n = n
    BY <1>4, <1>5
  <2> QED
    BY <1>2, <1>7, <1>8, <1>9, <1>10, <2>1, OthersStand
<1>12. Running'
  BY <1>2, <1>5, RunningStands
<1>13. DeliveryTyped'
  BY <1>2, <1>5, <1>6 DEF DeliveryInv, DeliveryTyped
<1> QED
  BY <1>11, <1>12, <1>13 DEF DeliveryInv

\* A holder that goes on with its instance, or gives it up, without writing the row
LEMMA HolderMoves ==
  ASSUME DeliveryInv, NEW p \in Senders, NEW n \in Notifications,
         job[p].log # None, n = job[p].log.n,
         job' \in [Senders -> SenderJobs], \A q \in Senders \ {p} : job'[q] = job[q],
         job'[p].log = None \/ job'[p].log = job[p].log, job'[p].at # "begin",
         Held(p)', rows' = rows,
         \A m \in Notifications \ {n} :
            attempts'[m] = attempts[m] /\ delivered'[m] = delivered[m] /\ unrecorded'[m] = unrecorded[m],
         attempts' \in [Notifications -> Nat], delivered' \in [Notifications -> Nat],
         unrecorded' \in [Notifications -> Nat],
         attempts'[n] <= 1 + job[p].log.retryCount, delivered'[n] <= 1 + unrecorded'[n],
         \A t \in Ticks : batch'[t] \subseteq batch[t], batch' \in [Ticks -> SUBSET Instances],
         isRunning' \in BOOLEAN, faults' \in 0 .. MaxFaults, broken' \subseteq Notifications,
         Running'
  PROVE  DeliveryInv'
<1>1. Unshared(p, n) /\ (p \notin Ticks => n = p)
  BY HolderAlone
<1>2. Held(p) /\ Books(n)
  BY DEF DeliveryInv, AllHeld, AllBooks
<1>3. Only(p, n)
  BY DEF Only
<1>4. Books(n)'
  <2>1. attempts'[n] <= 1 + (IF rows[n] = None THEN 0 ELSE rows[n].retryCount)
    BY <1>2 DEF Held
  <2>2. rows[n] # None => rows[n].status # "failed"
    BY <1>2 DEF Held
  <2>3. job'[n].at # "begin"
    <3>1. CASE n # p
      <4>1. n \in Senders /\ job'[n] = job[n] /\ ~job[p].log.isNew
        BY <1>2, <3>1 DEF Senders, Held
      <4> QED
        BY <1>2, <4>1 DEF Books, Held
    <3> QED
      BY <3>1
  <2> QED
    BY <2>1, <2>2, <2>3 DEF Books
<1>5. AllHeld' /\ Sole' /\ Fetched' /\ AllBooks'
  BY <1>1, <1>3, <1>4, OthersStand
<1>6. DeliveryTyped'
  BY DEF DeliveryInv, DeliveryTyped
<1> QED
  BY <1>5, <1>6 DEF DeliveryInv

\* A holder at another step of the same instance, with as many chances to catch or one less
LEMMA Goes ==
  ASSUME DeliveryInv, NEW p \in Senders, NEW at \in {"record", "reschedule"}, NEW c \in 0 .. 2,
         job[p].log # None, job[p] \in SenderJobs,
         job' = [job EXCEPT ![p] = [job[p] EXCEPT !.at = at, !.catches = c]]
  PROVE  /\ job' \in [Senders -> SenderJobs] /\ \A q \in Senders \ {p} : job'[q] = job[q]
         /\ job'[p].at = at /\ job'[p].log = job[p].log /\ job'[p].catches = c
<1> DEFINE j == [job[p] EXCEPT !.at = at, !.catches = c]
<1>1. j \in SenderJobs /\ j.at = at /\ j.log = job[p].log /\ j.catches = c
  BY DEF SenderJobs
<1>2. job' = [job EXCEPT ![p] = j]
  OBVIOUS
<1> HIDE DEF j
<1> QED
  BY <1>1, <1>2, TypesStand

\* One attempt, whether or not the channel takes the message
LEMMA AttemptSendInv ==
  ASSUME DeliveryInv, NEW p \in Senders, AttemptSend(p)
  PROVE  DeliveryInv'
<1>1. /\ job[p] \in SenderJobs /\ job[p].log \in Instances /\ job[p].log # None
      /\ job[p].log.n \in Notifications /\ Held(p) /\ job[p].log.retryCount \in 0 .. MAX_WORKER_RETRIES
      /\ Books(job[p].log.n)
  BY Holding DEF AttemptSend
<1>2. PICK n \in Notifications : n = job[p].log.n
  BY <1>1
<1>3. PICK at \in {"record", "reschedule"} :
        /\ job' = [job EXCEPT ![p].at = at]
        /\ IF at = "record" THEN delivered' = [delivered EXCEPT ![n] = @ + 1] ELSE UNCHANGED delivered
  BY <1>2 DEF AttemptSend, Goto
<1>4. /\ attempts' = [attempts EXCEPT ![n] = @ + 1] /\ job[p].at = "attempt"
      /\ UNCHANGED <<rows, batch, isRunning, faults, unrecorded, broken>>
  BY <1>2 DEF AttemptSend
<1>5. /\ job' \in [Senders -> SenderJobs] /\ \A q \in Senders \ {p} : job'[q] = job[q]
      /\ job'[p].at = at /\ job'[p].log = job[p].log /\ job'[p].catches = job[p].catches
  <2>1. job[p].catches \in 0 .. 2
    BY <1>1 DEF SenderJobs
  <2>2. [job[p] EXCEPT !.at = at, !.catches = job[p].catches] = [job[p] EXCEPT !.at = at]
    BY <1>1 DEF SenderJobs
  <2>3. job' = [job EXCEPT ![p] = [job[p] EXCEPT !.at = at, !.catches = job[p].catches]]
    BY <1>3, <2>2
  <2>4. PICK c \in 0 .. 2 : c = job[p].catches
    BY <2>1
  <2> QED
    BY <1>1, <2>3, <2>4, Goes
<1>6. /\ attempts \in [Notifications -> Nat] /\ delivered \in [Notifications -> Nat]
      /\ unrecorded \in [Notifications -> Nat] /\ batch \in [Ticks -> SUBSET Instances]
      /\ isRunning \in BOOLEAN /\ faults \in 0 .. MaxFaults /\ broken \subseteq Notifications
  BY DEF DeliveryInv, DeliveryTyped
<1>7. /\ attempts[n] <= job[p].log.retryCount /\ delivered[n] <= unrecorded[n] /\ job[p].catches >= 1
  BY <1>1, <1>2, <1>4 DEF Held
<1>8. /\ attempts' \in [Notifications -> Nat] /\ delivered' \in [Notifications -> Nat]
      /\ attempts'[n] = attempts[n] + 1 /\ (at = "record" => delivered'[n] = delivered[n] + 1)
      /\ at = "reschedule" => delivered' = delivered
      /\ \A m \in Notifications \ {n} : attempts'[m] = attempts[m] /\ delivered'[m] = delivered[m]
  BY <1>3, <1>4, <1>6
<1>9. delivered'[n] <= 1 + unrecorded'[n] /\ (at = "reschedule" => delivered'[n] <= unrecorded'[n])
  BY <1>4, <1>6, <1>7, <1>8
<1>10. attempts'[n] <= 1 + job[p].log.retryCount
  BY <1>1, <1>6, <1>7, <1>8
<1>11. Held(p)'
  BY <1>1, <1>2, <1>4, <1>5, <1>7, <1>9 DEF Held
<1>12. Running'
  BY <1>1, <1>4, <1>5, RunningStands DEF Held
<1> QED
  BY <1>1, <1>2, <1>4, <1>5, <1>6, <1>8, <1>9, <1>10, <1>11, <1>12, HolderMoves
\* A delivery that cannot be saved: it is excused, and the handler catches.
LEMMA RecordSuccessInv ==
  ASSUME DeliveryInv, NEW p \in Senders, RecordSuccess(p)
  PROVE  DeliveryInv'
<1>1. /\ job[p] \in SenderJobs /\ job[p].log \in Instances /\ job[p].log # None
      /\ job[p].log.n \in Notifications /\ Held(p) /\ job[p].log.retryCount \in 0 .. MAX_WORKER_RETRIES
      /\ Books(job[p].log.n)
  BY Holding DEF RecordSuccess
<1>2. PICK n \in Notifications : n = job[p].log.n
  BY <1>1
<1>3. CASE Save(job[p].log, "success", None) /\ Proceed(p) /\ UNCHANGED <<faults, unrecorded>>
  <2>1. Row("success", job[p].log.retryCount, None) \in LogRows
    BY <1>1, RowTyped DEF Final
  <2>2. UNCHANGED <<batch, isRunning, faults, broken, attempts, delivered, unrecorded>>
    BY <1>3 DEF RecordSuccess
  <2> QED
    BY <1>3, <2>1, <2>2, OutcomeSaved DEF RecordSuccess
<1>4. CASE /\ Fault /\ UNCHANGED rows
           /\ unrecorded' = [unrecorded EXCEPT ![job[p].log.n] = @ + 1]
           /\ job' = [job EXCEPT ![p].at = "reschedule", ![p].catches = @ - 1]
  <2>1. /\ unrecorded' = [unrecorded EXCEPT ![n] = @ + 1] /\ job[p].at = "record"
        /\ UNCHANGED <<rows, batch, isRunning, attempts, delivered, broken>>
    BY <1>2, <1>4 DEF RecordSuccess
  <2>2. PICK c \in 0 .. 2 : c = job[p].catches - 1
    BY <1>1, <2>1 DEF Held, SenderJobs
  <2>3. job' = [job EXCEPT ![p] = [job[p] EXCEPT !.at = "reschedule", !.catches = c]]
    BY <1>4, <2>2
  <2>4. /\ job' \in [Senders -> SenderJobs] /\ \A q \in Senders \ {p} : job'[q] = job[q]
        /\ job'[p].at = "reschedule" /\ job'[p].log = job[p].log /\ job'[p].catches = c
    BY <1>1, <2>3, Goes
  <2>5. /\ attempts \in [Notifications -> Nat] /\ delivered \in [Notifications -> Nat]
        /\ unrecorded \in [Notifications -> Nat] /\ batch \in [Ticks -> SUBSET Instances]
        /\ isRunning \in BOOLEAN /\ faults \in 0 .. MaxFaults /\ broken \subseteq Notifications
    BY DEF DeliveryInv, DeliveryTyped
  <2>6. faults' \in 0 .. MaxFaults
    BY <1>4, <2>5, FaultsAssumption DEF Fault
  <2>7. /\ unrecorded' \in [Notifications -> Nat] /\ unrecorded'[n] = unrecorded[n] + 1
        /\ \A m \in Notifications \ {n} : unrecorded'[m] = unrecorded[m]
    BY <2>1, <2>5
  <2>8. delivered'[n] <= unrecorded'[n] /\ delivered'[n] <= 1 + unrecorded'[n]
    BY <1>1, <1>2, <2>1, <2>5, <2>7 DEF Books
  <2>9. attempts'[n] <= 1 + job[p].log.retryCount
    BY <1>1, <1>2, <2>1 DEF Books, Held
  <2>10. Held(p)'
    BY <1>1, <1>2, <2>1, <2>4, <2>8 DEF Held
  <2>11. Running'
    BY <1>1, <2>1, <2>4, RunningStands DEF Held
  <2> QED
    BY <1>1, <1>2, <2>1, <2>4, <2>5, <2>6, <2>7, <2>8, <2>9, <2>10, <2>11, HolderMoves
<1> QED
  BY <1>3, <1>4 DEF RecordSuccess

\* A process that gives its instance up without a row, its tick still running
LEMMA GivesUp ==
  ASSUME DeliveryInv, NEW p \in Senders, job[p].at = "reschedule", Fault, UNCHANGED <<rows, attempts, delivered, unrecorded>>,
         job' \in [Senders -> SenderJobs], \A q \in Senders \ {p} : job'[q] = job[q],
         job'[p].log = None \/ job'[p].log = job[p].log, job'[p].at # "begin", Held(p)', Running',
         \A t \in Ticks : batch'[t] \subseteq batch[t], batch' \in [Ticks -> SUBSET Instances],
         isRunning' \in BOOLEAN, broken' \subseteq broken \cup {job[p].log.n}
  PROVE  DeliveryInv'
<1>1. /\ job[p] \in SenderJobs /\ job[p].log \in Instances /\ job[p].log # None
      /\ job[p].log.n \in Notifications /\ Held(p) /\ job[p].log.retryCount \in 0 .. MAX_WORKER_RETRIES
      /\ Books(job[p].log.n)
  BY Holding
<1>2. PICK n \in Notifications : n = job[p].log.n
  BY <1>1
<1>3. /\ attempts \in [Notifications -> Nat] /\ delivered \in [Notifications -> Nat]
      /\ unrecorded \in [Notifications -> Nat] /\ faults \in 0 .. MaxFaults /\ broken \subseteq Notifications
  BY DEF DeliveryInv, DeliveryTyped
<1>4. faults' \in 0 .. MaxFaults /\ broken' \subseteq Notifications
  BY <1>1, <1>3, FaultsAssumption DEF Fault
<1>5. attempts'[n] <= 1 + job[p].log.retryCount /\ delivered'[n] <= 1 + unrecorded'[n]
  BY <1>1, <1>2 DEF Books, Held
<1> QED
  BY <1>1, <1>2, <1>3, <1>4, <1>5, HolderMoves

\* A retry is scheduled; a refused save is caught, or ends the batch.
LEMMA ScheduleRetryInv ==
  ASSUME DeliveryInv, NEW p \in Senders, ScheduleRetry(p)
  PROVE  DeliveryInv'
<1>1. /\ job[p] \in SenderJobs /\ job[p].log \in Instances /\ job[p].log # None
      /\ job[p].log.n \in Notifications /\ Held(p) /\ job[p].log.retryCount \in 0 .. MAX_WORKER_RETRIES
  BY Holding DEF ScheduleRetry
<1>2. job[p].at = "reschedule" /\ job[p].log.retryCount < MAX_WORKER_RETRIES
      /\ UNCHANGED <<attempts, delivered, unrecorded>>
  BY DEF ScheduleRetry, history
<1>3. /\ batch \in [Ticks -> SUBSET Instances] /\ isRunning \in BOOLEAN /\ job \in [Senders -> SenderJobs]
  BY DEF DeliveryInv, DeliveryTyped
<1>4. CASE Save(job[p].log, "failed", "later") /\ Proceed(p) /\ UNCHANGED <<batch, isRunning, faults, broken>>
  <2>1. Row("failed", job[p].log.retryCount, "later") \in LogRows
    BY <1>1, <1>2, RowTyped
  <2> QED
    BY <1>2, <1>4, <2>1, OutcomeSaved
<1>5. CASE /\ Fault /\ UNCHANGED rows /\ job[p].catches > 0
           /\ job' = [job EXCEPT ![p].catches = @ - 1] /\ UNCHANGED <<batch, isRunning, broken>>
  <2>1. PICK c \in 0 .. 2 : c = job[p].catches - 1
    BY <1>1, <1>5 DEF SenderJobs
  <2>2. [job[p] EXCEPT !.at = "reschedule", !.catches = c] = [job[p] EXCEPT !.catches = c]
    BY <1>1, <1>2 DEF SenderJobs
  <2>3. job' = [job EXCEPT ![p] = [job[p] EXCEPT !.at = "reschedule", !.catches = c]]
    BY <1>5, <2>1, <2>2
  <2>4. /\ job' \in [Senders -> SenderJobs] /\ \A q \in Senders \ {p} : job'[q] = job[q]
        /\ job'[p].at = "reschedule" /\ job'[p].log = job[p].log /\ job'[p].catches = c
    BY <1>1, <2>3, Goes
  <2>5. Held(p)'
    BY <1>1, <1>2, <1>5, <2>4 DEF Held
  <2>6. Running'
    BY <1>2, <1>5, <2>4, RunningStands
  <2> QED
    BY <1>2, <1>3, <1>5, <2>4, <2>5, <2>6, GivesUp
<1>6. CASE Fault /\ UNCHANGED rows /\ Escape(p)
  <2>1. Rest("idle") \in SenderJobs /\ Rest("end") \in SenderJobs
    BY RestTyped
  <2>2. /\ job' \in [Senders -> SenderJobs] /\ \A q \in Senders \ {p} : job'[q] = job[q]
        /\ job'[p] = Rest(IF p \in Ticks THEN "idle" ELSE "end")
    BY <1>3, <1>6, <2>1 DEF Escape
  <2>3. job'[p].log = None /\ job'[p].at = (IF p \in Ticks THEN "idle" ELSE "end")
    BY <2>2, RestTyped
  <2>4. Held(p)'
    BY <2>3 DEF Held
  <2>5. /\ batch' \in [Ticks -> SUBSET Instances]
        /\ \A t \in Ticks : batch'[t] = IF t = p THEN {} ELSE batch[t]
        /\ isRunning' \in BOOLEAN /\ isRunning' = (isRunning /\ p \notin Ticks)
    BY <1>3, <1>6 DEF Escape
  <2>6. Running'
    <3>1. CASE p \in Ticks
      <4>1. job[p].at # "idle" /\ Running
        BY <1>2 DEF DeliveryInv
      <4>2. \A t \in Ticks \ {p} : job[t].at = "idle" /\ batch[t] = {} /\ job'[t] = job[t]
        BY <2>2, <3>1, <4>1 DEF Running, Senders
      <4>3. \A t \in Ticks : job'[t].at = "idle" /\ batch'[t] = {}
        BY <2>3, <2>5, <3>1, <4>2
      <4> QED
        BY <4>3 DEF Running
    <3>2. CASE p \notin Ticks
      <4>1. \A t \in Ticks : job'[t] = job[t] /\ batch'[t] = batch[t]
        BY <2>2, <2>5, <3>2 DEF Senders
      <4> QED
        BY <2>5, <3>2, <4>1 DEF DeliveryInv, Running
    <3> QED
      BY <3>1, <3>2
  <2>7. broken' \subseteq broken \cup {job[p].log.n} /\ job'[p].at # "begin"
    BY <1>6, <2>3 DEF Escape
  <2>8. \A t \in Ticks : batch'[t] \subseteq batch[t]
    BY <2>5
  <2> QED
    BY <1>2, <1>6, <2>2, <2>3, <2>4, <2>5, <2>6, <2>7, <2>8, GivesUp
<1> QED
  BY <1>4, <1>5, <1>6 DEF ScheduleRetry

\* No retry remains.
LEMMA MarkExhaustedInv ==
  ASSUME DeliveryInv, NEW p \in Senders, MarkExhausted(p)
  PROVE  DeliveryInv'
<1>1. /\ job[p].at = "reschedule" /\ Proceed(p)
      /\ UNCHANGED <<batch, isRunning, attempts, delivered, unrecorded>>
  BY DEF MarkExhausted, history
<1>2. job[p].log.retryCount \in 0 .. MAX_WORKER_RETRIES
  BY <1>1, Holding
<1>3. CASE Save(job[p].log, "exhausted", None) /\ UNCHANGED <<faults, broken>>
  <2>1. Row("exhausted", job[p].log.retryCount, None) \in LogRows
    BY <1>2, RowTyped DEF Final
  <2> QED
    BY <1>1, <1>3, <2>1, OutcomeSaved
<1>4. CASE Fault /\ broken' = broken \cup {job[p].log.n} /\ UNCHANGED rows
  <2>1. /\ job' \in [Senders -> SenderJobs] /\ job'[p].log = None
        /\ job'[p].at = (IF p \in Ticks THEN "batch" ELSE "end")
        /\ \A q \in Senders \ {p} : job'[q] = job[q]
        /\ Held(p)'
    BY <1>1, Proceeds
  <2>2. Running'
    BY <1>1, <2>1, RunningStands
  <2>3. batch \in [Ticks -> SUBSET Instances] /\ isRunning \in BOOLEAN
    BY DEF DeliveryInv, DeliveryTyped
  <2> QED
    BY <1>1, <1>4, <2>1, <2>2, <2>3, GivesUp
<1> QED
  BY <1>3, <1>4 DEF MarkExhausted
\* A tick that holds nothing, before and after
LEMMA TickMoves ==
  ASSUME DeliveryInv, NEW t \in Ticks, job[t].log = None,
         job' \in [Senders -> SenderJobs], \A q \in Senders \ {t} : job'[q] = job[q],
         job'[t].log = None, job'[t].at \in {"idle", "batch"},
         UNCHANGED <<rows, attempts, delivered, unrecorded>>
  PROVE  AllHeld' /\ Sole' /\ AllBooks'
<1>1. t \in Senders /\ t \notin Notifications /\ Notifications \subseteq Senders
  BY SendersAssumption DEF Senders
<1>2. Held(t)'
  BY DEF Held
<1>3. \A q \in Senders \ {t} : Held(q)'
  BY DEF DeliveryInv, AllHeld, Held
<1>4. Sole'
  BY DEF DeliveryInv, Sole
<1>5. AllBooks'
  BY <1>1 DEF DeliveryInv, AllBooks, Books
<1> QED
  BY <1>2, <1>3, <1>4, <1>5 DEF AllHeld

\* A tick fetches what has failed and is due, unless another one runs.
LEMMA StartTickInv ==
  ASSUME DeliveryInv, NEW t \in Ticks, StartTick(t)
  PROVE  DeliveryInv'
<1> DEFINE due == {n \in Notifications :
                      /\ rows[n] # None
                      /\ rows[n].status = "failed"
                      /\ rows[n].retryCount < MAX_WORKER_RETRIES
                      /\ rows[n].nextRetryAt = "due"}
           fetched == {[n |-> n, retryCount |-> rows[n].retryCount, isNew |-> FALSE] : n \in due}
<1>1. /\ job[t].at = "idle" /\ ~isRunning /\ isRunning' = TRUE
      /\ batch' = [batch EXCEPT ![t] = fetched] /\ job' = [job EXCEPT ![t].at = "batch"]
      /\ UNCHANGED <<rows, faults, attempts, delivered, unrecorded, broken>>
  BY DEF StartTick, history
<1>2. t \in Senders /\ job[t] \in SenderJobs /\ Held(t) /\ Ticks \subseteq Senders
  BY DEF Senders, DeliveryInv, AllHeld, DeliveryTyped
<1>3. job[t].log = None
  BY <1>1, <1>2 DEF Held
<1> DEFINE j == [job[t] EXCEPT !.at = "batch"]
<1>4. j \in SenderJobs /\ j.at = "batch" /\ j.log = None
  BY <1>2, <1>3 DEF SenderJobs
<1>5. job' \in [Senders -> SenderJobs] /\ job'[t] = j /\ \A q \in Senders \ {t} : job'[q] = job[q]
  <2>1. job' = [job EXCEPT ![t] = j]
    BY <1>1
  <2> HIDE DEF j
  <2> QED
    BY <1>2, <1>4, <2>1, TypesStand
<1>6. \A n \in due : n \in Notifications /\ rows[n] \in LogRows /\ rows[n].retryCount \in 0 .. MAX_WORKER_RETRIES
  <2>1. SUFFICES ASSUME NEW n \in due
                 PROVE  rows[n] \in LogRows /\ rows[n].retryCount \in 0 .. MAX_WORKER_RETRIES
    OBVIOUS
  <2>2. rows[n] \in LogRows
    BY DEF DeliveryInv, DeliveryTyped
  <2> QED
    BY <2>2 DEF LogRows, MAX_WORKER_RETRIES
<1>7. /\ fetched \subseteq Instances
      /\ \A log \in fetched : /\ ~log.isNew /\ rows[log.n] # None
                              /\ rows[log.n].status = "failed" /\ rows[log.n].retryCount = log.retryCount
  <2>1. SUFFICES ASSUME NEW log \in fetched
                 PROVE  /\ log \in Instances /\ ~log.isNew /\ rows[log.n] # None
                        /\ rows[log.n].status = "failed" /\ rows[log.n].retryCount = log.retryCount
    OBVIOUS
  <2>2. PICK n \in due : log = [n |-> n, retryCount |-> rows[n].retryCount, isNew |-> FALSE]
    BY <2>1
  <2>3. n \in Notifications /\ rows[n] # None /\ rows[n].status = "failed"
    OBVIOUS
  <2> HIDE DEF due, fetched
  <2>4. PICK c \in 0 .. MAX_WORKER_RETRIES : c = rows[n].retryCount
    BY <1>6
  <2>5. log = [n |-> n, retryCount |-> c, isNew |-> FALSE]
    BY <2>2, <2>4
  <2> QED
    BY <2>3, <2>4, <2>5 DEF Instances
<1> HIDE DEF fetched, due
<1>8. /\ batch' \in [Ticks -> SUBSET Instances] /\ batch'[t] = fetched
      /\ \A o \in Ticks \ {t} : batch'[o] = batch[o]
  BY <1>1, <1>7 DEF DeliveryInv, DeliveryTyped
<1>9. Fetched'
  BY <1>1, <1>7, <1>8 DEF DeliveryInv, Fetched
<1>10. Running'
  <2>1. \A o \in Ticks \ {t} : job'[o].at = "idle" /\ batch'[o] = {}
    BY <1>1, <1>2, <1>5, <1>8 DEF DeliveryInv, Running
  <2> QED
    BY <1>1, <1>4, <1>5, <2>1 DEF Running
<1>11. AllHeld' /\ Sole' /\ AllBooks'
  BY <1>1, <1>3, <1>4, <1>5, TickMoves
<1>12. DeliveryTyped'
  BY <1>1, <1>5, <1>8 DEF DeliveryInv, DeliveryTyped
<1> QED
  BY <1>9, <1>10, <1>11, <1>12 DEF DeliveryInv

\* A log is marked pending with one retry more, which is the attempt that follows; or it is
\* left for a later tick.
LEMMA TakeLogInv ==
  ASSUME DeliveryInv, NEW t \in Ticks, TakeLog(t)
  PROVE  DeliveryInv'
<1>1. PICK log \in batch[t] :
        /\ batch' = [batch EXCEPT ![t] = @ \ {log}]
        /\ \/ /\ rows' = [rows EXCEPT ![log.n] = Row("pending", log.retryCount + 1, None)]
              /\ job' = [job EXCEPT ![t] = [at |-> "attempt", catches |-> 2,
                                            log |-> [log EXCEPT !.retryCount = @ + 1]]]
              /\ UNCHANGED faults
           \/ Fault /\ UNCHANGED <<rows, job>>
  BY DEF TakeLog
<1>2. /\ job[t].at = "batch" /\ UNCHANGED <<isRunning, attempts, delivered, unrecorded, broken>>
      /\ t \in Senders /\ job[t] \in SenderJobs /\ Held(t) /\ log \in Instances
  BY DEF TakeLog, history, Senders, DeliveryInv, AllHeld, DeliveryTyped
<1>3. PICK n \in Notifications : n = log.n
  BY <1>2 DEF Instances
<1>4. /\ rows[n] # None /\ rows[n].status = "failed" /\ rows[n].retryCount = log.retryCount
      /\ ~log.isNew
  BY <1>3 DEF DeliveryInv, Fetched
<1>5. /\ batch' \in [Ticks -> SUBSET Instances] /\ \A o \in Ticks : batch'[o] \subseteq batch[o]
      /\ batch'[t] = batch[t] \ {log} /\ \A o \in Ticks \ {t} : batch'[o] = batch[o]
  BY <1>1 DEF DeliveryInv, DeliveryTyped
<1>6. batch[t] # {} /\ \A o \in Ticks \ {t} : batch[o] = {}
  BY <1>2 DEF DeliveryInv, Running, Senders
<1>7. job'[t].at # "idle" /\ (\A q \in Senders \ {t} : job'[q] = job[q]) => Running'
  BY <1>2, <1>5, <1>6 DEF DeliveryInv, Running, Senders
<1>8. CASE Fault /\ UNCHANGED <<rows, job>>
  <2>1. faults' \in 0 .. MaxFaults
    BY <1>8, FaultsAssumption DEF Fault, DeliveryInv, DeliveryTyped
  <2>2. DeliveryTyped'
    BY <1>2, <1>5, <1>8, <2>1 DEF DeliveryInv, DeliveryTyped
  <2>3. AllHeld' /\ Sole' /\ AllBooks'
    BY <1>2, <1>8 DEF DeliveryInv, AllHeld, Held, Sole, AllBooks, Books
  <2>4. Fetched'
    BY <1>5, <1>8 DEF DeliveryInv, Fetched
  <2>5. Running'
    BY <1>2, <1>7, <1>8
  <2> QED
    BY <2>2, <2>3, <2>4, <2>5 DEF DeliveryInv
<1>9. CASE /\ rows' = [rows EXCEPT ![log.n] = Row("pending", log.retryCount + 1, None)]
           /\ job' = [job EXCEPT ![t] = [at |-> "attempt", catches |-> 2,
                                         log |-> [log EXCEPT !.retryCount = @ + 1]]]
           /\ UNCHANGED faults
  <2>1. PICK c \in 0 .. MAX_WORKER_RETRIES : c = log.retryCount + 1
    <3>1. rows[n] \in LogRows
      BY <1>3, <1>4 DEF DeliveryInv, DeliveryTyped
    <3>2. rows[n].retryCount \in 0 .. MAX_WORKER_RETRIES - 1
      BY <1>4, <3>1 DEF LogRows, Final
    <3> QED
      BY <1>4, <3>2 DEF MAX_WORKER_RETRIES
  <2> DEFINE held == [log EXCEPT !.retryCount = c]
             j == [at |-> "attempt", catches |-> 2, log |-> held]
  <2>2. /\ held \in Instances /\ held.n = n /\ held.retryCount = c /\ ~held.isNew /\ held # None
    <3>1. held \in Instances /\ held.n = n /\ held.retryCount = c /\ ~held.isNew
      BY <1>2, <1>3, <1>4, <2>1 DEF Instances
    <3> HIDE DEF held
    <3> QED
      BY <3>1, SendersAssumption
  <2>3. j \in SenderJobs /\ j.at = "attempt" /\ j.catches = 2 /\ j.log = held
    <3> HIDE DEF held
    <3> QED
      BY <2>2 DEF SenderJobs
  <2>4. job' = [job EXCEPT ![t] = j]
    BY <1>9, <2>1
  <2>5. job' \in [Senders -> SenderJobs] /\ job'[t] = j /\ \A q \in Senders \ {t} : job'[q] = job[q]
    <3> HIDE DEF j
    <3> QED
      BY <1>2, <2>3, <2>4, TypesStand
  <2>6. PICK row \in LogRows : row = Row("pending", c, None)
    BY RowTyped
  <2>7. row # None /\ row.status = "pending" /\ row.retryCount = c
    BY <2>6, SendersAssumption DEF Row
  <2>8. rows' = [rows EXCEPT ![n] = row]
    BY <1>3, <1>9, <2>1, <2>6
  <2>9. /\ rows' \in [Notifications -> {None} \cup LogRows] /\ rows'[n] = row
        /\ \A m \in Notifications \ {n} : rows'[m] = rows[m]
    BY <2>8 DEF DeliveryInv, DeliveryTyped
  <2> HIDE DEF held, j
  <2>10. Books(n) /\ attempts[n] \in Nat /\ log.retryCount \in Nat
    BY <1>2 DEF DeliveryInv, AllBooks, DeliveryTyped, Instances
  <2>11. attempts[n] <= c /\ delivered[n] <= unrecorded[n]
    BY <1>4, <2>1, <2>10 DEF Books
  <2>12. Held(t)'
    BY <1>2, <2>2, <2>3, <2>5, <2>7, <2>9, <2>11 DEF Held
  <2>13. Books(n)'
    <3>1. job'[n] = job[n] /\ job[n].at # "begin"
      BY <1>4, <2>5, <2>10, SendersAssumption DEF Books, Senders
    <3>2. attempts[n] <= 1 + c
      BY <2>10, <2>11
    <3> QED
      BY <1>2, <2>7, <2>9, <2>10, <2>11, <3>1, <3>2 DEF Books
  <2>14. Unshared(t, n)
    <3>1. \A q \in Senders : job[q].log # None => job[q].log.n # n
      BY <1>4 DEF DeliveryInv, AllHeld, Held
    <3>2. \A l \in batch[t] \ {log} : l.n # n
      <4>1. SUFFICES ASSUME NEW l \in batch[t], l.n = n
                     PROVE  l = log
        OBVIOUS
      <4>2. ~l.isNew /\ l.retryCount = log.retryCount /\ l \in Instances
        BY <1>3, <1>4, <4>1 DEF DeliveryInv, Fetched, DeliveryTyped
      <4> QED
        BY <1>2, <1>3, <1>4, <4>1, <4>2 DEF Instances
    <3> QED
      BY <1>5, <1>6, <3>1, <3>2 DEF Unshared
  <2>15. Only(t, n)
    BY <1>2, <2>5, <2>9 DEF Only
  <2>16. AllHeld' /\ Sole' /\ Fetched' /\ AllBooks'
    <3>1. job'[t].log # None => job'[t].log.n = n
      BY <2>2, <2>3, <2>5
    <3> QED
      BY <1>2, <2>12, <2>13, <2>14, <2>15, <3>1, OthersStand
  <2>17. Running'
    BY <1>7, <2>3, <2>5
  <2>18. DeliveryTyped'
    BY <1>2, <1>5, <1>9, <2>5, <2>9 DEF DeliveryInv, DeliveryTyped
  <2> QED
    BY <2>16, <2>17, <2>18 DEF DeliveryInv
<1> QED
  BY <1>1, <1>8, <1>9
\* The tick ends and another may start.
LEMMA EndTickInv ==
  ASSUME DeliveryInv, NEW t \in Ticks, EndTick(t)
  PROVE  DeliveryInv'
<1>1. /\ job[t].at = "batch" /\ batch[t] = {} /\ isRunning' = FALSE /\ job' = [job EXCEPT ![t] = Rest("idle")]
      /\ UNCHANGED <<rows, batch, faults, attempts, delivered, unrecorded, broken>>
  BY DEF EndTick, history
<1>2. t \in Senders /\ Held(t) /\ Ticks \subseteq Senders
  BY DEF Senders, DeliveryInv, AllHeld
<1>3. Rest("idle") \in SenderJobs /\ Rest("idle").at = "idle" /\ Rest("idle").log = None
  BY RestTyped
<1>4. /\ job' \in [Senders -> SenderJobs] /\ job'[t] = Rest("idle")
      /\ \A q \in Senders \ {t} : job'[q] = job[q]
  BY <1>1, <1>2, <1>3, TypesStand
<1>5. job[t].log = None
  BY <1>1, <1>2 DEF Held
<1>6. AllHeld' /\ Sole' /\ AllBooks'
  BY <1>1, <1>3, <1>4, <1>5, TickMoves
<1>7. Running'
  <2>1. \A o \in Ticks : job'[o].at = "idle" /\ batch'[o] = {}
    BY <1>1, <1>2, <1>3, <1>4 DEF DeliveryInv, Running
  <2> QED
    BY <2>1 DEF Running
<1>8. Fetched' /\ DeliveryTyped'
  BY <1>1, <1>4 DEF DeliveryInv, Fetched, DeliveryTyped
<1> QED
  BY <1>6, <1>7, <1>8 DEF DeliveryInv

\* The time of a retry comes.
LEMMA RetryFallsDueInv ==
  ASSUME DeliveryInv, NEW n \in Notifications, RetryFallsDue(n)
  PROVE  DeliveryInv'
<1>1. /\ rows[n] # None /\ rows[n].nextRetryAt = "later"
      /\ rows' = [rows EXCEPT ![n] = [rows[n] EXCEPT !.nextRetryAt = "due"]]
      /\ UNCHANGED <<job, batch, isRunning, faults, attempts, delivered, unrecorded, broken>>
  BY DEF RetryFallsDue, history
<1>2. rows[n] \in LogRows
  BY <1>1 DEF DeliveryInv, DeliveryTyped
<1> DEFINE row == [rows[n] EXCEPT !.nextRetryAt = "due"]
<1>3. /\ row \in LogRows /\ row.status = rows[n].status /\ row.retryCount = rows[n].retryCount
      /\ rows[n].status = "failed"
  <2>1. PICK old \in LogRows : old = rows[n]
    BY <1>2
  <2>2. CASE old \in [status : {"pending"} \cup Final, retryCount : 0 .. MAX_WORKER_RETRIES, nextRetryAt : {None}]
    <3>1. rows[n].nextRetryAt = None
      BY <2>1, <2>2
    <3> QED
      BY <1>1, <3>1, SendersAssumption
  <2>3. CASE old \in [status : {"failed"}, retryCount : 0 .. MAX_WORKER_RETRIES - 1,
                       nextRetryAt : {"later", "due"}]
    BY <2>1, <2>3 DEF LogRows
  <2> QED
    BY <2>1, <2>2, <2>3 DEF LogRows
<1>4. /\ rows' \in [Notifications -> {None} \cup LogRows] /\ rows'[n] = row /\ row # None
      /\ \A m \in Notifications \ {n} : rows'[m] = rows[m]
  <2> HIDE DEF row
  <2>1. rows' = [rows EXCEPT ![n] = row]
    BY <1>1 DEF row
  <2> QED
    BY <1>3, <2>1, SendersAssumption DEF DeliveryInv, DeliveryTyped
<1> HIDE DEF row
<1>5. \A m \in Notifications : /\ rows'[m] = None <=> rows[m] = None
                             /\ rows'[m].status = rows[m].status
                             /\ rows'[m].retryCount = rows[m].retryCount
  BY <1>1, <1>3, <1>4
<1>6. AllHeld'
  <2>1. SUFFICES ASSUME NEW p \in Senders
                 PROVE  Held(p)'
    BY DEF AllHeld
  <2>2. Held(p) /\ job' = job /\ (job[p].log # None => job[p].log.n \in Notifications)
    BY <1>1 DEF DeliveryInv, AllHeld, DeliveryTyped, SenderJobs, Instances
  <2> QED
    BY <1>1, <1>5, <2>2 DEF Held
<1>7. Sole' /\ Running'
  BY <1>1 DEF DeliveryInv, Sole, Running
<1>8. Fetched'
  <2>1. \A t \in Ticks : \A log \in batch[t] : log.n \in Notifications
    BY DEF DeliveryInv, DeliveryTyped, Instances
  <2> QED
    BY <1>1, <1>5, <2>1 DEF DeliveryInv, Fetched
<1>9. AllBooks'
  BY <1>1, <1>5 DEF DeliveryInv, AllBooks, Books
<1>10. DeliveryTyped'
  BY <1>1, <1>4 DEF DeliveryInv, DeliveryTyped
<1> QED
  BY <1>6, <1>7, <1>8, <1>9, <1>10 DEF DeliveryInv

\* The server stops: nobody holds anything any more, and what is pending stays so.
LEMMA RestartInv ==
  ASSUME DeliveryInv, Restart
  PROVE  DeliveryInv'
<1>1. /\ job' = [p \in Senders |-> IF p \in Ticks THEN Rest("idle")
                                  ELSE IF job[p].at = "begin" THEN job[p] ELSE Rest("end")]
      /\ batch' = [t \in Ticks |-> {}] /\ isRunning' = FALSE
      /\ broken' = broken \cup {job[p].log.n : p \in {q \in Senders : job[q].log # None}}
      /\ UNCHANGED <<rows, attempts, delivered, unrecorded>> /\ Fault
  BY DEF Restart, history
<1>2. /\ Rest("idle") \in SenderJobs /\ Rest("idle").at = "idle" /\ Rest("idle").log = None
      /\ Rest("end") \in SenderJobs /\ Rest("end").at = "end" /\ Rest("end").log = None
  BY RestTyped
<1>3. \A p \in Senders : Held(p) /\ job[p] \in SenderJobs
  BY DEF DeliveryInv, AllHeld, DeliveryTyped
<1>4. /\ job' \in [Senders -> SenderJobs]
      /\ \A p \in Senders : /\ job'[p].log = None
                            /\ job'[p].at = IF p \in Ticks THEN "idle"
                                            ELSE IF job[p].at = "begin" THEN "begin" ELSE "end"
  BY <1>1, <1>2, <1>3 DEF Held
<1>5. AllHeld' /\ Sole'
  BY <1>4 DEF AllHeld, Held, Sole
<1>6. Running' /\ Fetched'
  BY <1>1, <1>4 DEF Running, Fetched, Senders
<1>7. AllBooks'
  <2>1. \A n \in Notifications : n \in Senders /\ (job'[n].at = "begin" => job[n].at = "begin")
    BY <1>4, SendersAssumption DEF Senders
  <2> QED
    BY <1>1, <2>1 DEF DeliveryInv, AllBooks, Books
<1>8. DeliveryTyped'
  <2>1. \A p \in Senders : job[p].log # None => job[p].log.n \in Notifications
    BY <1>3 DEF SenderJobs, Instances
  <2>2. broken' \subseteq Notifications
    BY <1>1, <2>1 DEF DeliveryInv, DeliveryTyped
  <2>3. faults' \in 0 .. MaxFaults
    BY <1>1, FaultsAssumption DEF Fault, DeliveryInv, DeliveryTyped
  <2>4. batch' \in [Ticks -> SUBSET Instances] /\ isRunning' \in BOOLEAN
    BY <1>1
  <2> QED
    BY <1>1, <1>4, <2>2, <2>3, <2>4 DEF DeliveryInv, DeliveryTyped
<1> QED
  BY <1>5, <1>6, <1>7, <1>8 DEF DeliveryInv

-----------------------------------------------------------------------------
(* The theorems about the notification log *)

\* An empty log
LEMMA DeliveryInitInv == DeliveryInit => DeliveryInv
<1> SUFFICES ASSUME DeliveryInit
             PROVE  DeliveryInv
  OBVIOUS
<1>1. \A at \in {"begin", "idle"} : Rest(at) \in SenderJobs /\ Rest(at).at = at /\ Rest(at).log = None
  BY RestTyped
<1>2. /\ job \in [Senders -> SenderJobs]
      /\ \A p \in Senders : job[p].at = (IF p \in Ticks THEN "idle" ELSE "begin") /\ job[p].log = None
  BY <1>1 DEF DeliveryInit
<1>3. /\ rows = [n \in Notifications |-> None] /\ batch = [t \in Ticks |-> {}] /\ isRunning = FALSE
      /\ faults = 0 /\ attempts = [n \in Notifications |-> 0] /\ delivered = [n \in Notifications |-> 0]
      /\ unrecorded = [n \in Notifications |-> 0] /\ broken = {}
  BY DEF DeliveryInit
<1>4. DeliveryTyped
  <2>1. /\ attempts \in [Notifications -> Nat] /\ delivered \in [Notifications -> Nat]
        /\ unrecorded \in [Notifications -> Nat] /\ faults \in 0 .. MaxFaults
    BY <1>3, FaultsAssumption
  <2>2. rows \in [Notifications -> {None} \cup LogRows] /\ batch \in [Ticks -> SUBSET Instances]
    BY <1>3
  <2> QED
    BY <1>2, <1>3, <2>1, <2>2 DEF DeliveryTyped
<1>5. AllHeld /\ Sole
  BY <1>2 DEF AllHeld, Held, Sole
<1>6. Running /\ Fetched
  BY <1>2, <1>3 DEF Running, Fetched, Senders
<1>7. AllBooks
  <2>1. SUFFICES ASSUME NEW n \in Notifications
                 PROVE  Books(n)
    BY DEF AllBooks
  <2>2. rows[n] = None /\ attempts[n] = 0 /\ delivered[n] = 0 /\ unrecorded[n] = 0
    BY <1>3
  <2> QED
    BY <2>2 DEF Books
<1> QED
  BY <1>4, <1>5, <1>6, <1>7 DEF DeliveryInv

\* Every step of a request, of a tick or of the server keeps the invariant.
LEMMA DeliveryNextInv == DeliveryInv /\ [DeliveryNext]_deliveryVars => DeliveryInv'
<1> SUFFICES ASSUME DeliveryInv, [DeliveryNext]_deliveryVars
             PROVE  DeliveryInv'
  OBVIOUS
<1>1. ASSUME NEW p \in Senders, Step(p)
      PROVE  DeliveryInv'
  BY <1>1, AttemptSendInv, RecordSuccessInv, ScheduleRetryInv, MarkExhaustedInv DEF Step
<1>2. CASE UNCHANGED deliveryVars
  BY <1>2 DEF DeliveryInv, DeliveryTyped, AllHeld, Held, Sole, Running, Fetched, AllBooks, Books, deliveryVars
<1> QED
  BY <1>1, <1>2, CreateLogInv, RetryFallsDueInv, StartTickInv, TakeLogInv, EndTickInv, RestartInv
  DEF DeliveryNext

\* The invariant bounds the attempts and excuses the repeated deliveries.
LEMMA DeliveryCounts == DeliveryInv => DeliveryTypeOK /\ AttemptsBounded /\ DeliveredOnce
<1> SUFFICES ASSUME DeliveryInv
             PROVE  DeliveryTypeOK /\ AttemptsBounded /\ DeliveredOnce
  OBVIOUS
<1>1. DeliveryTypeOK
  BY DEF DeliveryInv, DeliveryTyped, DeliveryTypeOK, SenderJobs
<1>2. DeliveredOnce
  BY DEF DeliveryInv, AllBooks, Books, DeliveredOnce
<1>3. AttemptsBounded
  <2>1. SUFFICES ASSUME NEW n \in Notifications
                 PROVE  attempts[n] <= 1 + MAX_WORKER_RETRIES
    BY DEF AttemptsBounded
  <2>2. attempts[n] \in Nat /\ Books(n)
    BY DEF DeliveryInv, DeliveryTyped, AllBooks
  <2>3. rows[n] # None => rows[n].retryCount \in 0 .. MAX_WORKER_RETRIES
    <3>1. rows[n] # None => rows[n] \in LogRows
      BY DEF DeliveryInv, DeliveryTyped
    <3> QED
      BY <3>1 DEF LogRows, MAX_WORKER_RETRIES
  <2> QED
    BY <2>2, <2>3 DEF Books, MAX_WORKER_RETRIES
<1> QED
  BY <1>1, <1>2, <1>3

\* However often the server stops and saves are refused, the attempts of a notification are
\* bounded, and a second delivery has a success that could not be saved behind it.
THEOREM Delivery == DeliverySpec => [](AttemptsBounded /\ DeliveredOnce)
<1>1. DeliveryInv => AttemptsBounded /\ DeliveredOnce
  BY DeliveryCounts
<1> QED
  BY <1>1, DeliveryInitInv, DeliveryNextInv, PTL DEF DeliverySpec
-----------------------------------------------------------------------------
(* The gateway: presence *)

\* A user has had a socket in the company of every socket that is open.
PresenceInv ==
    /\ sockets \in [Sockets -> Companies \cup {"unused", "closed"}]
    /\ presence \in [People -> PresenceStatus]
    /\ said \in [People -> PresenceStatus]
    /\ told \in [Companies -> [People -> PresenceStatus]]
    /\ joined \in [People -> SUBSET Companies]
    /\ \A s \in Connected : sockets[s] \in joined[s[1]]
    /\ PresenceTrue

\* A socket is a tab of a user.
LEMMA SocketOwner == \A s \in Sockets : s[1] \in People /\ s[2] \in Tabs /\ s = <<s[1], s[2]>>
BY DEF Sockets

\* A tab that asks for a status tells the company it is open in.
LEMMA Announces ==
  ASSUME PresenceInv, NEW p \in People, NEW c \in Companies, NEW status \in PresenceStatus,
         Announce(p, c, status)
  PROVE  /\ presence' \in [People -> PresenceStatus] /\ told' \in [Companies -> [People -> PresenceStatus]]
         /\ presence'[p] = status /\ told'[c][p] = status
         /\ \A q \in People \ {p} : presence'[q] = presence[q] /\ \A d \in Companies : told'[d][q] = told[d][q]
<1>1. /\ presence' = [presence EXCEPT ![p] = status]
      /\ told' = [told EXCEPT ![c] = [told[c] EXCEPT ![p] = status]]
  BY DEF Announce
<1>2. told[c] \in [People -> PresenceStatus]
  BY DEF PresenceInv
<1>3. /\ [told[c] EXCEPT ![p] = status] \in [People -> PresenceStatus]
      /\ [told[c] EXCEPT ![p] = status][p] = status
      /\ \A q \in People \ {p} : [told[c] EXCEPT ![p] = status][q] = told[c][q]
  BY <1>2
<1>4. PICK f \in [People -> PresenceStatus] : f = [told[c] EXCEPT ![p] = status]
  BY <1>3
<1>5. /\ told' \in [Companies -> [People -> PresenceStatus]] /\ told'[c] = f
      /\ \A d \in Companies \ {c} : told'[d] = told[d]
  BY <1>1, <1>4 DEF PresenceInv
<1> QED
  BY <1>1, <1>3, <1>4, <1>5 DEF PresenceInv

\* A user whose tab has just asked for a status, in a company it has joined
LEMMA AskedTrue ==
  ASSUME PresenceInv, NEW p \in People, NEW c \in Companies, NEW status \in PresenceStatus,
         Announce(p, c, status), c \in joined'[p],
         \A q \in People \ {p} : /\ said'[q] = said[q] /\ joined'[q] = joined[q]
                                /\ SocketsOf(q)' = SocketsOf(q),
         status = IF SocketsOf(p)' = {} THEN "OFFLINE" ELSE said'[p]
  PROVE  PresenceTrue'
<1>1. /\ presence'[p] = status /\ told'[c][p] = status
      /\ \A q \in People \ {p} : presence'[q] = presence[q] /\ \A d \in Companies : told'[d][q] = told[d][q]
  BY Announces
<1>2. SUFFICES ASSUME NEW q \in People
               PROVE  /\ presence'[q] = IF SocketsOf(q)' = {} THEN "OFFLINE" ELSE said'[q]
                      /\ \A d \in Companies : joined'[q] \subseteq {d} => told'[d][q] = presence'[q]
  BY DEF PresenceTrue
<1>3. CASE q = p
  BY <1>1, <1>3
<1>4. CASE q # p
  BY <1>1, <1>4 DEF PresenceInv, PresenceTrue
<1> QED
  BY <1>3, <1>4

\* A new tab says ONLINE.
LEMMA ConnectPresence ==
  ASSUME PresenceInv, NEW s \in Sockets, NEW c \in Companies, Connect(s, c)
  PROVE  PresenceInv'
<1>1. PICK p \in People : p = s[1]
  BY SocketOwner
<1>2. /\ sockets' = [sockets EXCEPT ![s] = c] /\ joined' = [joined EXCEPT ![p] = @ \cup {c}]
      /\ said' = [said EXCEPT ![p] = "ONLINE"] /\ Announce(p, c, "ONLINE") /\ sockets[s] = "unused"
  BY <1>1 DEF Connect, Announce
<1>3. "ONLINE" \in PresenceStatus
  BY DEF PresenceStatus
<1>4. /\ sockets' \in [Sockets -> Companies \cup {"unused", "closed"}] /\ sockets'[s] = c
      /\ \A o \in Sockets \ {s} : sockets'[o] = sockets[o]
      /\ joined' \in [People -> SUBSET Companies] /\ joined'[p] = joined[p] \cup {c}
      /\ \A q \in People \ {p} : joined'[q] = joined[q]
      /\ said' \in [People -> PresenceStatus] /\ said'[p] = "ONLINE"
      /\ \A q \in People \ {p} : said'[q] = said[q]
  BY <1>2, <1>3 DEF PresenceInv
<1>5. Connected' = Connected \cup {s}
  BY <1>4 DEF Connected
<1>6. s \in SocketsOf(p)' /\ \A q \in People \ {p} : SocketsOf(q)' = SocketsOf(q)
  BY <1>1, <1>5 DEF SocketsOf
<1>7. PresenceTrue'
  <2>1. c \in joined'[p] /\ SocketsOf(p)' # {}
    BY <1>4, <1>6
  <2> QED
    BY <1>2, <1>3, <1>4, <1>6, <2>1, AskedTrue
<1>8. presence' \in [People -> PresenceStatus] /\ told' \in [Companies -> [People -> PresenceStatus]]
  BY <1>2, <1>3, Announces
<1>9. (\A o \in Connected : sockets[o] \in joined[o[1]])'
  <2>1. SUFFICES ASSUME NEW o \in Connected'
                 PROVE  sockets'[o] \in joined'[o[1]]
    OBVIOUS
  <2>2. o \in Sockets /\ o[1] \in People
    BY SocketOwner DEF Connected
  <2>3. CASE o = s
    BY <1>1, <1>4, <2>3
  <2>4. CASE o # s
    <3>1. sockets[o] \in joined[o[1]]
      BY <1>5, <2>4 DEF PresenceInv
    <3> QED
      BY <1>4, <2>2, <2>4, <3>1
  <2> QED
    BY <2>3, <2>4
<1> QED
  BY <1>4, <1>7, <1>8, <1>9 DEF PresenceInv

\* The last tab that closes makes its user OFFLINE.
LEMMA DisconnectPresence ==
  ASSUME PresenceInv, NEW s \in Sockets, Disconnect(s)
  PROVE  PresenceInv'
<1>1. PICK p \in People : p = s[1]
  BY SocketOwner
<1>2. s \in Connected /\ sockets' = [sockets EXCEPT ![s] = "closed"] /\ UNCHANGED <<joined, said>>
  BY DEF Disconnect
<1>3. /\ sockets' \in [Sockets -> Companies \cup {"unused", "closed"}] /\ sockets'[s] = "closed"
      /\ \A o \in Sockets \ {s} : sockets'[o] = sockets[o]
  BY <1>2 DEF PresenceInv
<1>4. Connected' = Connected \ {s}
  BY <1>3, SocketsAssumption DEF Connected
<1>5. /\ SocketsOf(p)' = SocketsOf(p) \ {s} /\ s \in SocketsOf(p)
      /\ \A q \in People \ {p} : SocketsOf(q)' = SocketsOf(q)
  BY <1>1, <1>2, <1>4 DEF SocketsOf
<1>6. (\A o \in Connected : sockets[o] \in joined[o[1]])'
  BY <1>2, <1>3, <1>4 DEF PresenceInv, Connected
<1>7. CASE SocketsOf(p) = {s}
  <2>1. PICK c \in Companies : c = sockets[s] /\ c \in joined[p]
    BY <1>1, <1>2 DEF PresenceInv, Connected
  <2>2. Announce(p, c, "OFFLINE") /\ "OFFLINE" \in PresenceStatus
    BY <1>1, <1>7, <2>1 DEF Disconnect, Announce, PresenceStatus
  <2>3. presence' \in [People -> PresenceStatus] /\ told' \in [Companies -> [People -> PresenceStatus]]
    BY <2>2, Announces
  <2>4. SocketsOf(p)' = {}
    BY <1>5, <1>7
  <2>5. PresenceTrue'
    BY <1>2, <1>5, <2>1, <2>2, <2>4, AskedTrue
  <2> QED
    BY <1>2, <1>3, <1>6, <2>3, <2>5 DEF PresenceInv
<1>8. CASE SocketsOf(p) # {s}
  <2>1. UNCHANGED <<presence, told>>
    BY <1>1, <1>8 DEF Disconnect
  <2>2. \A q \in People : SocketsOf(q)' = {} <=> SocketsOf(q) = {}
    BY <1>5, <1>8
  <2>3. PresenceTrue'
    BY <1>2, <2>1, <2>2 DEF PresenceInv, PresenceTrue
  <2> QED
    BY <1>2, <1>3, <1>6, <2>1, <2>3 DEF PresenceInv
<1> QED
  BY <1>7, <1>8

\* A tab asks for a status.
LEMMA SetPresencePresence ==
  ASSUME PresenceInv, NEW s \in Sockets, NEW status \in PresenceStatus, SetPresence(s, status)
  PROVE  PresenceInv'
<1>1. PICK p \in People : p = s[1]
  BY SocketOwner
<1>2. PICK c \in Companies : c = sockets[s] /\ c \in joined[p]
  BY <1>1 DEF SetPresence, PresenceInv, Connected
<1>3. /\ said' = [said EXCEPT ![p] = status] /\ Announce(p, c, status) /\ UNCHANGED <<sockets, joined>>
      /\ s \in SocketsOf(p)
  BY <1>1, <1>2 DEF SetPresence, Announce, SocketsOf
<1>4. /\ said' \in [People -> PresenceStatus] /\ said'[p] = status
      /\ \A q \in People \ {p} : said'[q] = said[q]
  BY <1>3 DEF PresenceInv
<1>5. \A q \in People : SocketsOf(q)' = SocketsOf(q)
  BY <1>3 DEF SocketsOf, Connected
<1>6. presence' \in [People -> PresenceStatus] /\ told' \in [Companies -> [People -> PresenceStatus]]
  BY <1>3, Announces
<1>7. PresenceTrue'
  <2>1. SocketsOf(p)' # {} /\ c \in joined'[p]
    BY <1>2, <1>3, <1>5
  <2> QED
    BY <1>3, <1>4, <1>5, <2>1, AskedTrue
<1> QED
  BY <1>3, <1>4, <1>6, <1>7 DEF PresenceInv, Connected

\* A restart closes every tab.
LEMMA RestartPresence ==
  ASSUME PresenceInv, RestartGateway
  PROVE  PresenceInv'
<1>1. /\ sockets' = [s \in Sockets |-> "unused"] /\ presence' = [p \in People |-> "OFFLINE"]
      /\ told' = [c \in Companies |-> presence'] /\ joined' = [p \in People |-> {}] /\ said' = presence'
  BY DEF RestartGateway
<1>2. "OFFLINE" \in PresenceStatus
  BY DEF PresenceStatus
<1>3. Connected' = {}
  BY <1>1, SocketsAssumption DEF Connected
<1>4. \A p \in People : SocketsOf(p)' = {}
  BY <1>3 DEF SocketsOf
<1>5. PresenceTrue'
  BY <1>1, <1>4 DEF PresenceTrue
<1>6. presence' \in [People -> PresenceStatus]
  BY <1>1, <1>2
<1> QED
  BY <1>1, <1>3, <1>5, <1>6 DEF PresenceInv
-----------------------------------------------------------------------------
(* The gateway: typing *)

\* The map holds for a user a timer that a tab of that user started.
Keyed ==
    /\ key \in [People -> Sockets \cup {Noone}]
    /\ \A p \in People : key[p] # Noone => key[p][1] = p
    /\ pending = {key[p] : p \in People} \ {Noone}

\* Typing is shown to subscribed tabs, and only while a timer of the user runs.
Displayed ==
    /\ shown \subseteq room \X People
    /\ \A view \in shown : view[1][1] # view[2] => key[view[2]] # Noone

TypingInv ==
    /\ room \subseteq Connected
    /\ asking \subseteq Sockets \X {"start", "stop"}
    /\ Keyed
    /\ Displayed

\* A handler stops the timer of a user that the map holds and puts another, or none, in
\* its place.
LEMMA TimerReplaced ==
  ASSUME Keyed, NEW p \in People, NEW k \in Sockets \cup {Noone}, k # Noone => k[1] = p,
         key' = [key EXCEPT ![p] = k], pending' = (pending \ TimersOf(p)) \cup ({k} \ {Noone})
  PROVE  Keyed' /\ key'[p] = k /\ \A q \in People \ {p} : key'[q] = key[q]
<1>1. /\ key' \in [People -> Sockets \cup {Noone}] /\ key'[p] = k
      /\ \A q \in People \ {p} : key'[q] = key[q]
  BY DEF Keyed
<1>2. \A q \in People : key'[q] # Noone => key'[q][1] = q
  BY <1>1 DEF Keyed
<1>3. pending' = {key'[q] : q \in People} \ {Noone}
  <2>1. ASSUME NEW s
        PROVE  s \in pending \ TimersOf(p) <=> s # Noone /\ \E q \in People \ {p} : s = key[q]
    BY DEF Keyed, TimersOf
  <2>2. ASSUME NEW s
        PROVE  s \in {key'[q] : q \in People} \ {Noone}
                  <=> \/ s \in {k} \ {Noone}
                      \/ s # Noone /\ \E q \in People \ {p} : s = key[q]
    BY <1>1
  <2> QED
    BY <2>1, <2>2
<1> QED
  BY <1>1, <1>2, <1>3 DEF Keyed

\* A handler that stops the timer of a user hides it from all subscribed tabs but its own.
LEMMA Hidden ==
  ASSUME TypingInv, NEW p \in People, NEW s \in Sockets, s[1] = p, shown' = HideTyping(p, room \ {s}),
         UNCHANGED room, \A q \in People \ {p} : key'[q] = key[q]
  PROVE  Displayed'
<1>1. shown' \subseteq shown /\ \A view \in shown' : view[2] = p => view[1] = s
  BY DEF HideTyping, TypingInv, Displayed
<1>2. SUFFICES ASSUME NEW view \in shown', view[1][1] # view[2]
               PROVE  key'[view[2]] # Noone
  BY <1>1 DEF TypingInv, Displayed
<1>3. view[2] \in People \ {p}
  BY <1>1, <1>2 DEF TypingInv, Displayed
<1> QED
  BY <1>1, <1>2, <1>3 DEF TypingInv, Displayed

\* A tab that opens is in no room yet.
LEMMA ConnectTyping ==
  ASSUME PresenceInv, TypingInv, NEW s \in Sockets, NEW c \in Companies, Connect(s, c)
  PROVE  TypingInv'
<1>1. Connected \subseteq Connected'
  BY SocketsAssumption DEF Connect, Connected, PresenceInv
<1> QED
  BY <1>1 DEF Connect, typingVars, TypingInv, Keyed, Displayed

\* A tab that closes is shown nothing more, and the last one stops the timer of its user.
LEMMA DisconnectTyping ==
  ASSUME PresenceInv, TypingInv, NEW s \in Sockets, Disconnect(s)
  PROVE  TypingInv'
<1>1. PICK p \in People : p = s[1]
  BY SocketOwner
<1>2. /\ room' = room \ {s} /\ UNCHANGED asking
      /\ sockets' = [sockets EXCEPT ![s] = "closed"]
  BY DEF Disconnect
<1>3. room' \subseteq Connected'
  BY <1>2 DEF TypingInv, Connected, PresenceInv
<1>4. CASE SocketsOf(p) = {s}
  <2>1. /\ key' = [key EXCEPT ![p] = Noone] /\ pending' = pending \ TimersOf(p)
        /\ shown' = HideTyping(p, IF key[p] = Noone THEN {} ELSE room) \ ({s} \X People)
    BY <1>1, <1>4 DEF Disconnect
  <2>2. Keyed' /\ \A q \in People \ {p} : key'[q] = key[q]
    <3>1. pending' = (pending \ TimersOf(p)) \cup ({Noone} \ {Noone})
      BY <2>1
    <3> QED
      BY <2>1, <3>1, TimerReplaced DEF TypingInv
  <2>3. shown' \subseteq shown /\ shown' \subseteq room' \X People
    BY <1>2, <2>1 DEF HideTyping, TypingInv, Displayed
  <2>4. ASSUME NEW view \in shown', view[1][1] # view[2]
        PROVE  key'[view[2]] # Noone
    <3>1. view \in shown /\ view[2] \in People /\ key[view[2]] # Noone /\ view \in room \X People
      BY <2>3, <2>4 DEF TypingInv, Displayed
    <3>2. view[2] # p
      BY <2>1, <3>1 DEF HideTyping
    <3> QED
      BY <2>2, <3>1, <3>2
  <2> QED
    BY <1>2, <1>3, <2>2, <2>3, <2>4 DEF TypingInv, Displayed
<1>5. CASE SocketsOf(p) # {s}
  <2>1. shown' = shown \ ({s} \X People) /\ UNCHANGED <<key, pending>>
    BY <1>1, <1>5 DEF Disconnect
  <2>2. shown' \subseteq room' \X People
    BY <1>2, <2>1 DEF TypingInv, Displayed
  <2> QED
    BY <1>2, <1>3, <2>1, <2>2 DEF TypingInv, Keyed, Displayed
<1> QED
  BY <1>4, <1>5

\* A tab joins the conversation, leaves it, or sends a typing message.
LEMMA RoomTyping ==
  ASSUME TypingInv, NEW s \in Sockets,
         Subscribe(s) \/ Unsubscribe(s) \/ \E what \in {"start", "stop"} : AskTyping(s, what)
  PROVE  TypingInv'
<1>1. CASE Subscribe(s)
  <2>1. room' = room \cup {s} /\ s \in Connected /\ UNCHANGED <<sockets, asking, key, pending, shown>>
    BY <1>1 DEF Subscribe, presenceVars
  <2> QED
    BY <2>1 DEF TypingInv, Keyed, Displayed, Connected
<1>2. CASE Unsubscribe(s)
  <2>1. /\ room' = room \ {s} /\ shown' = shown \ ({s} \X People)
        /\ UNCHANGED <<sockets, asking, key, pending>>
    BY <1>2 DEF Unsubscribe, presenceVars
  <2>2. shown' \subseteq room' \X People
    BY <2>1 DEF TypingInv, Displayed
  <2> QED
    BY <2>1, <2>2 DEF TypingInv, Keyed, Displayed, Connected
<1>3. CASE \E what \in {"start", "stop"} : AskTyping(s, what)
  BY <1>3 DEF AskTyping, presenceVars, TypingInv, Keyed, Displayed, Connected
<1> QED
  BY <1>1, <1>2, <1>3

\* A start that was checked replaces the timer of its user and shows it to the others.
LEMMA StartTypingTyping ==
  ASSUME TypingInv, NEW s \in Sockets, StartTyping(s)
  PROVE  TypingInv'
<1>1. PICK p \in People : p = s[1]
  BY SocketOwner
<1>2. /\ asking' \subseteq asking /\ UNCHANGED <<sockets, room>>
      /\ key' = [key EXCEPT ![p] = s] /\ pending' = (pending \ TimersOf(p)) \cup {s}
      /\ shown' = shown \cup ((room \ {s}) \X {p})
  BY <1>1 DEF StartTyping, presenceVars
<1>3. Keyed' /\ key'[p] = s /\ \A q \in People \ {p} : key'[q] = key[q]
  <2>1. pending' = (pending \ TimersOf(p)) \cup ({s} \ {Noone})
    BY <1>2, SocketsAssumption
  <2> QED
    BY <1>1, <1>2, <2>1, TimerReplaced DEF TypingInv
<1>4. shown' \subseteq room' \X People
  BY <1>2 DEF TypingInv, Displayed
<1>5. ASSUME NEW view \in shown', view[1][1] # view[2]
      PROVE  key'[view[2]] # Noone
  <2>1. CASE view[2] = p
    BY <1>3, <2>1, SocketsAssumption
  <2>2. CASE view[2] # p
    BY <1>2, <1>3, <1>5, <2>2 DEF TypingInv, Displayed
  <2> QED
    BY <2>1, <2>2
<1> QED
  BY <1>2, <1>3, <1>4, <1>5 DEF TypingInv, Displayed, Connected

\* A stop that was checked, or a timer that runs out, ends the typing of its user.
LEMMA StopTypingTyping ==
  ASSUME TypingInv, NEW s \in Sockets, StopTyping(s) \/ TypingTimeout(s)
  PROVE  TypingInv'
<1>1. PICK p \in People : p = s[1]
  BY SocketOwner
<1>2. /\ asking' \subseteq asking /\ UNCHANGED <<sockets, room>>
      /\ key' = [key EXCEPT ![p] = Noone] /\ shown' = HideTyping(p, room \ {s})
  BY <1>1 DEF StopTyping, TypingTimeout, presenceVars
<1>3. pending' = pending \ TimersOf(p)
  <2>1. CASE StopTyping(s)
    BY <1>1, <2>1 DEF StopTyping
  <2>2. CASE TypingTimeout(s)
    <3>1. s \in pending /\ pending' = pending \ {s}
      BY <2>2 DEF TypingTimeout
    <3>2. key[p] = s
      BY <1>1, <3>1 DEF TypingInv, Keyed
    <3> QED
      BY <1>1, <3>1, <3>2 DEF TimersOf
  <2> QED
    BY <2>1, <2>2
<1>4. Keyed' /\ \A q \in People \ {p} : key'[q] = key[q]
  <2>1. pending' = (pending \ TimersOf(p)) \cup ({Noone} \ {Noone})
    BY <1>3
  <2> QED
    BY <1>2, <2>1, TimerReplaced DEF TypingInv
<1>5. Displayed'
  BY <1>1, <1>2, <1>4, Hidden
<1> QED
  BY <1>2, <1>4, <1>5 DEF TypingInv, Connected

\* A restart forgets who types.
LEMMA RestartTyping ==
  ASSUME RestartGateway
  PROVE  TypingInv'
<1>1. /\ room' = {} /\ asking' = {} /\ pending' = {} /\ shown' = {}
      /\ key' = [p \in People |-> Noone]
  BY DEF RestartGateway
<1> QED
  BY <1>1 DEF TypingInv, Keyed, Displayed
-----------------------------------------------------------------------------
(* The gateway: read receipts *)

ReceiptsTyped ==
    /\ lastRead \in [People -> 0 .. MaxRead]
    /\ batched \in [People -> 0 .. MaxRead]
    /\ receipt \in [People -> 0 .. MaxRead]
    /\ marking \in [People -> SUBSET ((1 .. MaxRead) \X (0 .. MaxRead))]
    /\ saved \in [People -> SUBSET (1 .. MaxRead)]
    /\ armed \in BOOLEAN

\* The timer is set while a receipt is batched.
Waits == armed <=> \E p \in People : batched[p] # 0

\* What is batched, or else broadcast, is what the member row says.
Agrees(p) == lastRead[p] = IF batched[p] = 0 THEN receipt[p] ELSE batched[p]

\* A user whose requests never overlapped has at most one in flight: it has loaded what the
\* row still says, or its event will tell what the row says.
Follows(p) ==
    \/ marking[p] = {} /\ saved[p] = {} /\ Agrees(p)
    \/ \E m \in 1 .. MaxRead : marking[p] = {<<m, lastRead[p]>>} /\ saved[p] = {} /\ Agrees(p)
    \/ marking[p] = {} /\ saved[p] = {lastRead[p]}

ReceiptsInv ==
    /\ ReceiptsTyped
    /\ Waits
    /\ \A p \in People \ overlapped : Follows(p)

\* A user whose rows and batch stand still follows as before.
LEMMA FollowsStands ==
  ASSUME NEW p \in People, Follows(p), lastRead'[p] = lastRead[p], batched'[p] = batched[p],
         receipt'[p] = receipt[p], marking'[p] = marking[p], saved'[p] = saved[p]
  PROVE  Follows(p)'
BY DEF Follows, Agrees

\* A request loads the member row.
LEMMA LoadReaderReceipts ==
  ASSUME ReceiptsInv, NEW p \in People, NEW m \in 1 .. MaxRead, LoadReader(p, m)
  PROVE  ReceiptsInv'
<1>1. /\ marking' = [marking EXCEPT ![p] = @ \cup {<<m, lastRead[p]>>}]
      /\ overlapped' = IF marking[p] = {} /\ saved[p] = {} THEN overlapped ELSE overlapped \cup {p}
      /\ UNCHANGED <<lastRead, saved, batched, armed, receipt>>
  BY DEF LoadReader
<1>2. /\ marking' \in [People -> SUBSET ((1 .. MaxRead) \X (0 .. MaxRead))]
      /\ marking'[p] = marking[p] \cup {<<m, lastRead[p]>>}
      /\ \A q \in People \ {p} : marking'[q] = marking[q]
  <2>1. <<m, lastRead[p]>> \in (1 .. MaxRead) \X (0 .. MaxRead)
    BY DEF ReceiptsInv, ReceiptsTyped
  <2>2. marking[p] \cup {<<m, lastRead[p]>>} \in SUBSET ((1 .. MaxRead) \X (0 .. MaxRead))
    BY <2>1 DEF ReceiptsInv, ReceiptsTyped
  <2> QED
    BY <1>1, <2>2 DEF ReceiptsInv, ReceiptsTyped
<1>3. ASSUME NEW q \in People \ overlapped'
      PROVE  Follows(q)'
  <2>1. q \in People \ overlapped /\ Follows(q)
    BY <1>1 DEF ReceiptsInv
  <2>2. CASE q = p
    <3>1. marking[p] = {} /\ saved[p] = {} /\ Agrees(p)
      BY <1>1, <2>1, <2>2 DEF Follows
    <3>2. marking'[p] = {<<m, lastRead'[p]>>} /\ saved'[p] = {} /\ Agrees(p)'
      BY <1>1, <1>2, <3>1 DEF Agrees
    <3> QED
      BY <2>2, <3>2 DEF Follows
  <2>3. CASE q # p
    BY <1>1, <1>2, <2>1, <2>3, FollowsStands
  <2> QED
    BY <2>2, <2>3
<1> QED
  BY <1>1, <1>2, <1>3 DEF ReceiptsInv, ReceiptsTyped, Waits

\* A request saves the row, where it does not already say what it wants.
LEMMA SaveLastReadReceipts ==
  ASSUME ReceiptsInv, NEW p \in People, SaveLastRead(p)
  PROVE  ReceiptsInv'
<1>1. PICK mark \in marking[p] :
         /\ marking' = [marking EXCEPT ![p] = @ \ {mark}]
         /\ lastRead' = IF mark[1] = mark[2] THEN lastRead ELSE [lastRead EXCEPT ![p] = mark[1]]
         /\ saved' = [saved EXCEPT ![p] = @ \cup {mark[1]}]
  BY DEF SaveLastRead
<1>2. UNCHANGED <<batched, armed, receipt, overlapped>>
  BY DEF SaveLastRead
<1>3. PICK m \in 1 .. MaxRead, n \in 0 .. MaxRead : mark = <<m, n>>
  BY <1>1 DEF ReceiptsInv, ReceiptsTyped
<1>4. /\ marking' \in [People -> SUBSET ((1 .. MaxRead) \X (0 .. MaxRead))]
      /\ marking'[p] = marking[p] \ {<<m, n>>}
      /\ \A q \in People \ {p} : marking'[q] = marking[q]
  <2>1. marking[p] \ {<<m, n>>} \in SUBSET ((1 .. MaxRead) \X (0 .. MaxRead))
    BY DEF ReceiptsInv, ReceiptsTyped
  <2> QED
    BY <1>1, <1>3, <2>1 DEF ReceiptsInv, ReceiptsTyped
<1>5. /\ saved' \in [People -> SUBSET (1 .. MaxRead)] /\ saved'[p] = saved[p] \cup {m}
      /\ \A q \in People \ {p} : saved'[q] = saved[q]
  <2>1. saved[p] \cup {m} \in SUBSET (1 .. MaxRead)
    BY DEF ReceiptsInv, ReceiptsTyped
  <2> QED
    BY <1>1, <1>3, <2>1 DEF ReceiptsInv, ReceiptsTyped
<1>6. /\ lastRead' \in [People -> 0 .. MaxRead]
      /\ m # n => lastRead'[p] = m
      /\ m = n => lastRead'[p] = lastRead[p]
      /\ \A q \in People \ {p} : lastRead'[q] = lastRead[q]
  <2>1. m \in 0 .. MaxRead /\ mark[1] = m /\ mark[2] = n
    BY <1>3, TypedAssumption
  <2>2. lastRead' = IF m = n THEN lastRead ELSE [lastRead EXCEPT ![p] = m]
    BY <1>1, <2>1
  <2>3. lastRead \in [People -> 0 .. MaxRead]
    BY DEF ReceiptsInv, ReceiptsTyped
  <2>4. CASE m = n
    BY <2>2, <2>3, <2>4
  <2>5. CASE m # n
    BY <2>1, <2>2, <2>3, <2>5
  <2> QED
    BY <2>4, <2>5
<1>7. ASSUME NEW q \in People \ overlapped'
      PROVE  Follows(q)'
  <2>1. q \in People \ overlapped /\ Follows(q)
    BY <1>2 DEF ReceiptsInv
  <2>2. CASE q = p
    <3>1. marking[p] = {<<m, lastRead[p]>>} /\ saved[p] = {} /\ n = lastRead[p]
      BY <1>1, <1>3, <2>1, <2>2 DEF Follows
    <3>2. lastRead'[p] = m
      BY <1>6, <3>1
    <3>3. marking'[p] = {} /\ saved'[p] = {lastRead'[p]}
      BY <1>4, <1>5, <3>1, <3>2
    <3> QED
      BY <2>2, <3>3 DEF Follows
  <2>3. CASE q # p
    BY <1>2, <1>4, <1>5, <1>6, <2>1, <2>3, FollowsStands
  <2> QED
    BY <2>2, <2>3
<1> QED
  BY <1>2, <1>4, <1>5, <1>6, <1>7 DEF ReceiptsInv, ReceiptsTyped, Waits

\* The event of a request puts a receipt in the batch.
LEMMA BatchReceiptReceipts ==
  ASSUME ReceiptsInv, NEW p \in People, BatchReceipt(p)
  PROVE  ReceiptsInv'
<1>1. PICK m \in saved[p] :
         saved' = [saved EXCEPT ![p] = @ \ {m}] /\ batched' = [batched EXCEPT ![p] = m]
  BY DEF BatchReceipt
<1>2. armed' = TRUE /\ UNCHANGED <<lastRead, marking, receipt, overlapped>>
  BY DEF BatchReceipt
<1>3. m \in 1 .. MaxRead /\ m \in 0 .. MaxRead /\ m # 0
  BY TypedAssumption DEF ReceiptsInv, ReceiptsTyped
<1>4. /\ saved' \in [People -> SUBSET (1 .. MaxRead)] /\ saved'[p] = saved[p] \ {m}
      /\ \A q \in People \ {p} : saved'[q] = saved[q]
  <2>1. saved[p] \ {m} \in SUBSET (1 .. MaxRead)
    BY DEF ReceiptsInv, ReceiptsTyped
  <2> QED
    BY <1>1, <2>1 DEF ReceiptsInv, ReceiptsTyped
<1>5. /\ batched' \in [People -> 0 .. MaxRead] /\ batched'[p] = m
      /\ \A q \in People \ {p} : batched'[q] = batched[q]
  BY <1>1, <1>3 DEF ReceiptsInv, ReceiptsTyped
<1>6. Waits'
  BY <1>2, <1>3, <1>5 DEF Waits
<1>7. ASSUME NEW q \in People \ overlapped'
      PROVE  Follows(q)'
  <2>1. q \in People \ overlapped /\ Follows(q)
    BY <1>2 DEF ReceiptsInv
  <2>2. CASE q = p
    <3>1. marking[p] = {} /\ saved[p] = {lastRead[p]}
      BY <1>1, <2>1, <2>2 DEF Follows
    <3>2. marking'[p] = {} /\ saved'[p] = {} /\ Agrees(p)'
      BY <1>1, <1>2, <1>3, <1>4, <1>5, <3>1 DEF Agrees
    <3> QED
      BY <2>2, <3>2 DEF Follows
  <2>3. CASE q # p
    BY <1>2, <1>4, <1>5, <2>1, <2>3, FollowsStands
  <2> QED
    BY <2>2, <2>3
<1> QED
  BY <1>2, <1>4, <1>5, <1>6, <1>7 DEF ReceiptsInv, ReceiptsTyped

\* The batch is broadcast.
LEMMA FlushReceipts ==
  ASSUME ReceiptsInv, FlushReadReceipts
  PROVE  ReceiptsInv'
<1>1. /\ armed' = FALSE /\ batched' = [p \in People |-> 0]
      /\ receipt' = [p \in People |-> IF batched[p] = 0 THEN receipt[p] ELSE batched[p]]
      /\ UNCHANGED <<lastRead, marking, saved, overlapped>>
  BY DEF FlushReadReceipts
<1>2. 0 \in 0 .. MaxRead
  BY TypedAssumption
<1>3. ReceiptsTyped'
  BY <1>1, <1>2 DEF ReceiptsInv, ReceiptsTyped
<1>4. ASSUME NEW q \in People, Agrees(q)
      PROVE  Agrees(q)'
  BY <1>1, <1>4 DEF Agrees
<1>5. ASSUME NEW q \in People \ overlapped'
      PROVE  Follows(q)'
  <2>1. Follows(q)
    BY <1>1, <1>5 DEF ReceiptsInv
  <2> QED
    BY <1>1, <1>4, <2>1 DEF Follows
<1> QED
  BY <1>1, <1>3, <1>5 DEF ReceiptsInv, Waits

\* A restart loses what was in flight, and the clients load what the rows say.
LEMMA RestartReceipts ==
  ASSUME ReceiptsInv, RestartGateway
  PROVE  ReceiptsInv'
<1>1. /\ marking' = [p \in People |-> {}] /\ saved' = [p \in People |-> {}]
      /\ batched' = [p \in People |-> 0] /\ armed' = FALSE
      /\ receipt' = lastRead /\ UNCHANGED lastRead
  BY DEF RestartGateway
<1>2. 0 \in 0 .. MaxRead
  BY TypedAssumption
<1>3. ReceiptsTyped' /\ Waits'
  BY <1>1, <1>2 DEF ReceiptsInv, ReceiptsTyped, Waits
<1>4. \A q \in People : Follows(q)'
  BY <1>1 DEF Follows, Agrees
<1> QED
  BY <1>3, <1>4 DEF ReceiptsInv

\* What follows agrees once nothing is in flight.
LEMMA ReceiptsFollowed == ReceiptsInv => ReceiptsAgree
<1>1. SUFFICES ASSUME ReceiptsInv
               PROVE  ReceiptsAgree
  OBVIOUS
<1>2. batched = [p \in People |-> batched[p]]
  BY <1>1 DEF ReceiptsInv, ReceiptsTyped
<1>3. batched # [p \in People |-> 0] <=> \E p \in People : batched[p] # 0
  BY <1>2
<1>4. ASSUME NEW p \in People \ overlapped, marking[p] = {}, saved[p] = {}
      PROVE  Agrees(p)
  BY <1>1, <1>4 DEF ReceiptsInv, Follows
<1> QED
  BY <1>1, <1>3, <1>4 DEF ReceiptsAgree, ReceiptsInv, Waits, Agrees
-----------------------------------------------------------------------------
(* The gateway: every step *)

GatewayInv == PresenceInv /\ TypingInv /\ ReceiptsInv

\* Nobody is connected, types or reads when the server starts.
LEMMA GatewayInitInv == PresenceInit => GatewayInv
<1>1. SUFFICES ASSUME PresenceInit
               PROVE  GatewayInv
  OBVIOUS
<1>2. /\ sockets = [s \in Sockets |-> "unused"] /\ presence = [p \in People |-> "OFFLINE"]
      /\ told = [c \in Companies |-> presence] /\ joined = [p \in People |-> {}] /\ said = presence
  BY <1>1 DEF PresenceInit
<1>3. "OFFLINE" \in PresenceStatus
  BY DEF PresenceStatus
<1>4. Connected = {}
  BY <1>2, SocketsAssumption DEF Connected
<1>5. PresenceTrue
  BY <1>2, <1>4 DEF PresenceTrue, SocketsOf
<1>6. presence \in [People -> PresenceStatus]
  BY <1>2, <1>3
<1>7. PresenceInv
  BY <1>2, <1>4, <1>5, <1>6 DEF PresenceInv
<1>8. TypingInv
  BY <1>1 DEF PresenceInit, TypingInv, Keyed, Displayed
<1>9. /\ lastRead = [p \in People |-> 0] /\ batched = [p \in People |-> 0] /\ receipt = [p \in People |-> 0]
      /\ marking = [p \in People |-> {}] /\ saved = [p \in People |-> {}] /\ armed = FALSE
  BY <1>1 DEF PresenceInit
<1>10. 0 \in 0 .. MaxRead
  BY TypedAssumption
<1>11. ReceiptsTyped /\ Waits
  BY <1>9, <1>10 DEF ReceiptsTyped, Waits
<1>12. \A p \in People : Follows(p)
  BY <1>9 DEF Follows, Agrees
<1> QED
  BY <1>7, <1>8, <1>11, <1>12 DEF GatewayInv, ReceiptsInv

\* What the handlers of presence leave alone
LEMMA PresenceStands ==
  ASSUME PresenceInv, UNCHANGED presenceVars
  PROVE  PresenceInv'
BY DEF PresenceInv, presenceVars, PresenceTrue, SocketsOf, Connected

\* What the handlers of presence and of read receipts leave alone
LEMMA TypingStands ==
  ASSUME TypingInv, UNCHANGED <<sockets, typingVars>>
  PROVE  TypingInv'
BY DEF TypingInv, typingVars, Keyed, Displayed, Connected

\* What the handlers of presence and of typing leave alone
LEMMA ReceiptsStand ==
  ASSUME ReceiptsInv, UNCHANGED receiptVars
  PROVE  ReceiptsInv'
BY DEF ReceiptsInv, receiptVars, ReceiptsTyped, Waits, Follows, Agrees

\* The invariant of the gateway is inductive.
LEMMA GatewayNextInv == GatewayInv /\ [PresenceNext]_gatewayVars => GatewayInv'
<1>1. SUFFICES ASSUME GatewayInv, [PresenceNext]_gatewayVars
               PROVE  GatewayInv'
  OBVIOUS
<1>2. PresenceInv /\ TypingInv /\ ReceiptsInv
  BY <1>1 DEF GatewayInv
<1>3. ASSUME NEW s \in Sockets, NEW c \in Companies, Connect(s, c)
      PROVE  GatewayInv'
  <2>1. UNCHANGED receiptVars
    BY <1>3 DEF Connect
  <2> QED
    BY <1>2, <1>3, <2>1, ConnectPresence, ConnectTyping, ReceiptsStand DEF GatewayInv
<1>4. ASSUME NEW s \in Sockets, Disconnect(s)
      PROVE  GatewayInv'
  <2>1. UNCHANGED receiptVars
    BY <1>4 DEF Disconnect
  <2> QED
    BY <1>2, <1>4, <2>1, DisconnectPresence, DisconnectTyping, ReceiptsStand DEF GatewayInv
<1>5. ASSUME NEW s \in Sockets, NEW status \in PresenceStatus, SetPresence(s, status)
      PROVE  GatewayInv'
  <2>1. UNCHANGED <<sockets, typingVars, receiptVars>>
    BY <1>5 DEF SetPresence
  <2> QED
    BY <1>2, <1>5, <2>1, SetPresencePresence, TypingStands, ReceiptsStand DEF GatewayInv
<1>6. ASSUME NEW s \in Sockets,
             \/ Subscribe(s) \/ Unsubscribe(s)
             \/ \E what \in {"start", "stop"} : AskTyping(s, what)
      PROVE  GatewayInv'
  <2>1. UNCHANGED <<presenceVars, receiptVars>>
    BY <1>6 DEF Subscribe, Unsubscribe, AskTyping
  <2> QED
    BY <1>2, <1>6, <2>1, PresenceStands, RoomTyping, ReceiptsStand DEF GatewayInv
<1>7. ASSUME NEW s \in Sockets, TypingStep(s)
      PROVE  GatewayInv'
  <2>1. UNCHANGED <<presenceVars, receiptVars>>
    BY <1>7 DEF TypingStep, StartTyping, StopTyping, TypingTimeout
  <2>2. TypingInv'
    BY <1>2, <1>7, StartTypingTyping, StopTypingTyping DEF TypingStep
  <2> QED
    BY <1>2, <2>1, <2>2, PresenceStands, ReceiptsStand DEF GatewayInv
<1>8. ASSUME NEW p \in People, (\E m \in 1 .. MaxRead : LoadReader(p, m)) \/ ReadStep(p)
      PROVE  GatewayInv'
  <2>1. UNCHANGED <<presenceVars, typingVars>>
    BY <1>8 DEF LoadReader, ReadStep, SaveLastRead, BatchReceipt
  <2>2. UNCHANGED sockets
    BY <2>1 DEF presenceVars
  <2>3. ReceiptsInv'
    BY <1>2, <1>8, LoadReaderReceipts, SaveLastReadReceipts, BatchReceiptReceipts DEF ReadStep
  <2> QED
    BY <1>2, <2>1, <2>2, <2>3, PresenceStands, TypingStands DEF GatewayInv
<1>9. CASE FlushReadReceipts
  <2>1. UNCHANGED <<presenceVars, typingVars>>
    BY <1>9 DEF FlushReadReceipts
  <2>2. UNCHANGED sockets
    BY <2>1 DEF presenceVars
  <2> QED
    BY <1>2, <1>9, <2>1, <2>2, PresenceStands, TypingStands, FlushReceipts DEF GatewayInv
<1>10. CASE RestartGateway
  BY <1>2, <1>10, RestartPresence, RestartTyping, RestartReceipts DEF GatewayInv
<1>11. CASE UNCHANGED gatewayVars
  <2>1. UNCHANGED <<presenceVars, typingVars, receiptVars>>
    BY <1>11 DEF gatewayVars
  <2>2. UNCHANGED sockets
    BY <2>1 DEF presenceVars
  <2> QED
    BY <1>2, <2>1, <2>2, PresenceStands, TypingStands, ReceiptsStand DEF GatewayInv
<1> QED
  BY <1>1, <1>3, <1>4, <1>5, <1>6, <1>7, <1>8, <1>9, <1>10, <1>11 DEF PresenceNext

\* The invariant gives the types and what is shown of people.
LEMMA GatewayShows ==
  GatewayInv => PresenceTypeOK /\ PresenceTrue /\ TypingBacked /\ ReceiptsAgree
<1>1. SUFFICES ASSUME GatewayInv
               PROVE  PresenceTypeOK /\ PresenceTrue /\ TypingBacked /\ ReceiptsAgree
  OBVIOUS
<1>2. /\ sockets \in [Sockets -> Companies \cup {"unused", "closed"}]
      /\ presence \in [People -> PresenceStatus] /\ told \in [Companies -> [People -> PresenceStatus]]
      /\ joined \in [People -> SUBSET Companies] /\ PresenceTrue
  BY <1>1 DEF GatewayInv, PresenceInv
<1>3. room \subseteq Connected /\ asking \subseteq Sockets \X {"start", "stop"} /\ Keyed /\ Displayed
  BY <1>1 DEF GatewayInv, TypingInv
<1>4. pending \subseteq Sockets /\ shown \subseteq Connected \X People
  BY <1>3 DEF Keyed, Displayed
<1>5. ReceiptsTyped
  BY <1>1 DEF GatewayInv, ReceiptsInv
<1>6. PresenceTypeOK
  BY <1>2, <1>3, <1>4, <1>5 DEF PresenceTypeOK, Keyed, ReceiptsTyped
<1>7. TypingBacked
  BY <1>3 DEF TypingBacked, Keyed, Displayed
<1> QED
  BY <1>1, <1>2, <1>6, <1>7, ReceiptsFollowed DEF GatewayInv

\* However tabs open, type, close, are answered late or are lost in a restart, what the
\* gateway shows of people is true: presence, typing and read receipts.
THEOREM Presence == PresenceSpec => [](PresenceTrue /\ TypingBacked /\ ReceiptsAgree)
<1>1. GatewayInv => PresenceTrue /\ TypingBacked /\ ReceiptsAgree
  BY GatewayShows
<1> QED
  BY <1>1, GatewayInitInv, GatewayNextInv, PTL DEF PresenceSpec
-----------------------------------------------------------------------------
(* What a conversation keeps *)

\* What a request holds between two statements
TypingKinds ==
    {Still} \union [at : {"edit"}, row : Post, content : Contents] \union [at : {"erase", "close"}]
    \union [at : {"hide", "create"}, known : SUBSET Messages]
    \union [at : {"begin"}, voter : Voters, cast : SUBSET Ballots]
    \union [at : {"withdraw"}, cast : SUBSET Ballots, seen : SUBSET Ballots]
    \union [at : {"cast"}, cast : SUBSET Ballots, taken : SUBSET Ballots]

ContentTyped == ContentTypeOK /\ typing \in [Typists -> TypingKinds]

\* An edit has its version among those that are kept, a ballot is of one voter and not empty,
\* and what it withdraws is of that voter.
EditFits(t) == typing[t].at = "edit" => typing[t].row.version <= MaxVersion
BallotOf(t, v) ==
    /\ \E chosen \in (SUBSET Choices) \ {{}} : typing[t].cast = {v} \X chosen
    /\ typing[t].at = "begin" => typing[t].voter = v
    /\ typing[t].at = "withdraw" => typing[t].seen \subseteq {v} \X Choices
    /\ typing[t].at = "cast" => typing[t].taken \subseteq {v} \X Choices
Balloting == {"begin", "withdraw", "cast"}
BallotFits(t) == typing[t].at \in Balloting => \E v \in Voters : BallotOf(t, v)

\* What clearing has hidden stays hidden while it goes on.
Cleared(t) == typing[t].at = "create" => \A m \in typing[t].known : states[m] = "hidden"

ContentInv ==
    /\ ContentTyped /\ HiddenStays /\ VotersCount
    /\ \A t \in Typists : EditFits(t) /\ BallotFits(t) /\ Cleared(t)

\* What a request holds is of its kind.
LEMMA TypingTyped ==
  ASSUME ContentTyped, NEW t \in Typists
  PROVE  /\ typing[t].at = "edit" => typing[t].row \in Post /\ typing[t].content \in Contents
         /\ typing[t].at \in {"hide", "create"} =>
              typing[t] \in [at : {"hide", "create"}, known : SUBSET Messages] /\ typing[t].known \in SUBSET Messages
         /\ typing[t].at = "begin" => typing[t].voter \in Voters /\ typing[t].cast \in SUBSET Ballots
         /\ typing[t].at = "withdraw" =>
              /\ typing[t] \in [at : {"withdraw"}, cast : SUBSET Ballots, seen : SUBSET Ballots]
              /\ typing[t].cast \in SUBSET Ballots /\ typing[t].seen \in SUBSET Ballots
         /\ typing[t].at = "cast" => typing[t].cast \in SUBSET Ballots /\ typing[t].taken \in SUBSET Ballots
<1>1. typing[t] \in TypingKinds
  BY DEF ContentTyped
<1> QED
  BY <1>1 DEF TypingKinds, Still

\* A step of one request to what it holds next.
LEMMA OneTypes ==
  ASSUME ContentTyped, NEW t \in Typists, NEW next \in TypingKinds, Types(t, next)
  PROVE  /\ typing' \in [Typists -> TypingKinds]
         /\ typing'[t] = next
         /\ \A u \in Typists \ {t} : typing'[u] = typing[u]
BY DEF ContentTyped, Types

\* A request that leaves what is read and hidden, and the poll's votes, alone.
LEMMA KeepContent ==
  ASSUME ContentInv, ContentTypeOK', typing' \in [Typists -> TypingKinds],
         NEW t \in Typists, \A u \in Typists \ {t} : typing'[u] = typing[u],
         EditFits(t)', BallotFits(t)', Cleared(t)', HiddenStays', VotersCount',
         \A m \in Messages : states[m] = "hidden" => states'[m] = "hidden"
  PROVE  ContentInv'
<1>1. ASSUME NEW u \in Typists PROVE EditFits(u)' /\ BallotFits(u)' /\ Cleared(u)'
  <2>1. CASE u = t
    BY <2>1
  <2>2. CASE u # t
    <3>1. typing'[u] = typing[u] /\ EditFits(u) /\ BallotFits(u) /\ Cleared(u)
      BY <2>2 DEF ContentInv
    <3>2. Cleared(u)'
      BY <3>1, TypingTyped DEF Cleared, ContentInv
    <3> QED
      BY <3>1, <3>2 DEF EditFits, BallotFits, BallotOf
  <2> QED
    BY <2>1, <2>2
<1> QED
  BY <1>1 DEF ContentInv, ContentTyped

\* A step that only reads.
LEMMA ReadContent ==
  ASSUME ContentInv, NEW t \in Typists, NEW next \in TypingKinds, Types(t, next),
         UNCHANGED <<messageVars, readingVars, pollVars>>,
         EditFits(t)', BallotFits(t)', Cleared(t)'
  PROVE  ContentInv'
<1>1. ContentTypeOK' /\ HiddenStays' /\ VotersCount'
  BY DEF ContentInv, ContentTyped, ContentTypeOK, HiddenStays, VotersCount, messageVars, readingVars, pollVars
<1>2. UNCHANGED states
  BY DEF readingVars
<1> QED
  BY <1>1, <1>2, OneTypes, KeepContent DEF ContentInv

\* A request that holds nothing.
LEMMA StillFits ==
  ASSUME NEW t \in Typists, typing'[t] = Still
  PROVE  EditFits(t)' /\ BallotFits(t)' /\ Cleared(t)'
BY DEF Still, EditFits, BallotFits, Cleared, Balloting

\* Holding nothing is one of the kinds.
LEMMA StillKind == Still \in TypingKinds
BY DEF TypingKinds

\* Editing and erasing,
LEMMA MessageStep ==
  ASSUME ContentInv, NEW t \in Typists, LoadMessage(t) \/ SaveMessage(t)
  PROVE  ContentInv'
<1>1. CASE LoadToReword(t)
  <2>1. PICK content \in Contents : Types(t, [at |-> "edit", row |-> post, content |-> content])
    BY <1>1 DEF LoadToReword
  <2> DEFINE next == [at |-> "edit", row |-> post, content |-> content]
  <2>2. next \in TypingKinds /\ next.at = "edit" /\ next.row = post
    BY DEF TypingKinds, ContentInv, ContentTyped, ContentTypeOK
  <2>3. Types(t, next) /\ post.version <= MaxVersion
    BY <1>1, <2>1 DEF LoadToReword
  <2> HIDE DEF next
  <2>4. typing'[t] = next /\ UNCHANGED post
    BY <1>1, <2>2, <2>3, OneTypes DEF ContentInv, LoadToReword, messageVars
  <2>5. EditFits(t)' /\ BallotFits(t)' /\ Cleared(t)'
    BY <2>2, <2>3, <2>4 DEF EditFits, BallotFits, Cleared, Balloting
  <2> QED
    BY <1>1, <2>2, <2>3, <2>5, ReadContent DEF LoadToReword
<1>2. CASE LoadToErase(t)
  <2> DEFINE next == [at |-> "erase"]
  <2>1. next \in TypingKinds /\ next.at = "erase"
    BY DEF TypingKinds
  <2>2. Types(t, next)
    BY <1>2 DEF LoadToErase
  <2> HIDE DEF next
  <2>3. typing'[t] = next
    BY <2>1, <2>2, OneTypes DEF ContentInv
  <2>4. EditFits(t)' /\ BallotFits(t)' /\ Cleared(t)'
    BY <2>1, <2>3 DEF EditFits, BallotFits, Cleared, Balloting
  <2> QED
    BY <1>2, <2>1, <2>2, <2>4, ReadContent DEF LoadToErase
<1>3. ASSUME Sits(t), UNCHANGED <<readingVars, pollVars>>, post' \in Post,
             snapshots' \subseteq (1..MaxVersion) \X (Contents \union {Erased})
      PROVE  ContentInv'
  <2>1. typing' \in [Typists -> TypingKinds] /\ typing'[t] = Still /\ \A u \in Typists \ {t} : typing'[u] = typing[u]
    BY <1>3, OneTypes, StillKind DEF Sits, ContentInv
  <2>2. ContentTypeOK' /\ HiddenStays' /\ VotersCount' /\ UNCHANGED states
    BY <1>3 DEF ContentInv, ContentTyped, ContentTypeOK, HiddenStays, VotersCount, readingVars, pollVars
  <2> QED
    BY <2>1, <2>2, StillFits, KeepContent
<1>4. CASE SaveEdit(t)
  <2>1. typing[t].row \in Post /\ typing[t].content \in Contents /\ typing[t].row.version <= MaxVersion
    BY <1>4, TypingTyped DEF SaveEdit, ContentInv, EditFits
  <2>2. PICK row \in Post, said2 \in Contents : typing[t].row = row /\ typing[t].content = said2
    BY <2>1
  <2>3. row.version \in 1..MaxVersion /\ row.content \in Contents \union {Erased} /\ row.version + 1 \in 1..MaxVersion + 1
    BY <2>1, <2>2, ContentAssumption DEF Post
  <2>4. snapshots' = snapshots \union {<<row.version, row.content>>}
    BY <1>4, <2>2 DEF SaveEdit
  <2>5. snapshots' \subseteq (1..MaxVersion) \X (Contents \union {Erased})
    BY <2>3, <2>4 DEF ContentInv, ContentTyped, ContentTypeOK
  <2>6. PICK p \in Post : p = post
    BY DEF ContentInv, ContentTyped, ContentTypeOK
  <2>7. PICK c \in Contents \union {Erased} : c = IF said2 = row.content THEN p.content ELSE said2
    BY <2>6 DEF Post
  <2>8. post' = [p EXCEPT !.content = c, !.version = row.version + 1]
    BY <1>4, <2>2, <2>6, <2>7 DEF SaveEdit
  <2>9. [p EXCEPT !.content = c, !.version = row.version + 1] \in Post
    BY <2>3 DEF Post
  <2>10. post' \in Post
    BY <2>8, <2>9
  <2> QED
    BY <1>3, <1>4, <2>5, <2>10 DEF SaveEdit
<1>5. CASE SaveErase(t)
  <2>1. PICK p \in Post : p = post
    BY DEF ContentInv, ContentTyped, ContentTypeOK
  <2>2. post' = [p EXCEPT !.content = Erased, !.deleted = TRUE]
    BY <1>5, <2>1 DEF SaveErase
  <2>3. [p EXCEPT !.content = Erased, !.deleted = TRUE] \in Post
    BY DEF Post
  <2>4. post' \in Post
    BY <2>2, <2>3
  <2> QED
    BY <1>3, <1>5, <2>4 DEF SaveErase, ContentInv, ContentTyped, ContentTypeOK
<1> QED
  BY <1>1, <1>2, <1>4, <1>5 DEF LoadMessage, SaveMessage

\* reading and hiding,
LEMMA HidingStep ==
  ASSUME ContentInv, \E m \in Messages : MarkRead(m) \/ DeleteForMe(m)
  PROVE  ContentInv'
<1>1. PICK m \in Messages : MarkRead(m) \/ DeleteForMe(m)
  OBVIOUS
<1>2. UNCHANGED <<messageVars, pollVars, typing>>
  BY <1>1 DEF MarkRead, DeleteForMe
<1>3. states \in [Messages -> {"none", "read", "hidden"}] /\ hidden \subseteq Messages
  BY DEF ContentInv, ContentTyped, ContentTypeOK
<1>4. /\ states' \in [Messages -> {"none", "read", "hidden"}] /\ hidden' \subseteq Messages
      /\ \A n \in Messages : states[n] = "hidden" => states'[n] = "hidden"
      /\ \A n \in hidden' : n \in hidden \/ states'[n] = "hidden"
  BY <1>1, <1>3 DEF MarkRead, DeleteForMe
<1>5. HiddenStays'
  BY <1>3, <1>4 DEF ContentInv, HiddenStays
<1>6. ContentTyped' /\ VotersCount'
  BY <1>2, <1>4 DEF ContentInv, ContentTyped, ContentTypeOK, VotersCount, messageVars, pollVars
<1>7. ASSUME NEW t \in Typists PROVE EditFits(t)' /\ BallotFits(t)' /\ Cleared(t)'
  <2>1. EditFits(t)' /\ BallotFits(t)'
    BY <1>2 DEF ContentInv, EditFits, BallotFits, BallotOf
  <2>2. Cleared(t)'
    BY <1>2, <1>4, TypingTyped DEF ContentInv, Cleared
  <2> QED
    BY <2>1, <2>2
<1> QED
  BY <1>5, <1>6, <1>7 DEF ContentInv

\* clearing,
LEMMA ClearingStep ==
  ASSUME ContentInv, NEW t \in Typists, Clearing(t)
  PROVE  ContentInv'
<1>1. states \in [Messages -> {"none", "read", "hidden"}] /\ hidden \subseteq Messages
  BY DEF ContentInv, ContentTyped, ContentTypeOK
<1>2. CASE BeginClear(t)
  <2> DEFINE next == [at |-> "hide", known |-> {m \in Messages : states[m] # "none"}]
  <2>1. next \in TypingKinds /\ next.at = "hide"
    BY DEF TypingKinds
  <2>2. Types(t, next)
    BY <1>2 DEF BeginClear
  <2> HIDE DEF next
  <2>3. typing'[t] = next
    BY <2>1, <2>2, OneTypes DEF ContentInv
  <2>4. EditFits(t)' /\ BallotFits(t)' /\ Cleared(t)'
    BY <2>1, <2>3 DEF EditFits, BallotFits, Cleared, Balloting
  <2> QED
    BY <1>2, <2>1, <2>2, <2>4, ReadContent DEF BeginClear
<1>3. ASSUME UNCHANGED <<messageVars, pollVars>>, states' \in [Messages -> {"none", "read", "hidden"}],
             hidden' \subseteq Messages, \A m \in Messages : states[m] = "hidden" => states'[m] = "hidden",
             \A m \in hidden' : m \in hidden \/ states'[m] = "hidden",
             NEW next \in TypingKinds, Types(t, next), next = Still \/ (EditFits(t)' /\ BallotFits(t)' /\ Cleared(t)')
      PROVE  ContentInv'
  <2>1. typing' \in [Typists -> TypingKinds] /\ typing'[t] = next /\ \A u \in Typists \ {t} : typing'[u] = typing[u]
    BY <1>3, OneTypes DEF ContentInv
  <2>2. HiddenStays'
    BY <1>1, <1>3 DEF ContentInv, HiddenStays
  <2>3. ContentTypeOK' /\ VotersCount'
    BY <1>3 DEF ContentInv, ContentTyped, ContentTypeOK, VotersCount, messageVars, pollVars
  <2> QED
    BY <1>3, <2>1, <2>2, <2>3, StillFits, KeepContent
<1>4. CASE HideKnown(t)
  <2>1. PICK d \in [at : {"hide", "create"}, known : SUBSET Messages] : typing[t] = d
    BY <1>4, TypingTyped DEF HideKnown, ContentInv
  <2> DEFINE next == [d EXCEPT !.at = "create"]
  <2>2. next \in TypingKinds /\ next.at = "create" /\ next.known = d.known
    BY <2>1 DEF TypingKinds
  <2>3. Types(t, next) /\ states' = [m \in Messages |-> IF m \in d.known THEN "hidden" ELSE states[m]]
    BY <1>4, <2>1 DEF HideKnown
  <2> HIDE DEF next
  <2>4. typing'[t] = next
    BY <2>2, <2>3, OneTypes DEF ContentInv
  <2>5. EditFits(t)' /\ BallotFits(t)' /\ Cleared(t)'
    BY <2>1, <2>2, <2>3, <2>4 DEF EditFits, BallotFits, Cleared, Balloting
  <2> QED
    BY <1>1, <1>3, <1>4, <2>2, <2>3, <2>5 DEF HideKnown
<1>5. CASE HideOthers(t)
  <2>1. Types(t, Still) /\ UNCHANGED <<messageVars, pollVars>>
    BY <1>5 DEF HideOthers, Sits
  <2>2. CASE UNCHANGED readingVars
    <3>1. UNCHANGED <<states, hidden>>
      BY <2>2 DEF readingVars
    <3> QED
      BY <1>1, <1>3, <2>1, <3>1, StillKind
  <2>3. CASE /\ states' = [m \in Messages |-> IF m \in typing[t].known THEN states[m] ELSE "hidden"]
             /\ hidden' = Messages
    <3>1. \A m \in Messages : states'[m] = "hidden"
      BY <1>5, <2>3 DEF HideOthers, ContentInv, Cleared
    <3>2. states' \in [Messages -> {"none", "read", "hidden"}]
      BY <1>1, <2>3
    <3> QED
      BY <1>3, <2>1, <2>3, <3>1, <3>2, StillKind
  <2> QED
    BY <1>5, <2>2, <2>3 DEF HideOthers
<1> QED
  BY <1>2, <1>4, <1>5 DEF Clearing

\* and voting keep what holds whoever races.
LEMMA BallotStep ==
  ASSUME ContentInv, NEW t \in Typists, LoadForPoll(t) \/ Voting(t) \/ StopWriting(t)
  PROVE  ContentInv'
<1>1. CASE LoadPoll(t)
  <2>1. PICK v \in Voters, chosen \in (SUBSET Choices) \ {{}} :
           Types(t, [at |-> "begin", voter |-> v, cast |-> {v} \X chosen])
    BY <1>1 DEF LoadPoll
  <2> DEFINE next == [at |-> "begin", voter |-> v, cast |-> {v} \X chosen]
  <2>2. next \in TypingKinds /\ next.at = "begin" /\ next.voter = v /\ next.cast = {v} \X chosen
    BY DEF TypingKinds, Ballots
  <2>3. Types(t, next)
    BY <2>1
  <2> HIDE DEF next
  <2>4. typing'[t] = next
    BY <2>2, <2>3, OneTypes DEF ContentInv
  <2>5. BallotOf(t, v)'
    BY <2>2, <2>4 DEF BallotOf
  <2>6. EditFits(t)' /\ BallotFits(t)' /\ Cleared(t)'
    BY <2>2, <2>4, <2>5 DEF EditFits, BallotFits, Cleared
  <2> QED
    BY <1>1, <2>2, <2>3, <2>6, ReadContent DEF LoadPoll
<1>2. CASE BeginBallot(t)
  <2>1. PICK v \in Voters : BallotOf(t, v) /\ typing[t].voter = v
    BY <1>2 DEF BeginBallot, ContentInv, BallotFits, BallotOf, Balloting
  <2>2. PICK cast \in SUBSET Ballots : typing[t].cast = cast
    BY <1>2, TypingTyped DEF BeginBallot, ContentInv
  <2> DEFINE next == [at |-> "withdraw", cast |-> cast, seen |-> votes \intersect ({v} \X Choices)]
  <2>3. next \in TypingKinds /\ next.at = "withdraw" /\ next.cast = cast /\ next.seen \subseteq {v} \X Choices
    BY DEF TypingKinds, Ballots
  <2>4. Types(t, next)
    BY <1>2, <2>1, <2>2 DEF BeginBallot
  <2> HIDE DEF next
  <2>5. typing'[t] = next
    BY <2>3, <2>4, OneTypes DEF ContentInv
  <2>6. BallotOf(t, v)'
    BY <2>1, <2>2, <2>3, <2>5 DEF BallotOf
  <2>7. EditFits(t)' /\ BallotFits(t)' /\ Cleared(t)'
    BY <2>3, <2>5, <2>6 DEF EditFits, BallotFits, Cleared
  <2> QED
    BY <1>2, <2>3, <2>4, <2>7, ReadContent DEF BeginBallot
<1>3. CASE Withdraw(t)
  <2>1. PICK v \in Voters : BallotOf(t, v)
    BY <1>3 DEF Withdraw, ContentInv, BallotFits, Balloting
  <2>2. PICK cast \in SUBSET Ballots, seen \in SUBSET Ballots : typing[t].cast = cast /\ typing[t].seen = seen
    BY <1>3, TypingTyped DEF Withdraw, ContentInv
  <2> DEFINE next == [at |-> "cast", cast |-> cast, taken |-> seen]
  <2>3. next \in TypingKinds /\ next.at = "cast" /\ next.cast = cast /\ next.taken = seen
    BY DEF TypingKinds
  <2>4. Types(t, next)
    BY <1>3, <2>2 DEF Withdraw
  <2> HIDE DEF next
  <2>5. typing'[t] = next
    BY <2>3, <2>4, OneTypes DEF ContentInv
  <2>6. BallotOf(t, v)'
    BY <1>3, <2>1, <2>2, <2>3, <2>5 DEF BallotOf, Withdraw
  <2>7. EditFits(t)' /\ BallotFits(t)' /\ Cleared(t)'
    BY <2>3, <2>5, <2>6 DEF EditFits, BallotFits, Cleared
  <2> QED
    BY <1>3, <2>3, <2>4, <2>7, ReadContent DEF Withdraw
<1>4. ASSUME Sits(t), UNCHANGED <<messageVars, readingVars, votes, voted>>,
             poll' \in [multiple : BOOLEAN, closed : BOOLEAN], tallied' \subseteq Ballots
      PROVE  ContentInv'
  <2>1. typing' \in [Typists -> TypingKinds] /\ typing'[t] = Still /\ \A u \in Typists \ {t} : typing'[u] = typing[u]
    BY <1>4, OneTypes, StillKind DEF Sits, ContentInv
  <2>2. ContentTypeOK' /\ HiddenStays' /\ VotersCount' /\ UNCHANGED states
    BY <1>4 DEF ContentInv, ContentTyped, ContentTypeOK, HiddenStays, VotersCount, messageVars, readingVars
  <2> QED
    BY <2>1, <2>2, StillFits, KeepContent
<1>5. poll \in [multiple : BOOLEAN, closed : BOOLEAN] /\ tallied \subseteq Ballots /\ votes \subseteq Ballots /\ voted \subseteq Voters
  BY DEF ContentInv, ContentTyped, ContentTypeOK
<1>6. CASE Cast(t)
  <2>1. CASE Sits(t) /\ UNCHANGED <<votes, voted>>
    BY <1>4, <1>5, <1>6, <2>1 DEF Cast
  <2>2. CASE /\ votes' = (votes \ typing[t].taken) \union typing[t].cast
             /\ voted' = voted \union {b[1] : b \in typing[t].cast}
             /\ RowsGone(t, typing[t].taken)
    <3>1. PICK v \in Voters, chosen \in (SUBSET Choices) \ {{}} :
             typing[t].cast = {v} \X chosen /\ typing[t].taken \subseteq {v} \X Choices
      BY <1>6 DEF Cast, ContentInv, BallotFits, BallotOf, Balloting
    <3>2. PICK cast \in SUBSET Ballots, taken \in SUBSET Ballots : typing[t].cast = cast /\ typing[t].taken = taken
      BY <1>6, TypingTyped DEF Cast, ContentInv
    <3>3. cast = {v} \X chosen /\ taken \subseteq {v} \X Choices
      BY <3>1, <3>2
    <3>4. votes' = (votes \ taken) \union cast /\ voted' = voted \union {v}
      <4>1. PICK c \in chosen : TRUE
        OBVIOUS
      <4>2. <<v, c>> \in cast /\ <<v, c>>[1] = v /\ \A b \in cast : b[1] = v
        BY <3>3
      <4>3. {b[1] : b \in cast} = {v}
        BY <4>2
      <4> QED
        BY <2>2, <3>2, <4>3
    <3>5. votes' \subseteq Ballots /\ voted' \subseteq Voters
      BY <1>5, <3>4
    <3>6. VotersCount'
      <4> SUFFICES ASSUME NEW u \in voted' PROVE \E c \in Choices : <<u, c>> \in votes'
        BY DEF VotersCount
      <4>1. CASE u = v
        <5>1. PICK c \in chosen : TRUE
          OBVIOUS
        <5>2. <<v, c>> \in votes' /\ c \in Choices
          BY <3>3, <3>4
        <5> QED
          BY <4>1, <5>2
      <4>2. CASE u # v
        <5>1. PICK c \in Choices : <<u, c>> \in votes
          BY <3>4, <4>2 DEF ContentInv, VotersCount
        <5>2. <<u, c>> \notin taken
          BY <3>3, <4>2
        <5> QED
          BY <3>4, <5>1, <5>2
      <4> QED
        BY <4>1, <4>2
    <3>7. \A u \in Typists : \/ u = t /\ typing'[u] = Still
                             \/ u # t /\ typing[u].at # "withdraw" /\ typing'[u] = typing[u]
                             \/ u # t /\ typing[u].at = "withdraw" /\ typing'[u] = [typing[u] EXCEPT !.seen = @ \ taken]
      BY <2>2, <3>2 DEF RowsGone
    <3>8. ASSUME NEW u \in Typists
          PROVE  /\ typing'[u] \in TypingKinds
                 /\ EditFits(u)' /\ BallotFits(u)' /\ Cleared(u)'
      <4>1. CASE u = t /\ typing'[u] = Still
        BY <4>1, StillKind, StillFits
      <4>2. CASE typing'[u] = typing[u]
        <5>1. typing[u] \in TypingKinds /\ EditFits(u) /\ BallotFits(u) /\ Cleared(u) /\ UNCHANGED states
          BY <1>6 DEF ContentInv, ContentTyped, Cast, readingVars
        <5> QED
          BY <4>2, <5>1 DEF EditFits, BallotFits, BallotOf, Cleared
      <4>3. CASE typing[u].at = "withdraw" /\ typing'[u] = [typing[u] EXCEPT !.seen = @ \ taken]
        <5>1. PICK d \in [at : {"withdraw"}, cast : SUBSET Ballots, seen : SUBSET Ballots] : typing[u] = d
          BY <4>3, TypingTyped DEF ContentInv
        <5>2. typing'[u] = [d EXCEPT !.seen = @ \ taken]
          BY <4>3, <5>1
        <5>3. /\ typing'[u] \in [at : {"withdraw"}, cast : SUBSET Ballots, seen : SUBSET Ballots]
              /\ typing'[u].cast = d.cast /\ typing'[u].seen \subseteq d.seen
          BY <5>2
        <5>4. PICK w \in Voters : BallotOf(u, w)
          BY <4>3 DEF ContentInv, BallotFits, Balloting
        <5>5. typing'[u].at = "withdraw"
          BY <5>3
        <5>6. BallotOf(u, w)'
          BY <4>3, <5>1, <5>3, <5>4, <5>5 DEF BallotOf
        <5> QED
          BY <5>3, <5>5, <5>6 DEF TypingKinds, EditFits, BallotFits, Cleared
      <4> QED
        BY <3>7, <4>1, <4>2, <4>3
    <3>9. typing' \in [Typists -> TypingKinds]
      BY <2>2, <3>8 DEF RowsGone
    <3>10. ContentTypeOK' /\ HiddenStays'
      BY <1>6, <3>5 DEF Cast, ContentInv, ContentTyped, ContentTypeOK, HiddenStays, messageVars, readingVars
    <3> QED
      BY <3>6, <3>8, <3>9, <3>10 DEF ContentInv, ContentTyped
  <2> QED
    BY <1>6, <2>1, <2>2 DEF Cast
<1>7. CASE LoadToClose(t)
  <2> DEFINE next == [at |-> "close"]
  <2>1. next \in TypingKinds /\ next.at = "close"
    BY DEF TypingKinds
  <2>2. Types(t, next)
    BY <1>7 DEF LoadToClose
  <2> HIDE DEF next
  <2>3. typing'[t] = next
    BY <2>1, <2>2, OneTypes DEF ContentInv
  <2>4. EditFits(t)' /\ BallotFits(t)' /\ Cleared(t)'
    BY <2>1, <2>3 DEF EditFits, BallotFits, Cleared, Balloting
  <2> QED
    BY <1>7, <2>1, <2>2, <2>4, ReadContent DEF LoadToClose
<1>8. CASE SaveClosed(t)
  <2>1. poll' \in [multiple : BOOLEAN, closed : BOOLEAN] /\ tallied' \subseteq Ballots
    BY <1>5, <1>8 DEF SaveClosed
  <2> QED
    BY <1>4, <1>8, <2>1 DEF SaveClosed
<1>9. CASE StopWriting(t)
  BY <1>4, <1>5, <1>9 DEF StopWriting, pollVars
<1> QED
  BY <1>1, <1>2, <1>3, <1>6, <1>7, <1>8, <1>9 DEF LoadForPoll, Voting

\* Every step does,
LEMMA ContentStep == ASSUME ContentInv, [ContentNext]_contentVars PROVE ContentInv'
<1>1. CASE UNCHANGED contentVars
  <2>1. UNCHANGED <<post, snapshots, states, poll, votes, typing, hidden, voted, tallied>>
    BY <1>1 DEF contentVars
  <2> QED
    BY <2>1 DEF ContentInv, ContentTyped, ContentTypeOK, HiddenStays, VotersCount, EditFits, BallotFits, BallotOf, Cleared
<1> QED
  BY <1>1, HidingStep, MessageStep, ClearingStep, BallotStep DEF ContentNext

\* and a conversation begins with it.
LEMMA ContentBegins == ASSUME ContentInit PROVE ContentInv
<1>1. post \in Post
  BY ContentAssumption DEF ContentInit, Post
<1>2. typing \in [Typists -> TypingKinds] /\ \A t \in Typists : typing[t] = Still
  BY StillKind DEF ContentInit
<1>3. ContentTypeOK /\ HiddenStays /\ VotersCount
  BY <1>1 DEF ContentInit, ContentTypeOK, HiddenStays, VotersCount
<1>4. \A t \in Typists : EditFits(t) /\ BallotFits(t) /\ Cleared(t)
  BY <1>2 DEF Still, EditFits, BallotFits, Cleared, Balloting
<1> QED
  BY <1>2, <1>3, <1>4 DEF ContentInv, ContentTyped

\* At most one request is in progress.
OneTyping == \A t, u \in Typists : typing[t] # Still /\ typing[u] # Still => t = u

\* Serially the message is as the request in progress has read it, and was said last.
AsRead(t) ==
    /\ typing[t].at \in {"still", "edit", "erase"}
    /\ typing[t].at = "edit" => typing[t].row = post /\ ~post.deleted
MessageInv ==
    /\ OneTyping /\ \A t \in Typists : AsRead(t)
    /\ wordings \in Seq(Contents \union {Erased}) /\ Len(wordings) = post.version
    /\ ~post.deleted => post.content = wordings[Len(wordings)]
    /\ VersionsComplete /\ ErasedSaysNothing

\* Serially the poll is open while somebody votes, and a ballot withdraws all the votes of its voter.
VotesOf(cast) == {b \in votes : \E c \in cast : c[1] = b[1]}
AsPolled(t) ==
    /\ typing[t].at \in Balloting \union {"close"} => ~poll.closed
    /\ typing[t].at \in Balloting => poll.multiple \/ \A b1, b2 \in typing[t].cast : b1 = b2
    /\ typing[t].at = "withdraw" => typing[t].seen = VotesOf(typing[t].cast)
    /\ typing[t].at = "cast" => typing[t].taken = VotesOf(typing[t].cast)
PollInv == OneTyping /\ OneVoteEach /\ ClosedIsFinal /\ \A t \in Typists : AsPolled(t)

\* While a request is in progress, or begins with none in progress, the others hold nothing.
LEMMA OthersStill ==
  ASSUME ContentTyped, OneTyping, NEW t \in Typists, NoTyping \/ typing[t] # Still,
         NEW next \in TypingKinds, Types(t, next)
  PROVE  /\ typing'[t] = next /\ \A u \in Typists \ {t} : typing'[u] = Still
         /\ OneTyping'
<1>1. typing'[t] = next /\ \A u \in Typists \ {t} : typing'[u] = typing[u]
  BY OneTypes
<1>2. \A u \in Typists \ {t} : typing[u] = Still
  BY DEF NoTyping, OneTyping
<1> QED
  BY <1>1, <1>2 DEF OneTyping

\* One edit or erasure at a time, every version is kept and what is erased says nothing.
LEMMA SerialMessageStep ==
  ASSUME ContentInv, MessageInv, SerialMessages
  PROVE  MessageInv'
<1>1. PICK t \in Typists : (NoTyping /\ LoadMessage(t)) \/ SaveMessage(t) \/ StopWriting(t)
  BY DEF SerialMessages
<1>2. ContentTyped /\ OneTyping /\ (NoTyping \/ typing[t] # Still)
  BY <1>1 DEF ContentInv, MessageInv, SaveMessage, SaveEdit, SaveErase, StopWriting, Still
<1>3. PICK p \in Post : p = post
  BY DEF ContentInv, ContentTyped, ContentTypeOK
<1>4. p.version \in 1..MaxVersion + 1 /\ p.content \in Contents \union {Erased}
  BY <1>3 DEF Post
<1>5. Still.at = "still"
  BY DEF Still
<1>6. ASSUME NEW next \in TypingKinds, Types(t, next), UNCHANGED messageVars,
             next.at \in {"still", "edit", "erase"}, next.at = "edit" => next.row = post /\ ~post.deleted
      PROVE  MessageInv'
  <2>1. typing'[t] = next /\ (\A u \in Typists \ {t} : typing'[u] = Still) /\ OneTyping'
    BY <1>2, <1>6, OthersStill DEF ContentInv, MessageInv
  <2>2. UNCHANGED <<post, snapshots, wordings>>
    BY <1>6 DEF messageVars
  <2>3. \A u \in Typists : AsRead(u)'
    BY <1>5, <1>6, <2>1, <2>2 DEF AsRead
  <2> QED
    BY <2>1, <2>2, <2>3 DEF MessageInv, VersionsComplete, ErasedSaysNothing
<1>7. CASE LoadToReword(t)
  <2>1. PICK content \in Contents : Types(t, [at |-> "edit", row |-> post, content |-> content])
    BY <1>7 DEF LoadToReword
  <2> DEFINE next == [at |-> "edit", row |-> post, content |-> content]
  <2>2. next \in TypingKinds /\ next.at = "edit" /\ next.row = post
    BY <1>3 DEF TypingKinds
  <2>3. Types(t, next) /\ ~post.deleted /\ UNCHANGED messageVars
    BY <1>7, <2>1 DEF LoadToReword
  <2> HIDE DEF next
  <2> QED
    BY <1>6, <2>2, <2>3
<1>8. CASE LoadToErase(t)
  <2> DEFINE next == [at |-> "erase"]
  <2>1. next \in TypingKinds /\ next.at = "erase"
    BY DEF TypingKinds
  <2>2. Types(t, next) /\ UNCHANGED messageVars
    BY <1>8 DEF LoadToErase
  <2> HIDE DEF next
  <2> QED
    BY <1>6, <2>1, <2>2
<1>9. ASSUME Sits(t)
      PROVE  OneTyping' /\ \A u \in Typists : AsRead(u)'
  <2>1. (\A u \in Typists : typing'[u] = Still) /\ OneTyping'
    BY <1>2, <1>9, OthersStill, StillKind DEF Sits, ContentInv, MessageInv
  <2> QED
    BY <1>5, <2>1 DEF AsRead
<1>10. CASE SaveEdit(t)
  <2>1. typing[t].row = p /\ ~p.deleted /\ typing[t].content \in Contents
    BY <1>3, <1>10, TypingTyped DEF SaveEdit, MessageInv, AsRead, ContentInv
  <2>2. PICK content \in Contents : typing[t].content = content
    BY <2>1
  <2>3. post' = [p EXCEPT !.content = IF content = p.content THEN @ ELSE content, !.version = p.version + 1]
    BY <1>3, <1>10, <2>1, <2>2 DEF SaveEdit
  <2>4. post' = [p EXCEPT !.content = content, !.version = p.version + 1]
    BY <2>3
  <2>5. post'.content = content /\ post'.version = p.version + 1 /\ post'.deleted = p.deleted
    BY <1>4, <2>4 DEF Post
  <2>6. wordings' = Append(wordings, content) /\ snapshots' = snapshots \union {<<p.version, p.content>>}
    BY <1>10, <2>1, <2>5 DEF SaveEdit
  <2> DEFINE n == Len(wordings)
  <2>7. wordings \in Seq(Contents \union {Erased}) /\ n = p.version /\ p.content = wordings[n] /\ n \in Nat \ {0}
    BY <1>3, <1>4, <2>1 DEF MessageInv
  <2>8. /\ wordings' \in Seq(Contents \union {Erased}) /\ Len(wordings') = n + 1 /\ wordings'[n + 1] = content
        /\ \A v \in 1..n : wordings'[v] = wordings[v]
    BY <2>6, <2>7
  <2>9. VersionsComplete'
    <3>1. snapshots = {<<v, wordings[v]>> : v \in 1..n - 1}
      BY DEF MessageInv, VersionsComplete
    <3>2. snapshots' = {<<v, wordings[v]>> : v \in 1..n}
      <4>1. 1..n = (1..n - 1) \union {n}
        BY <2>7
      <4> QED
        BY <2>6, <2>7, <3>1, <4>1
    <3>3. {<<v, wordings[v]>> : v \in 1..n} = {<<v, wordings'[v]>> : v \in 1..n}
      BY <2>8
    <3>4. 1..Len(wordings') - 1 = 1..n
      BY <2>7, <2>8
    <3> QED
      BY <3>2, <3>3, <3>4 DEF VersionsComplete
  <2>10. ErasedSaysNothing' /\ Len(wordings') = post'.version /\ post'.content = wordings'[Len(wordings')]
    BY <2>1, <2>5, <2>7, <2>8 DEF ErasedSaysNothing
  <2> QED
    BY <1>9, <1>10, <2>8, <2>9, <2>10 DEF MessageInv, SaveEdit
<1>11. CASE SaveErase(t)
  <2>1. post' = [p EXCEPT !.content = Erased, !.deleted = TRUE]
    BY <1>3, <1>11 DEF SaveErase
  <2>2. PICK e : e = [p EXCEPT !.content = Erased, !.deleted = TRUE]
    OBVIOUS
  <2>3. e.content = Erased /\ e.version = p.version /\ e.deleted
    BY <2>2 DEF Post
  <2>4. post' = e /\ UNCHANGED <<snapshots, wordings>>
    BY <1>11, <2>1, <2>2 DEF SaveErase
  <2> QED
    BY <1>3, <1>9, <1>11, <2>3, <2>4 DEF SaveErase, MessageInv, VersionsComplete, ErasedSaysNothing
<1>12. CASE StopWriting(t)
  BY <1>5, <1>6, <1>12, StillKind DEF StopWriting, Sits
<1> QED
  BY <1>1, <1>7, <1>8, <1>10, <1>11, <1>12 DEF LoadMessage, SaveMessage

\* One ballot at a time, each has one vote in a poll for one choice, and a closed poll keeps them.
LEMMA SerialPollStep ==
  ASSUME ContentInv, PollInv, SerialPolls
  PROVE  PollInv'
<1>1. PICK t \in Typists : (NoTyping /\ LoadForPoll(t)) \/ Voting(t) \/ StopWriting(t)
  BY DEF SerialPolls
<1>2. NoTyping \/ typing[t] # Still
  BY <1>1 DEF Voting, BeginBallot, Withdraw, Cast, SaveClosed, StopWriting, Still
<1>3. Still.at = "still"
  BY DEF Still
<1>4. ASSUME NEW next \in TypingKinds, Types(t, next), UNCHANGED <<poll, votes, tallied>>,
             next.at \in Balloting \union {"close"} => ~poll.closed,
             next.at \in Balloting => poll.multiple \/ \A b1, b2 \in next.cast : b1 = b2,
             next.at = "withdraw" => next.seen = VotesOf(next.cast),
             next.at = "cast" => next.taken = VotesOf(next.cast)
      PROVE  PollInv'
  <2>1. typing'[t] = next /\ (\A u \in Typists \ {t} : typing'[u] = Still) /\ OneTyping'
    BY <1>2, <1>4, OthersStill DEF ContentInv, PollInv
  <2>2. \A u \in Typists : AsPolled(u)'
    BY <1>3, <1>4, <2>1 DEF AsPolled, Balloting, VotesOf
  <2> QED
    BY <1>4, <2>1, <2>2 DEF PollInv, OneVoteEach, ClosedIsFinal
<1>5. CASE LoadPoll(t)
  <2>1. PICK v \in Voters, chosen \in (SUBSET Choices) \ {{}} :
           /\ poll.multiple \/ Cardinality(chosen) = 1
           /\ Types(t, [at |-> "begin", voter |-> v, cast |-> {v} \X chosen])
    BY <1>5 DEF LoadPoll
  <2> DEFINE next == [at |-> "begin", voter |-> v, cast |-> {v} \X chosen]
  <2>2. next \in TypingKinds /\ next.at = "begin" /\ next.cast = {v} \X chosen
    BY DEF TypingKinds, Ballots
  <2>3. Types(t, next) /\ ~poll.closed /\ UNCHANGED <<poll, votes, tallied>>
    BY <1>5, <2>1 DEF LoadPoll, pollVars
  <2>4. Cardinality(chosen) = 1 => \A b1, b2 \in {v} \X chosen : b1 = b2
    <3> SUFFICES ASSUME Cardinality(chosen) = 1 PROVE \A b1, b2 \in {v} \X chosen : b1 = b2
      OBVIOUS
    <3>1. \E c : chosen = {c}
      BY ContentAssumption, FS_Subset, FS_Singleton
    <3> QED
      BY <3>1
  <2> HIDE DEF next
  <2> QED
    BY <1>4, <2>1, <2>2, <2>3, <2>4
<1>6. CASE BeginBallot(t)
  <2>1. PICK v \in Voters, chosen \in (SUBSET Choices) \ {{}} : typing[t].voter = v /\ typing[t].cast = {v} \X chosen
    BY <1>6 DEF BeginBallot, ContentInv, BallotFits, BallotOf, Balloting
  <2>2. PICK cast \in SUBSET Ballots : typing[t].cast = cast
    BY <1>6, TypingTyped DEF BeginBallot, ContentInv
  <2> DEFINE next == [at |-> "withdraw", cast |-> cast, seen |-> votes \intersect ({v} \X Choices)]
  <2>3. next \in TypingKinds /\ next.at = "withdraw" /\ next.cast = cast /\ next.seen = votes \intersect ({v} \X Choices)
    BY DEF TypingKinds, Ballots
  <2>4. Types(t, next) /\ UNCHANGED <<poll, votes, tallied>>
    BY <1>6, <2>1, <2>2 DEF BeginBallot, pollVars
  <2>5. votes \intersect ({v} \X Choices) = VotesOf(cast)
    <3>1. votes \subseteq Voters \X Choices
      BY DEF ContentInv, ContentTyped, ContentTypeOK, Ballots
    <3>2. PICK c \in chosen : TRUE
      OBVIOUS
    <3>3. cast = {v} \X chosen /\ <<v, c>> \in cast /\ <<v, c>>[1] = v
      BY <2>1, <2>2
    <3> QED
      BY <3>1, <3>3 DEF VotesOf
  <2>6. ~poll.closed /\ (poll.multiple \/ \A b1, b2 \in cast : b1 = b2)
    BY <1>6, <2>2 DEF BeginBallot, PollInv, AsPolled, Balloting
  <2> HIDE DEF next
  <2> QED
    BY <1>4, <2>3, <2>4, <2>5, <2>6
<1>7. CASE Withdraw(t)
  <2>1. PICK cast \in SUBSET Ballots, seen \in SUBSET Ballots : typing[t].cast = cast /\ typing[t].seen = seen
    BY <1>7, TypingTyped DEF Withdraw, ContentInv
  <2> DEFINE next == [at |-> "cast", cast |-> cast, taken |-> seen]
  <2>2. next \in TypingKinds /\ next.at = "cast" /\ next.cast = cast /\ next.taken = seen
    BY DEF TypingKinds
  <2>3. Types(t, next) /\ UNCHANGED <<poll, votes, tallied>>
    BY <1>7, <2>1 DEF Withdraw, pollVars
  <2>4. ~poll.closed /\ (poll.multiple \/ \A b1, b2 \in cast : b1 = b2) /\ seen = VotesOf(cast)
    BY <1>7, <2>1 DEF Withdraw, PollInv, AsPolled, Balloting
  <2> HIDE DEF next
  <2> QED
    BY <1>4, <2>2, <2>3, <2>4
<1>8. CASE /\ typing[t].at = "cast" /\ UNCHANGED <<poll, tallied>>
            /\ votes' = (votes \ typing[t].taken) \union typing[t].cast /\ RowsGone(t, typing[t].taken)
  <2>1. PICK cast \in SUBSET Ballots, taken \in SUBSET Ballots : typing[t].cast = cast /\ typing[t].taken = taken
    BY <1>8, TypingTyped DEF ContentInv
  <2>2. votes' = (votes \ taken) \union cast /\ RowsGone(t, taken) /\ UNCHANGED <<poll, tallied>>
    BY <1>8, <2>1
  <2>3. ~poll.closed /\ (poll.multiple \/ \A b1, b2 \in cast : b1 = b2) /\ taken = VotesOf(cast)
    BY <1>8, <2>1 DEF PollInv, AsPolled, Balloting
  <2>4. \A u \in Typists : typing'[u] = Still
    <3>1. \A u \in Typists \ {t} : typing[u] = Still
      BY <1>2 DEF NoTyping, PollInv, OneTyping
    <3> QED
      BY <1>3, <2>2, <3>1 DEF RowsGone
  <2>5. OneVoteEach'
    BY <2>2, <2>3 DEF VotesOf, PollInv, OneVoteEach
  <2>6. ClosedIsFinal' /\ OneTyping' /\ \A u \in Typists : AsPolled(u)'
    BY <1>3, <2>2, <2>3, <2>4 DEF ClosedIsFinal, OneTyping, AsPolled, Balloting
  <2> QED
    BY <2>5, <2>6 DEF PollInv
<1>9. CASE LoadToClose(t)
  <2> DEFINE next == [at |-> "close"]
  <2>1. next \in TypingKinds /\ next.at = "close"
    BY DEF TypingKinds
  <2>2. Types(t, next) /\ ~poll.closed /\ UNCHANGED <<poll, votes, tallied>>
    BY <1>9 DEF LoadToClose, pollVars
  <2> HIDE DEF next
  <2> QED
    BY <1>4, <2>1, <2>2 DEF Balloting
<1>10. CASE SaveClosed(t)
  <2>1. ~poll.closed
    BY <1>10 DEF SaveClosed, PollInv, AsPolled
  <2>2. tallied' = votes /\ votes' = votes /\ Sits(t)
    BY <1>10, <2>1 DEF SaveClosed
  <2>3. poll'.multiple = poll.multiple
    BY <1>10 DEF SaveClosed, ContentInv, ContentTyped, ContentTypeOK
  <2>4. (\A u \in Typists : typing'[u] = Still) /\ OneTyping'
    BY <1>2, <2>2, OthersStill, StillKind DEF Sits, ContentInv, PollInv
  <2>5. \A u \in Typists : AsPolled(u)'
    BY <1>3, <2>4 DEF AsPolled, Balloting
  <2> QED
    BY <2>2, <2>3, <2>4, <2>5 DEF PollInv, OneVoteEach, ClosedIsFinal
<1>11. CASE Sits(t) /\ UNCHANGED <<poll, votes, tallied>>
  <2>1. Types(t, Still) /\ UNCHANGED <<poll, votes, tallied>>
    BY <1>11 DEF Sits
  <2> QED
    BY <1>3, <1>4, <2>1, StillKind DEF Balloting
<1>12. CASE Cast(t)
  BY <1>8, <1>11, <1>12 DEF Cast
<1>13. CASE StopWriting(t)
  BY <1>11, <1>13 DEF StopWriting, pollVars
<1> QED
  BY <1>1, <1>5, <1>6, <1>7, <1>9, <1>10, <1>12, <1>13 DEF LoadForPoll, Voting

\* A conversation begins with what holds serially.
LEMMA SerialContentBegins == ASSUME ContentInit PROVE MessageInv /\ PollInv
<1>1. PICK content \in Contents :
         post = [content |-> content, version |-> 1, deleted |-> FALSE] /\ wordings = <<content>>
  BY DEF ContentInit
<1>2. post.version = 1 /\ post.content = content /\ ~post.deleted
  BY <1>1
<1>3. wordings \in Seq(Contents \union {Erased}) /\ Len(wordings) = 1 /\ wordings[Len(wordings)] = content
  BY <1>1
<1>4. VersionsComplete
  BY <1>3 DEF ContentInit, VersionsComplete
<1>5. \A t \in Typists : typing[t] = Still /\ typing[t].at = "still"
  BY DEF ContentInit, Still
<1>6. OneTyping /\ OneVoteEach /\ ClosedIsFinal /\ ErasedSaysNothing
  BY <1>2, <1>5 DEF ContentInit, OneTyping, OneVoteEach, ClosedIsFinal, ErasedSaysNothing
<1>7. \A t \in Typists : AsRead(t) /\ AsPolled(t)
  BY <1>5 DEF AsRead, AsPolled, Balloting
<1> QED
  BY <1>2, <1>3, <1>4, <1>6, <1>7 DEF MessageInv, PollInv

\* Whoever races, what a member hid stays hidden, and who has voted has a vote.
THEOREM NothingLost == ContentSpec => [](HiddenStays /\ VotersCount)
<1>1. ContentInv => HiddenStays /\ VotersCount
  BY DEF ContentInv
<1> QED
  BY ContentBegins, ContentStep, <1>1, PTL DEF ContentSpec

-----------------------------------------------------------------------------
(* Conversations and their members *)

\* What a request about conversations holds between two statements.
Reassigned == UNION {[S -> Roles \union {Outside}] : S \in SUBSET Persons}
TalkKinds ==
    {Silent} \union [at : {"rules"}, room : Rooms] \union [at : {"repair"}, found : SUBSET Rooms]
    \union [at : {"direct"}, owner : Persons, other : Persons] \union [at : {"discussion"}, owner : Persons]
    \union [at : {"join"}, room : Rooms, who : SUBSET Persons, role : Roles]
    \union [at : {"save"}, room : Rooms, rows : Reassigned]
    \union [at : {"sync"}, room : Rooms, add : SUBSET Persons, drop : SUBSET Persons]

RoomsTyped == RoomsTypeOK /\ talk \in [Talkers -> TalkKinds]

\* A direct message has two members or has lost one, and no more unless somebody was added.
PairKept == \A r \in Rooms : rooms[r].kind = "direct" /\ r \notin bereft => \E p, q \in Members(r) : p # q
PairOnly == \A r \in Rooms : rooms[r].kind = "direct" /\ r \notin widened => \E p, q \in Persons : Members(r) \subseteq {p, q}

\* What is saved are rows of members, and what is to be repaired has lost one.
TalkFits(d) ==
    /\ d.at = "direct" => d.owner # d.other
    /\ d.at = "save" => Standing(d.room) /\ DOMAIN d.rows \subseteq Members(d.room)
    /\ d.at = "repair" => d.found \subseteq bereft

RoomsInv == RoomsTyped /\ PairKept /\ PairOnly /\ RepairsOnlyBroken /\ \A c \in Talkers : TalkFits(talk[c])

\* One request at a time: what it has found is still so, and what it saves leaves an owner.
LeavesOwner(d) ==
    \/ d.room \in disowned
    \/ \E p \in Persons \ DOMAIN d.rows : roles[d.room][p] = "OWNER"
    \/ \E p \in DOMAIN d.rows : d.rows[p] = "OWNER" /\ \A q \in DOMAIN d.rows : d.rows[q] # Outside
StillSo(d) ==
    /\ d.at = "direct" => \A r \in OpenOf("direct") : Members(r) # {d.owner, d.other}
    /\ d.at = "discussion" => OpenOf("discussion") = {}
    /\ d.at = "save" => LeavesOwner(d)
OneAtATime == \A c, d \in Talkers : talk[c] # Silent /\ talk[d] # Silent => c = d
AtMostOne(S) == \A r, s \in S : r = s
PairOnce == \A r, s \in OpenOf("direct") \ widened : \A p, q \in Persons :
              p # q /\ Members(r) = {p, q} /\ Members(s) = {p, q} => r = s
SerialRoomsInv ==
    /\ OneAtATime /\ HasOwner /\ PairOnce /\ AtMostOne(OpenOf("discussion"))
    /\ \A c \in Talkers : StillSo(talk[c])


\* What a request holds is of its kind.
LEMMA TalkTyped ==
  ASSUME RoomsTyped, NEW c \in Talkers
  PROVE  /\ talk[c].at = "direct" => talk[c].owner \in Persons /\ talk[c].other \in Persons
         /\ talk[c].at = "discussion" => talk[c].owner \in Persons
         /\ talk[c].at = "rules" => talk[c].room \in Rooms
         /\ talk[c].at = "join" =>
              talk[c].room \in Rooms /\ talk[c].who \in SUBSET Persons /\ talk[c].role \in Roles
         /\ talk[c].at = "save" => talk[c].room \in Rooms /\ talk[c].rows \in Reassigned
         /\ talk[c].at = "sync" =>
              /\ talk[c] \in [at : {"sync"}, room : Rooms, add : SUBSET Persons, drop : SUBSET Persons]
              /\ talk[c].room \in Rooms /\ talk[c].add \in SUBSET Persons /\ talk[c].drop \in SUBSET Persons
         /\ talk[c].at = "repair" =>
              talk[c] \in [at : {"repair"}, found : SUBSET Rooms] /\ talk[c].found \in SUBSET Rooms
<1>1. talk[c] \in TalkKinds
  BY DEF RoomsTyped
<1> QED
  BY <1>1 DEF TalkKinds, Silent

\* The kinds of conversation, and which of them stand.
LEMMA RoomKinds ==
  ASSUME RoomsTypeOK, NEW r \in Rooms
  PROVE  /\ rooms[r].kind \in {"group", "direct", "discussion", "unbuilt", "destroyed"}
         /\ Standing(r) <=> rooms[r].kind \in {"group", "direct", "discussion"}
         /\ rooms[r] = Unbuilt <=> rooms[r].kind = "unbuilt"
         /\ rooms[r] = Destroyed <=> rooms[r].kind = "destroyed"
         /\ rooms[r].trashed \in BOOLEAN
         /\ Standing(r) => rooms[r] \in [kind : {"group", "direct", "discussion"}, given : BOOLEAN, trashed : BOOLEAN]
         /\ roles[r] \in [Persons -> Roles \union {Outside}]
         /\ ~Standing(r) => Members(r) = {}
<1>1. rooms[r] \in Room /\ roles[r] \in [Persons -> Roles \union {Outside}] /\ (Standing(r) \/ Members(r) = {})
  BY DEF RoomsTypeOK
<1>2. PICK chat \in Room : chat = rooms[r]
  BY <1>1
<1>3. chat \in [kind : {"group", "direct", "discussion"}, given : BOOLEAN, trashed : BOOLEAN] \/ chat = Unbuilt \/ chat = Destroyed
  BY DEF Room
<1>4. Standing(r) <=> chat \notin {Unbuilt, Destroyed}
  BY <1>2 DEF Standing
<1>5. /\ chat.kind \in {"group", "direct", "discussion", "unbuilt", "destroyed"} /\ chat.trashed \in BOOLEAN
      /\ chat = Unbuilt <=> chat.kind = "unbuilt"
      /\ chat = Destroyed <=> chat.kind = "destroyed"
      /\ chat \notin {Unbuilt, Destroyed} <=> chat.kind \in {"group", "direct", "discussion"}
  <2>1. /\ Unbuilt.kind = "unbuilt" /\ Destroyed.kind = "destroyed" 
        /\ Unbuilt.trashed \in BOOLEAN /\ Destroyed.trashed \in BOOLEAN
    BY DEF Unbuilt, Destroyed
  <2>2. CASE chat \in [kind : {"group", "direct", "discussion"}, given : BOOLEAN, trashed : BOOLEAN]
    <3>1. chat.kind \in {"group", "direct", "discussion"} /\ chat.trashed \in BOOLEAN
      BY <2>2
    <3> QED
      BY <2>1, <3>1
  <2>3. CASE chat = Unbuilt
    BY <2>1, <2>3
  <2>4. CASE chat = Destroyed
    BY <2>1, <2>4
  <2> QED
    BY <1>3, <2>2, <2>3, <2>4
<1> QED
  BY <1>1, <1>2, <1>3, <1>4, <1>5

\* Falling silent is one of the kinds, and fits.
LEMMA SilentKind == Silent \in TalkKinds /\ TalkFits(Silent) /\ StillSo(Silent)
BY DEF TalkKinds, Silent, TalkFits, StillSo

\* A statement that adds members, founds a conversation or changes nothing of it.
LEMMA MembersGrow ==
  ASSUME RoomsInv, NEW c \in Talkers, NEW next \in TalkKinds, Says(c, next), RoomsTypeOK', UNCHANGED bereft,
         widened \subseteq widened',
         \A r \in Rooms : Standing(r) =>
            /\ rooms'[r].kind = rooms[r].kind /\ Members(r) \subseteq Members(r)'
            /\ rooms[r].kind = "direct" => Members(r)' = Members(r) \/ r \in widened',
         \A r \in Rooms : ~Standing(r) /\ rooms'[r].kind = "direct" =>
            \E p, q \in Persons : p # q /\ Members(r)' = {p, q},
         \A r \in Rooms : rooms'[r] = Destroyed => rooms[r] = Destroyed,
         TalkFits(next)'
  PROVE  RoomsInv'
<1>1. RoomsTypeOK
  BY DEF RoomsInv, RoomsTyped
<1>2. \A r \in Rooms : Standing(r) => Standing(r)'
  <2> SUFFICES ASSUME NEW r \in Rooms, Standing(r) PROVE Standing(r)'
    OBVIOUS
  <2>1. rooms'[r].kind \in {"group", "direct", "discussion"}
    BY <1>1, RoomKinds
  <2> QED
    BY <2>1 DEF Standing, Unbuilt, Destroyed
<1>3. talk' \in [Talkers -> TalkKinds] /\ talk'[c] = next /\ \A d \in Talkers \ {c} : talk'[d] = talk[d]
  BY DEF Says, RoomsInv, RoomsTyped
<1>4. ASSUME NEW d \in Talkers PROVE TalkFits(talk[d])'
  <2>1. CASE d = c
    BY <1>3, <2>1
  <2>2. CASE d # c
    <3>1. talk'[d] = talk[d] /\ TalkFits(talk[d])
      BY <1>3, <2>2 DEF RoomsInv
    <3>2. talk[d].at = "save" => Standing(talk[d].room)' /\ DOMAIN talk[d].rows \subseteq Members(talk[d].room)'
      BY <1>2, <3>1, TalkTyped DEF TalkFits, RoomsInv
    <3> QED
      BY <3>1, <3>2 DEF TalkFits
  <2> QED
    BY <2>1, <2>2
<1>5. ASSUME NEW r \in Rooms, rooms'[r].kind = "direct"
      PROVE  /\ r \notin bereft => \E p, q \in Members(r)' : p # q
             /\ r \notin widened' => \E p, q \in Persons : Members(r)' \subseteq {p, q}
  <2>1. CASE Standing(r)
    BY <1>5, <2>1 DEF RoomsInv, PairKept, PairOnly
  <2>2. CASE ~Standing(r)
    BY <1>5, <2>2
  <2> QED
    BY <2>1, <2>2
<1>6. PairKept' /\ PairOnly'
  BY <1>5 DEF PairKept, PairOnly
<1>7. RepairsOnlyBroken'
  BY DEF RoomsInv, RepairsOnlyBroken
<1> QED
  BY <1>3, <1>4, <1>6, <1>7 DEF RoomsInv, RoomsTyped

\* A statement that only reads.
LEMMA OnlyTalk ==
  ASSUME RoomsInv, NEW c \in Talkers, NEW next \in TalkKinds, Says(c, next),
         UNCHANGED <<rooms, roles, bereft, widened>>, disowned' \subseteq Rooms, TalkFits(next)
  PROVE  RoomsInv'
<1>1. RoomsTypeOK' /\ TalkFits(next)'
  BY DEF RoomsInv, RoomsTyped, RoomsTypeOK, Standing, Members, TalkFits
<1>2. \A r \in Rooms : Members(r)' = Members(r)
  BY DEF Members
<1>3. \A r \in Rooms : ~Standing(r) => rooms[r].kind # "direct"
  BY RoomKinds DEF RoomsInv, RoomsTyped
<1> QED
  BY <1>1, <1>2, <1>3, MembersGrow

\* A conversation founded by one request.
LEMMA Founding ==
  ASSUME RoomsInv, NEW c \in Talkers, NEW next \in TalkKinds, Says(c, next), TalkFits(next)',
         NEW r \in Rooms, NEW kind \in {"group", "direct", "discussion"}, NEW given \in BOOLEAN, NEW owner \in Persons,
         NEW others \in SUBSET (Persons \ {owner}), Founded(r, kind, given, owner, others),
         kind = "direct" => \E q \in Persons : others = {q}
  PROVE  RoomsInv'
<1>1. RoomsTypeOK /\ rooms[r] = Unbuilt /\ ~Standing(r)
  BY DEF Founded, RoomsInv, RoomsTyped, Standing
<1> DEFINE chat == [kind |-> kind, given |-> given, trashed |-> FALSE]
           first == [p \in Persons |-> IF p = owner THEN "OWNER" ELSE IF p \in others THEN "MEMBER" ELSE Outside]
<1>2. chat \in Room /\ chat.kind = kind /\ chat # Destroyed
  BY DEF Room, Destroyed
<1>3. first \in [Persons -> Roles \union {Outside}] /\ \A p \in Persons : first[p] # Outside <=> p = owner \/ p \in others
  BY DEF Roles, Outside
<1>4. rooms' = [rooms EXCEPT ![r] = chat] /\ roles' = [roles EXCEPT ![r] = first] /\ UNCHANGED <<bereft, widened, disowned>>
  BY DEF Founded
<1> HIDE DEF chat, first
<1>5. /\ rooms' \in [Rooms -> Room] /\ rooms'[r] = chat /\ \A s \in Rooms \ {r} : rooms'[s] = rooms[s]
      /\ roles' \in [Rooms -> [Persons -> Roles \union {Outside}]]
      /\ roles'[r] = first /\ \A s \in Rooms \ {r} : roles'[s] = roles[s]
  BY <1>1, <1>2, <1>3, <1>4 DEF RoomsTypeOK
<1>6. Members(r)' = {owner} \union others /\ \A s \in Rooms \ {r} : Members(s)' = Members(s)
  BY <1>3, <1>5 DEF Members
<1>7. Standing(r)' /\ \A s \in Rooms \ {r} : Standing(s)' <=> Standing(s)
  BY <1>2, <1>5 DEF Standing, Unbuilt, Destroyed
<1>8. RoomsTypeOK'
  BY <1>1, <1>4, <1>5, <1>6, <1>7 DEF RoomsTypeOK
<1>9. \A s \in Rooms : ~Standing(s) => rooms[s].kind # "direct"
  BY <1>1, RoomKinds
<1> QED
  BY <1>1, <1>2, <1>4, <1>5, <1>6, <1>8, <1>9, MembersGrow

\* Conversations created,
LEMMA FoundingStep ==
  ASSUME RoomsInv, NEW c \in Talkers, CreateGroup(c) \/ MakeDirect(c) \/ MakeDiscussion(c)
  PROVE  RoomsInv'
<1>1. CASE CreateGroup(c)
  <2>1. PICK r \in Rooms, p \in Persons, given \in BOOLEAN : \E others \in SUBSET (Persons \ {p}) :
           /\ Founded(r, "group", given, p, others)
           /\ FallsSilent(c) \/ Says(c, [at |-> "rules", room |-> r])
    BY <1>1 DEF CreateGroup
  <2>2. PICK others \in SUBSET (Persons \ {p}) :
           /\ Founded(r, "group", given, p, others)
           /\ FallsSilent(c) \/ Says(c, [at |-> "rules", room |-> r])
    BY <2>1
  <2> DEFINE next == [at |-> "rules", room |-> r]
  <2>3. next \in TalkKinds /\ next.at = "rules"
    BY DEF TalkKinds
  <2>4. FallsSilent(c) \/ Says(c, next)
    BY <2>2
  <2> HIDE DEF next
  <2>5. TalkFits(next)' /\ TalkFits(Silent)'
    BY <2>3 DEF TalkFits, Silent
  <2>6. CASE FallsSilent(c)
    BY <2>2, <2>5, <2>6, SilentKind, Founding DEF FallsSilent
  <2>7. CASE Says(c, next)
    BY <2>2, <2>3, <2>5, <2>7, Founding
  <2> QED
    BY <2>4, <2>6, <2>7
<1>2. TalkFits(Silent)'
  BY DEF TalkFits, Silent
<1>3. CASE MakeDirect(c)
  <2>1. PICK r \in Rooms, given \in BOOLEAN : Founded(r, "direct", given, talk[c].owner, {talk[c].other})
    BY <1>3 DEF MakeDirect
  <2>2. talk[c].owner \in Persons /\ talk[c].other \in Persons /\ talk[c].owner # talk[c].other
    BY <1>3, TalkTyped DEF MakeDirect, RoomsInv, TalkFits
  <2>3. Says(c, Silent)
    BY <1>3 DEF MakeDirect, FallsSilent
  <2> QED
    BY <1>2, <2>1, <2>2, <2>3, SilentKind, Founding
<1>4. CASE MakeDiscussion(c)
  <2>1. PICK r \in Rooms, others \in SUBSET (Persons \ {talk[c].owner}) : Founded(r, "discussion", FALSE, talk[c].owner, others)
    BY <1>4 DEF MakeDiscussion
  <2>2. talk[c].owner \in Persons
    BY <1>4, TalkTyped DEF MakeDiscussion, RoomsInv
  <2>3. Says(c, Silent)
    BY <1>4 DEF MakeDiscussion, FallsSilent
  <2> QED
    BY <1>2, <2>1, <2>2, <2>3, SilentKind, Founding
<1> QED
  BY <1>1, <1>3, <1>4

\* The first look of a request.
LEMMA LookStep ==
  ASSUME RoomsInv, NEW c \in Talkers,
         \/ FindDirect(c) \/ FindDiscussion(c) \/ LoadToAdd(c) \/ LoadToChange(c) \/ LoadToTransfer(c)
         \/ SetRules(c) \/ ReadRules(c) \/ FindBroken(c) \/ DropTalk(c)
  PROVE  RoomsInv'
<1>0. RoomsTypeOK /\ disowned \subseteq Rooms /\ \A r \in Rooms : Members(r) \subseteq Persons
  BY DEF RoomsInv, RoomsTyped, RoomsTypeOK, Members
<1>1. CASE FindDirect(c)
  <2>1. PICK p \in Persons, q \in Persons : p # q /\ Says(c, [at |-> "direct", owner |-> p, other |-> q])
    BY <1>1 DEF FindDirect
  <2> DEFINE next == [at |-> "direct", owner |-> p, other |-> q]
  <2>2. next \in TalkKinds /\ TalkFits(next)
    BY <2>1 DEF TalkKinds, TalkFits
  <2>3. Says(c, next)
    BY <2>1
  <2> HIDE DEF next
  <2> QED
    BY <1>0, <1>1, <2>2, <2>3, OnlyTalk DEF FindDirect
<1>2. CASE FindDiscussion(c)
  <2>1. \/ \E p \in Persons : Says(c, [at |-> "discussion", owner |-> p])
        \/ \E p \in Persons, r \in Rooms : Says(c, [at |-> "join", room |-> r, who |-> {p}, role |-> "MEMBER"])
    BY <1>2 DEF FindDiscussion, Discussions
  <2>2. CASE \E p \in Persons : Says(c, [at |-> "discussion", owner |-> p])
    <3>1. PICK p \in Persons : Says(c, [at |-> "discussion", owner |-> p])
      BY <2>2
    <3> DEFINE next == [at |-> "discussion", owner |-> p]
    <3>2. next \in TalkKinds /\ TalkFits(next)
      BY DEF TalkKinds, TalkFits
    <3>3. Says(c, next)
      BY <3>1
    <3> HIDE DEF next
    <3> QED
      BY <1>0, <1>2, <3>2, <3>3, OnlyTalk DEF FindDiscussion
  <2>3. CASE \E p \in Persons, r \in Rooms : Says(c, [at |-> "join", room |-> r, who |-> {p}, role |-> "MEMBER"])
    <3>1. PICK p \in Persons, r \in Rooms : Says(c, [at |-> "join", room |-> r, who |-> {p}, role |-> "MEMBER"])
      BY <2>3
    <3> DEFINE next == [at |-> "join", room |-> r, who |-> {p}, role |-> "MEMBER"]
    <3>2. next \in TalkKinds /\ TalkFits(next)
      BY DEF TalkKinds, TalkFits, Roles
    <3>3. Says(c, next)
      BY <3>1
    <3> HIDE DEF next
    <3> QED
      BY <1>0, <1>2, <3>2, <3>3, OnlyTalk DEF FindDiscussion
  <2> QED
    BY <2>1, <2>2, <2>3
<1>3. CASE LoadToAdd(c)
  <2>1. PICK r \in Rooms, who \in SUBSET Persons, role \in Roles :
           Says(c, [at |-> "join", room |-> r, who |-> who, role |-> role])
    BY <1>3 DEF LoadToAdd
  <2> DEFINE next == [at |-> "join", room |-> r, who |-> who, role |-> role]
  <2>2. next \in TalkKinds /\ TalkFits(next)
    BY DEF TalkKinds, TalkFits
  <2>3. Says(c, next)
    BY <2>1
  <2> HIDE DEF next
  <2> QED
    BY <1>0, <1>3, <2>2, <2>3, OnlyTalk DEF LoadToAdd
<1>4. ASSUME NEW r \in Rooms, Standing(r), NEW changes \in Reassigned, DOMAIN changes \subseteq Members(r),
             Says(c, [at |-> "save", room |-> r, rows |-> changes]), UNCHANGED <<rooms, roles, bereft, widened>>,
             disowned' \subseteq Rooms
      PROVE  RoomsInv'
  <2> DEFINE next == [at |-> "save", room |-> r, rows |-> changes]
  <2>1. next \in TalkKinds /\ TalkFits(next)
    BY <1>4 DEF TalkKinds, TalkFits
  <2>2. Says(c, next)
    BY <1>4
  <2> HIDE DEF next
  <2> QED
    BY <1>4, <2>1, <2>2, OnlyTalk
<1>5. CASE LoadToChange(c)
  <2>1. PICK r \in Rooms : \E p \in Members(r), role \in Roles \union {Outside} :
           Open(r) /\ Says(c, [at |-> "save", room |-> r, rows |-> [x \in {p} |-> role]])
    BY <1>5 DEF LoadToChange
  <2>2. PICK p \in Members(r), role \in Roles \union {Outside} :
           Open(r) /\ Says(c, [at |-> "save", room |-> r, rows |-> [x \in {p} |-> role]])
    BY <2>1
  <2>3. [x \in {p} |-> role] \in [{p} -> Roles \union {Outside}] /\ {p} \in SUBSET Persons
    BY <1>0
  <2>4. [x \in {p} |-> role] \in Reassigned
    BY <2>3 DEF Reassigned
  <2> QED
    BY <1>0, <1>4, <1>5, <2>2, <2>4 DEF LoadToChange, Open
<1>6. CASE LoadToTransfer(c)
  <2>1. PICK r \in Rooms : \E owner, heir \in Members(r) :
           /\ Open(r) /\ roles[r][owner] = "OWNER"
           /\ LET written == {owner} \union {p \in {heir} : roles[r][p] # "OWNER"}
              IN Says(c, [at |-> "save", room |-> r, rows |-> [x \in written |-> IF x = owner THEN "ADMIN" ELSE "OWNER"]])
           /\ disowned' = disowned \union {x \in {r} : owner = heir}
    BY <1>6 DEF LoadToTransfer
  <2>2. PICK owner \in Members(r), heir \in Members(r) :
           /\ Open(r) /\ roles[r][owner] = "OWNER"
           /\ LET written == {owner} \union {p \in {heir} : roles[r][p] # "OWNER"}
              IN Says(c, [at |-> "save", room |-> r, rows |-> [x \in written |-> IF x = owner THEN "ADMIN" ELSE "OWNER"]])
           /\ disowned' = disowned \union {x \in {r} : owner = heir}
    BY <2>1
  <2> DEFINE written == {owner} \union {p \in {heir} : roles[r][p] # "OWNER"}
             changes == [x \in written |-> IF x = owner THEN "ADMIN" ELSE "OWNER"]
  <2>3. changes \in [written -> Roles \union {Outside}] /\ written \in SUBSET Persons /\ DOMAIN changes \subseteq Members(r)
    BY <1>0 DEF Roles
  <2>4. changes \in Reassigned
    BY <2>3 DEF Reassigned
  <2>5. Says(c, [at |-> "save", room |-> r, rows |-> changes])
    BY <2>2
  <2>6. disowned' \subseteq Rooms
    BY <1>0, <2>2
  <2> HIDE DEF changes
  <2> QED
    BY <1>4, <1>6, <2>2, <2>3, <2>4, <2>5, <2>6 DEF LoadToTransfer, Open
<1>7. CASE SetRules(c)
  <2>1. PICK r \in Rooms : Says(c, [at |-> "rules", room |-> r])
    BY <1>7 DEF SetRules
  <2> DEFINE next == [at |-> "rules", room |-> r]
  <2>2. next \in TalkKinds /\ TalkFits(next)
    BY DEF TalkKinds, TalkFits
  <2>3. Says(c, next)
    BY <2>1
  <2> HIDE DEF next
  <2> QED
    BY <1>0, <1>7, <2>2, <2>3, OnlyTalk DEF SetRules
<1>8. CASE FallsSilent(c) /\ UNCHANGED <<rooms, roles, bereft, widened, disowned>>
  BY <1>0, <1>8, SilentKind, OnlyTalk DEF FallsSilent
<1>9. CASE ReadRules(c)
  <2>1. CASE Open(talk[c].room)
    <3>1. PICK r \in Rooms : talk[c].room = r
      BY <1>9, TalkTyped DEF ReadRules, RoomsInv
    <3>2. PICK add \in SUBSET (Persons \ Members(r)), drop \in SUBSET Members(r) :
             Says(c, [at |-> "sync", room |-> r, add |-> add, drop |-> drop])
      BY <1>9, <2>1, <3>1 DEF ReadRules
    <3> DEFINE next == [at |-> "sync", room |-> r, add |-> add, drop |-> drop]
    <3>3. add \in SUBSET Persons /\ drop \in SUBSET Persons
      BY <1>0
    <3>4. next \in TalkKinds /\ TalkFits(next)
      BY <3>3 DEF TalkKinds, TalkFits
    <3>5. Says(c, next)
      BY <3>2
    <3> HIDE DEF next
    <3> QED
      BY <1>0, <1>9, <3>4, <3>5, OnlyTalk DEF ReadRules
  <2>2. CASE ~Open(talk[c].room)
    BY <1>8, <1>9, <2>2 DEF ReadRules
  <2> QED
    BY <2>1, <2>2
<1>10. CASE FindBroken(c)
  <2> DEFINE found == {r \in OpenOf("direct") : Cardinality(Members(r)) < 2}
             next == [at |-> "repair", found |-> found]
  <2>1. found \subseteq Rooms
    BY DEF OpenOf
  <2>2. ASSUME NEW r \in found PROVE r \in bereft
    <3>1. r \in Rooms /\ rooms[r].kind = "direct" /\ Cardinality(Members(r)) < 2
      BY DEF OpenOf
    <3>2. ASSUME NEW p \in Members(r), NEW q \in Members(r), p # q PROVE FALSE
      <4>1. IsFiniteSet(Members(r))
        BY <1>0, <3>1, RoomsAssumption, FS_Subset
      <4>2. IsFiniteSet(Members(r) \ {p}) /\ Cardinality(Members(r) \ {p}) = Cardinality(Members(r)) - 1
        BY <4>1, FS_RemoveElement
      <4>3. Cardinality(Members(r)) \in Nat /\ Cardinality(Members(r) \ {p}) \in Nat
        BY <4>1, <4>2, FS_CardinalityType
      <4>4. Cardinality(Members(r) \ {p}) = 0
        BY <3>1, <4>2, <4>3
      <4>5. Members(r) \ {p} = {}
        BY <4>2, <4>4, FS_EmptySet
      <4> QED
        BY <3>2, <4>5
    <3> QED
      BY <3>1, <3>2 DEF RoomsInv, PairKept
  <2>3. Says(c, next)
    BY <1>10 DEF FindBroken
  <2>4. next \in TalkKinds /\ TalkFits(next)
    <3>1. next.at = "repair" /\ next.found = found /\ next \in [at : {"repair"}, found : SUBSET Rooms]
      BY <2>1
    <3> HIDE DEF found, next
    <3> QED
      BY <2>2, <3>1 DEF TalkKinds, TalkFits
  <2> HIDE DEF next
  <2> QED
    BY <1>0, <1>10, <2>3, <2>4, OnlyTalk DEF FindBroken
<1>11. CASE DropTalk(c)
  BY <1>8, <1>11 DEF DropTalk
<1> QED
  BY <1>1, <1>2, <1>3, <1>5, <1>6, <1>7, <1>9, <1>10, <1>11

\* Members who join or change their roles, and conversations trashed,
LEMMA JoiningStep ==
  ASSUME RoomsInv, NEW c \in Talkers,
         NEW r \in Rooms, NEW next \in TalkKinds, Says(c, next), TalkFits(next)',
         NEW given \in [Persons -> Roles \union {Outside}], \A p \in Members(r) : given[p] # Outside,
         Standing(r), roles' = [roles EXCEPT ![r] = given], UNCHANGED <<rooms, bereft, disowned>>,
         \/ widened' = widened \union {r}
         \/ widened' = widened /\ \A p \in Persons \ Members(r) : given[p] = Outside
  PROVE  RoomsInv'
<1>1. RoomsTypeOK
  BY DEF RoomsInv, RoomsTyped
<1>2. /\ roles' \in [Rooms -> [Persons -> Roles \union {Outside}]]
      /\ roles'[r] = given /\ \A s \in Rooms \ {r} : roles'[s] = roles[s]
  BY <1>1 DEF RoomsTypeOK
<1>3. /\ Members(r) \subseteq Members(r)' /\ \A s \in Rooms \ {r} : Members(s)' = Members(s)
      /\ Members(r)' = Members(r) \/ r \in widened'
  BY <1>2 DEF Members
<1>4. (\A s \in Rooms : Standing(s)' <=> Standing(s)) /\ widened \subseteq widened' /\ widened' \subseteq Rooms
  BY <1>1 DEF Standing, RoomsTypeOK
<1>5. RoomsTypeOK'
  BY <1>1, <1>2, <1>3, <1>4 DEF RoomsTypeOK
<1>6. \A s \in Rooms : ~Standing(s) => rooms[s].kind # "direct"
  BY <1>1, RoomKinds
<1> QED
  BY <1>3, <1>4, <1>5, <1>6, MembersGrow

\* whole requests among them,
LEMMA AddingStep ==
  ASSUME RoomsInv, NEW c \in Talkers, Join(c) \/ SyncOne(c)
  PROVE  RoomsInv'
<1>1. RoomsTypeOK /\ disowned \subseteq Rooms
  BY DEF RoomsInv, RoomsTyped, RoomsTypeOK
<1>2. CASE FallsSilent(c) /\ UNCHANGED <<rooms, roles, bereft, widened, disowned>>
  BY <1>1, <1>2, SilentKind, OnlyTalk DEF FallsSilent
<1>3. TalkFits(Silent)'
  BY DEF TalkFits, Silent
<1>4. CASE Join(c)
  <2>1. PICK r \in Rooms, who \in SUBSET Persons, role \in Roles :
           talk[c].room = r /\ talk[c].who = who /\ talk[c].role = role
    BY <1>4, TalkTyped DEF Join, RoomsInv
  <2>2. CASE Standing(r) /\ who \intersect Members(r) = {}
    <3> DEFINE given == [p \in Persons |-> IF p \in who THEN role ELSE roles[r][p]]
    <3>1. roles[r] \in [Persons -> Roles \union {Outside}]
      BY <1>1, RoomKinds
    <3>2. given \in [Persons -> Roles \union {Outside}]
      BY <3>1
    <3>3. \A p \in Members(r) : given[p] # Outside
      BY <2>2 DEF Members
    <3>4. roles' = [roles EXCEPT ![r] = given] /\ widened' = widened \union {r} /\ Says(c, Silent)
          /\ UNCHANGED <<rooms, bereft, disowned>>
      BY <1>4, <2>1, <2>2 DEF Join, FallsSilent
    <3> HIDE DEF given
    <3> QED
      BY <1>3, <2>2, <3>2, <3>3, <3>4, SilentKind, JoiningStep
  <2>3. CASE ~(Standing(r) /\ who \intersect Members(r) = {})
    BY <1>2, <1>4, <2>1, <2>3 DEF Join
  <2> QED
    BY <2>2, <2>3
<1>5. CASE SyncOne(c)
  <2>1. PICK d \in [at : {"sync"}, room : Rooms, add : SUBSET Persons, drop : SUBSET Persons] : d = talk[c]
    BY <1>5, TalkTyped DEF SyncOne, RoomsInv
  <2>2. PICK p \in d.add : IF Standing(d.room) /\ p \notin Members(d.room)
          THEN /\ roles' = [roles EXCEPT ![d.room][p] = "MEMBER"]
               /\ widened' = widened \union {d.room}
               /\ Says(c, [d EXCEPT !.add = @ \ {p}])
          ELSE FallsSilent(c) /\ UNCHANGED <<roles, widened>>
    BY <1>5, <2>1 DEF SyncOne
  <2>3. PICK r \in Rooms : r = d.room
    OBVIOUS
  <2>4. CASE Standing(r) /\ p \notin Members(r)
    <3> DEFINE given == [roles[r] EXCEPT ![p] = "MEMBER"]
               next == [d EXCEPT !.add = @ \ {p}]
    <3>1. roles[r] \in [Persons -> Roles \union {Outside}] /\ roles \in [Rooms -> [Persons -> Roles \union {Outside}]]
      BY <1>1 DEF RoomsTypeOK
    <3>2. given \in [Persons -> Roles \union {Outside}]
      BY <3>1 DEF Roles
    <3>3. \A q \in Members(r) : given[q] # Outside
      BY <3>1 DEF Members, Outside
    <3>4. roles' = [roles EXCEPT ![r] = given] /\ widened' = widened \union {r} /\ Says(c, next)
          /\ UNCHANGED <<rooms, bereft, disowned>>
      BY <1>5, <2>2, <2>3, <2>4, <3>1 DEF SyncOne
    <3>5. next \in TalkKinds /\ next.at = "sync"
      BY DEF TalkKinds
    <3> HIDE DEF given, next
    <3>6. TalkFits(next)'
      BY <3>5 DEF TalkFits
    <3> QED
      BY <2>4, <3>2, <3>3, <3>4, <3>5, <3>6, JoiningStep
  <2>5. CASE ~(Standing(r) /\ p \notin Members(r))
    BY <1>2, <1>5, <2>2, <2>3, <2>5 DEF SyncOne
  <2> QED
    BY <2>4, <2>5
<1> QED
  BY <1>4, <1>5

\* a part of what is saved is saved like the whole,
LEMMA PartReassigned ==
  ASSUME NEW changes \in Reassigned, NEW gone
  PROVE  /\ Restrict(changes, DOMAIN changes \ gone) \in Reassigned
         /\ DOMAIN Restrict(changes, DOMAIN changes \ gone) = DOMAIN changes \ gone
         /\ \A p \in DOMAIN changes : changes[p] \in Roles \union {Outside}
         /\ DOMAIN changes \subseteq Persons
<1>1. PICK S \in SUBSET Persons : changes \in [S -> Roles \union {Outside}]
  BY DEF Reassigned
<1>2. Restrict(changes, DOMAIN changes \ gone) \in [S \ gone -> Roles \union {Outside}]
  BY <1>1 DEF Restrict
<1>3. S \ gone \in SUBSET Persons
  OBVIOUS
<1> QED
  BY <1>1, <1>2, <1>3 DEF Reassigned

\* members removed,
LEMMA LosingStep ==
  ASSUME RoomsInv, NEW c \in Talkers, NEW r \in Rooms, NEW gone \in SUBSET Persons,
         Loses(r, gone), Voids(c, r, gone), UNCHANGED <<rooms, widened>>, disowned' \subseteq Rooms
  PROVE  RoomsInv'
<1>1. RoomsTypeOK
  BY DEF RoomsInv, RoomsTyped
<1> DEFINE given == [p \in Persons |-> IF p \in gone THEN Outside ELSE roles[r][p]]
<1>2. given \in [Persons -> Roles \union {Outside}]
  BY <1>1, RoomKinds
<1>3. roles' = [roles EXCEPT ![r] = given]
  BY <1>1 DEF Loses, RoomsTypeOK
<1>4. \A p \in Persons : given[p] # Outside <=> p \notin gone /\ roles[r][p] # Outside
  OBVIOUS
<1> HIDE DEF given
<1>5. /\ roles' \in [Rooms -> [Persons -> Roles \union {Outside}]]
      /\ roles'[r] = given /\ \A s \in Rooms \ {r} : roles'[s] = roles[s]
  BY <1>1, <1>2, <1>3 DEF RoomsTypeOK
<1>6. Members(r)' = Members(r) \ gone /\ \A s \in Rooms \ {r} : Members(s)' = Members(s)
  BY <1>4, <1>5 DEF Members
<1>7. /\ bereft \subseteq bereft' /\ bereft' \subseteq Rooms
      /\ gone # {} /\ rooms[r].kind = "direct" => r \in bereft'
  BY <1>1 DEF Loses, RoomsTypeOK
<1>8. \A s \in Rooms : Standing(s)' <=> Standing(s)
  BY DEF Standing
<1>9. RoomsTypeOK'
  BY <1>1, <1>5, <1>6, <1>7, <1>8 DEF RoomsTypeOK
<1>10. PairKept'
  BY <1>6, <1>7 DEF RoomsInv, PairKept
<1>11. PairOnly'
  <2> SUFFICES ASSUME NEW s \in Rooms, rooms[s].kind = "direct", s \notin widened
               PROVE  \E p, q \in Persons : Members(s)' \subseteq {p, q}
    BY DEF PairOnly
  <2>1. Members(s)' \subseteq Members(s)
    BY <1>6
  <2> QED
    BY <2>1 DEF RoomsInv, PairOnly
<1>12. RepairsOnlyBroken'
  BY <1>7 DEF RoomsInv, RepairsOnlyBroken
<1>13. ASSUME NEW d \in Talkers PROVE talk'[d] \in TalkKinds /\ TalkFits(talk[d])'
  <2>1. talk'[d] = IF d = c THEN Silent
                   ELSE IF talk[d].at = "save" /\ talk[d].room = r
                        THEN [talk[d] EXCEPT !.rows = Restrict(@, DOMAIN @ \ gone)]
                   ELSE talk[d]
    BY DEF Voids
  <2>2. TalkFits(talk[d]) /\ talk[d] \in TalkKinds
    BY DEF RoomsInv, RoomsTyped
  <2>3. CASE d = c
    <3>1. talk'[d] = Silent
      BY <2>1, <2>3
    <3> QED
      BY <3>1, SilentKind DEF TalkFits, Silent
  <2>4. CASE d # c /\ talk[d].at = "save" /\ talk[d].room = r
    <3>1. PICK x \in [at : {"save"}, room : Rooms, rows : Reassigned] : x = talk[d]
      BY <2>2, <2>4 DEF TalkKinds, Silent
    <3>2. PICK part2 \in Reassigned : part2 = Restrict(x.rows, DOMAIN x.rows \ gone) /\ DOMAIN part2 = DOMAIN x.rows \ gone
      BY PartReassigned
    <3>3. talk'[d] = [x EXCEPT !.rows = part2]
      BY <2>1, <2>4, <3>1, <3>2
    <3>4. [x EXCEPT !.rows = part2] \in [at : {"save"}, room : Rooms, rows : Reassigned]
      OBVIOUS
    <3>5. talk'[d] \in TalkKinds /\ talk'[d].at = "save" /\ talk'[d].room = r /\ talk'[d].rows = part2
      BY <2>4, <3>1, <3>3, <3>4 DEF TalkKinds
    <3>6. DOMAIN part2 \subseteq Members(r) \ gone /\ Standing(r)
      BY <2>2, <2>4, <3>1, <3>2 DEF TalkFits
    <3> QED
      BY <1>6, <1>8, <3>5, <3>6 DEF TalkFits
  <2>5. CASE d # c /\ ~(talk[d].at = "save" /\ talk[d].room = r)
    <3>1. talk'[d] = talk[d]
      BY <2>1, <2>5
    <3>2. talk[d].at = "save" => talk[d].room \in Rooms \ {r}
      BY <2>5, TalkTyped DEF RoomsInv
    <3> QED
      BY <1>6, <1>7, <1>8, <2>2, <3>1, <3>2 DEF TalkFits
  <2> QED
    BY <2>3, <2>4, <2>5
<1>14. talk' \in [Talkers -> TalkKinds]
  <2>1. talk' = [d \in Talkers |-> talk'[d]]
    BY DEF Voids
  <2> QED
    BY <1>13, <2>1
<1> QED
  BY <1>9, <1>10, <1>11, <1>12, <1>13, <1>14 DEF RoomsInv, RoomsTyped

\* by one statement or another,
LEMMA LeavingStep ==
  ASSUME RoomsInv, NEW c \in Talkers, SaveRoles(c) \/ BulkRemove(c) \/ SyncRest(c)
  PROVE  RoomsInv'
<1>1. RoomsTypeOK /\ disowned \subseteq Rooms /\ \A r \in Rooms : Members(r) \subseteq Persons
  BY DEF RoomsInv, RoomsTyped, RoomsTypeOK, Members
<1>2. CASE SaveRoles(c)
  <2>1. PICK r \in Rooms, changes \in Reassigned : talk[c].room = r /\ talk[c].rows = changes
    BY <1>2, TalkTyped DEF SaveRoles, RoomsInv
  <2> DEFINE gone == {p \in DOMAIN changes : changes[p] = Outside}
  <2>2. gone \in SUBSET Persons /\ \A p \in DOMAIN changes : changes[p] \in Roles \union {Outside}
    BY PartReassigned
  <2>3. Standing(r) /\ DOMAIN changes \subseteq Members(r)
    BY <1>2, <2>1 DEF RoomsInv, TalkFits, SaveRoles
  <2>4. CASE gone # {}
    <3>1. Loses(r, gone) /\ Voids(c, r, gone) /\ UNCHANGED <<rooms, widened, disowned>>
      BY <1>2, <2>1, <2>4 DEF SaveRoles
    <3> HIDE DEF gone
    <3> QED
      BY <1>1, <2>2, <3>1, LosingStep
  <2>5. CASE gone = {}
    <3> DEFINE given == [p \in Persons |-> IF p \in DOMAIN changes THEN changes[p] ELSE roles[r][p]]
    <3>1. roles[r] \in [Persons -> Roles \union {Outside}]
      BY <1>1, RoomKinds
    <3>2. given \in [Persons -> Roles \union {Outside}]
      BY <2>2, <3>1
    <3>3. \A p \in Members(r) : given[p] # Outside
      BY <2>5 DEF Members
    <3>4. \A p \in Persons \ Members(r) : given[p] = Outside
      BY <2>3 DEF Members
    <3>5. roles' = [roles EXCEPT ![r] = given] /\ Says(c, Silent) /\ UNCHANGED <<rooms, bereft, widened, disowned>>
      BY <1>2, <2>1, <2>5 DEF SaveRoles, FallsSilent
    <3>6. TalkFits(Silent)'
      BY DEF TalkFits, Silent
    <3> HIDE DEF given
    <3> QED
      BY <2>3, <3>2, <3>3, <3>4, <3>5, <3>6, SilentKind, JoiningStep
  <2> QED
    BY <2>4, <2>5
<1>3. CASE BulkRemove(c)
  <2>0. PICK r \in Rooms : \E who \in SUBSET Members(r) :
           LET gone == {p \in who : roles[r][p] # "OWNER"} IN Loses(r, gone) /\ Voids(c, r, gone)
    BY <1>3 DEF BulkRemove
  <2>1. PICK who \in SUBSET Members(r) :
           LET gone == {p \in who : roles[r][p] # "OWNER"} IN Loses(r, gone) /\ Voids(c, r, gone)
    BY <2>0
  <2>2. {p \in who : roles[r][p] # "OWNER"} \in SUBSET Persons
    BY <1>1
  <2> QED
    BY <1>1, <1>3, <2>1, <2>2, LosingStep DEF BulkRemove
<1>4. CASE SyncRest(c)
  <2>1. PICK r \in Rooms, drop \in SUBSET Persons : talk[c].room = r /\ talk[c].drop = drop
    BY <1>4, TalkTyped DEF SyncRest, RoomsInv
  <2>2. /\ Loses(r, drop \intersect Members(r)) /\ Voids(c, r, drop \intersect Members(r))
        /\ disowned' = disowned \union {x \in {r} : \E p \in drop \intersect Members(r) : roles[x][p] = "OWNER"}
        /\ UNCHANGED <<rooms, widened>>
    BY <1>4, <2>1 DEF SyncRest
  <2>3. drop \intersect Members(r) \in SUBSET Persons /\ disowned' \subseteq Rooms
    BY <1>1, <2>2
  <2> QED
    BY <2>2, <2>3, LosingStep
<1> QED
  BY <1>2, <1>3, <1>4

\* and conversations set aside or destroyed.
LEMMA ClosingStep ==
  ASSUME RoomsInv, NEW c \in Talkers, Trash(c) \/ DestroyBroken(c)
  PROVE  RoomsInv'
<1>1. RoomsTypeOK
  BY DEF RoomsInv, RoomsTyped
<1>2. CASE Trash(c)
  <2>1. PICK r \in Rooms : Open(r) /\ rooms' = [rooms EXCEPT ![r].trashed = TRUE]
    BY <1>2 DEF Trash
  <2>2. PICK chat \in [kind : {"group", "direct", "discussion"}, given : BOOLEAN, trashed : BOOLEAN] : chat = rooms[r]
    BY <1>1, <2>1, RoomKinds DEF Open
  <2> DEFINE next == [chat EXCEPT !.trashed = TRUE]
  <2>3. next \in Room /\ next.kind = chat.kind /\ next.kind \in {"group", "direct", "discussion"}
    BY DEF Room
  <2>4. rooms' = [rooms EXCEPT ![r] = next]
    BY <2>1, <2>2 DEF RoomsTypeOK
  <2> HIDE DEF next
  <2>5. rooms' \in [Rooms -> Room] /\ rooms'[r] = next /\ \A s \in Rooms \ {r} : rooms'[s] = rooms[s]
    BY <1>1, <2>3, <2>4 DEF RoomsTypeOK
  <2>6. (\A s \in Rooms : rooms'[s].kind = rooms[s].kind) /\ UNCHANGED <<roles, talk, bereft, widened, disowned>>
    BY <1>2, <2>2, <2>3, <2>5 DEF Trash
  <2>7. Standing(r) /\ Standing(r)' /\ \A s \in Rooms \ {r} : Standing(s)' <=> Standing(s)
    BY <2>1, <2>3, <2>5 DEF Open, Standing, Unbuilt, Destroyed
  <2>8. \A s \in Rooms : Members(s)' = Members(s)
    BY <2>6 DEF Members
  <2>9. RoomsTypeOK'
    BY <1>1, <2>5, <2>6, <2>7, <2>8 DEF RoomsTypeOK
  <2>10. PairKept' /\ PairOnly'
    BY <2>6, <2>8 DEF RoomsInv, PairKept, PairOnly
  <2>11. RepairsOnlyBroken'
    <3>1. Destroyed.kind = "destroyed"
      BY DEF Destroyed
    <3>2. rooms'[r] # Destroyed
      BY <2>3, <2>5, <3>1
    <3> QED
      BY <2>5, <2>6, <3>2 DEF RoomsInv, RepairsOnlyBroken
  <2>12. ASSUME NEW d \in Talkers PROVE TalkFits(talk[d])'
    <3>1. TalkFits(talk[d]) /\ talk'[d] = talk[d] /\ (talk[d].at = "save" => talk[d].room \in Rooms)
      BY <2>6, TalkTyped DEF RoomsInv
    <3> QED
      BY <2>6, <2>7, <2>8, <3>1 DEF TalkFits
  <2> QED
    BY <2>6, <2>9, <2>10, <2>11, <2>12 DEF RoomsInv, RoomsTyped
<1>3. CASE DestroyBroken(c)
  <2>1. PICK x \in [at : {"repair"}, found : SUBSET Rooms] : x = talk[c]
    BY <1>3, TalkTyped DEF DestroyBroken, RoomsInv
  <2>0. PICK r \in talk[c].found :
       /\ rooms' = [rooms EXCEPT ![r] = Destroyed]
       /\ roles' = [roles EXCEPT ![r] = [p \in Persons |-> Outside]]
       /\ talk' = [d \in Talkers |->
                     IF d = c /\ talk[c].found = {r} THEN Silent
                     ELSE IF d = c THEN [talk[c] EXCEPT !.found = @ \ {r}]
                     ELSE IF talk[d].at = "save" /\ talk[d].room = r THEN Silent
                     ELSE talk[d]]
    BY <1>3 DEF DestroyBroken
  <2>2. /\ r \in x.found
       /\ rooms' = [rooms EXCEPT ![r] = Destroyed]
       /\ roles' = [roles EXCEPT ![r] = [p \in Persons |-> Outside]]
       /\ talk' = [d \in Talkers |->
                     IF d = c /\ x.found = {r} THEN Silent
                     ELSE IF d = c THEN [x EXCEPT !.found = @ \ {r}]
                     ELSE IF talk[d].at = "save" /\ talk[d].room = r THEN Silent
                     ELSE talk[d]]
    BY <2>0, <2>1
  <2>3. r \in Rooms /\ r \in bereft
    BY <2>1 DEF RoomsInv, TalkFits
  <2>4. /\ rooms' \in [Rooms -> Room] /\ rooms'[r] = Destroyed /\ \A s \in Rooms \ {r} : rooms'[s] = rooms[s]
        /\ roles' \in [Rooms -> [Persons -> Roles \union {Outside}]]
        /\ roles'[r] = [p \in Persons |-> Outside] /\ \A s \in Rooms \ {r} : roles'[s] = roles[s]
        /\ UNCHANGED <<bereft, widened, disowned>>
    BY <1>1, <1>3, <2>2, <2>3 DEF RoomsTypeOK, Room, DestroyBroken
  <2>5. Members(r)' = {} /\ \A s \in Rooms \ {r} : Members(s)' = Members(s) /\ (Standing(s)' <=> Standing(s))
    BY <2>4 DEF Members, Standing
  <2>6. RoomsTypeOK'
    BY <1>1, <2>4, <2>5 DEF RoomsTypeOK
  <2>7. Destroyed.kind = "destroyed"
    BY DEF Destroyed
  <2>8. PairKept' /\ PairOnly' /\ RepairsOnlyBroken'
    <3>1. PairKept'
      BY <2>3, <2>4, <2>5, <2>7 DEF RoomsInv, PairKept
    <3>2. PairOnly'
      BY <2>4, <2>5, <2>7 DEF RoomsInv, PairOnly
    <3>3. RepairsOnlyBroken'
      BY <2>3, <2>4, <2>7 DEF RoomsInv, RepairsOnlyBroken
    <3> QED
      BY <3>1, <3>2, <3>3
  <2>9. ASSUME NEW d \in Talkers PROVE talk'[d] \in TalkKinds /\ TalkFits(talk[d])'
    <3>1. TalkFits(talk[d]) /\ talk[d] \in TalkKinds
      BY DEF RoomsInv, RoomsTyped
    <3>2. CASE talk'[d] = Silent
      BY <3>2, SilentKind DEF TalkFits, Silent
    <3>3. CASE d = c /\ x.found # {r}
      <4> DEFINE next == [x EXCEPT !.found = @ \ {r}]
      <4>1. next \in [at : {"repair"}, found : SUBSET Rooms] /\ next.at = "repair" /\ next.found = x.found \ {r}
        OBVIOUS
      <4>2. talk'[d] = next
        BY <2>2, <3>3
      <4> HIDE DEF next
      <4>3. x.found \subseteq bereft
        BY <2>1 DEF RoomsInv, TalkFits
      <4> QED
        BY <2>4, <4>1, <4>2, <4>3 DEF TalkKinds, TalkFits
    <3>4. CASE d # c /\ ~(talk[d].at = "save" /\ talk[d].room = r)
      <4>1. talk'[d] = talk[d]
        BY <2>2, <3>4
      <4>2. talk[d].at = "save" => talk[d].room \in Rooms \ {r}
        BY <3>4, TalkTyped DEF RoomsInv
      <4> QED
        BY <2>4, <2>5, <3>1, <4>1, <4>2 DEF TalkFits
    <3> QED
      BY <2>2, <3>2, <3>3, <3>4
  <2>10. talk' \in [Talkers -> TalkKinds]
    <3>1. talk' = [d \in Talkers |-> talk'[d]]
      BY <2>2
    <3> QED
      BY <2>9, <3>1
  <2> QED
    BY <2>6, <2>8, <2>9, <2>10 DEF RoomsInv, RoomsTyped
<1> QED
  BY <1>2, <1>3

\* Conversations begin without any, and nobody says anything.
LEMMA RoomsBegin == ASSUME RoomsInit PROVE RoomsInv /\ SerialRoomsInv
<1>1. \A r \in Rooms : rooms[r] = Unbuilt /\ rooms[r].kind = "unbuilt" /\ rooms[r] # Destroyed /\ ~Open(r)
  BY DEF RoomsInit, Unbuilt, Destroyed, Open, Standing
<1>2. \A r \in Rooms : Members(r) = {}
  BY DEF RoomsInit, Members
<1>3. \A c \in Talkers : talk[c] = Silent
  BY DEF RoomsInit
<1>4. RoomsTyped
  BY <1>2, <1>3, SilentKind DEF RoomsInit, RoomsTyped, RoomsTypeOK, Room
<1>5. RoomsInv
  BY <1>1, <1>3, <1>4, SilentKind DEF RoomsInv, PairKept, PairOnly, RepairsOnlyBroken
<1>6. \A kind \in {"direct", "discussion"} : OpenOf(kind) = {}
  BY <1>1 DEF OpenOf
<1>7. OneAtATime /\ HasOwner /\ PairOnce /\ AtMostOne(OpenOf("discussion"))
  BY <1>1, <1>3, <1>6 DEF OneAtATime, HasOwner, PairOnce, AtMostOne
<1> QED
  BY <1>3, <1>5, <1>7, SilentKind DEF SerialRoomsInv

\* Whoever races, memberships are of standing conversations, and what a repair destroys has
\* lost a member.
LEMMA RoomsStep == RoomsInv /\ [RoomsNext]_roomVars => RoomsInv'
<1>1. ASSUME RoomsInv, UNCHANGED roomVars PROVE RoomsInv'
  <2>1. UNCHANGED <<rooms, roles, talk, bereft, widened, disowned>>
    BY <1>1 DEF roomVars
  <2>2. RoomsTyped' /\ (\A r \in Rooms : Members(r)' = Members(r) /\ (Standing(r)' <=> Standing(r)))
    BY <1>1, <2>1 DEF RoomsInv, RoomsTyped, RoomsTypeOK, Members, Standing
  <2>3. PairKept' /\ PairOnly' /\ RepairsOnlyBroken'
    BY <1>1, <2>1, <2>2 DEF RoomsInv, PairKept, PairOnly, RepairsOnlyBroken
  <2>4. ASSUME NEW c \in Talkers PROVE TalkFits(talk[c])'
    BY <1>1, <2>1 DEF RoomsInv, TalkFits, Standing, Members
  <2> QED
    BY <2>2, <2>3, <2>4 DEF RoomsInv
<1>2. ASSUME RoomsInv, RoomsNext PROVE RoomsInv'
  <2>1. PICK c \in Talkers : Opening(c) \/ Going(c)
    BY <1>2 DEF RoomsNext
  <2> QED
    BY <1>2, <2>1, FoundingStep, LookStep, AddingStep, LeavingStep, ClosingStep DEF Opening, Going
<1> QED
  BY <1>1, <1>2

\* Whoever races, memberships have a role and belong to standing conversations, and the repair
\* destroys only direct messages that lost a member.
THEOREM RepairsTheBroken == RoomsSpec => [](RoomsTypeOK /\ RepairsOnlyBroken)
<1>1. RoomsInit => RoomsInv
  BY RoomsBegin
<1>2. RoomsInv => RoomsTypeOK /\ RepairsOnlyBroken
  BY DEF RoomsInv, RoomsTyped
<1> QED
  BY <1>1, <1>2, RoomsStep, PTL DEF RoomsSpec

\* One request goes on while the others are silent.
LEMMA OthersSilent ==
  ASSUME RoomsInv, SerialRoomsInv, NEW c \in Talkers, (Quiet /\ Opening(c)) \/ Going(c)
  PROVE  \A d \in Talkers \ {c} : talk[d] = Silent
<1>1. CASE Going(c)
  <2>1. talk[c] # Silent
    <3>1. ASSUME talk[c].at \in {"direct", "discussion", "join", "save", "rules", "sync", "repair"}
          PROVE  talk[c] # Silent
      BY <3>1 DEF Silent
    <3>2. MakeDirect(c) => talk[c].at = "direct"
      BY DEF MakeDirect
    <3>3. MakeDiscussion(c) => talk[c].at = "discussion"
      BY DEF MakeDiscussion
    <3>4. Join(c) => talk[c].at = "join"
      BY DEF Join
    <3>5. SaveRoles(c) => talk[c].at = "save"
      BY DEF SaveRoles
    <3>6. ReadRules(c) => talk[c].at = "rules"
      BY DEF ReadRules
    <3>7. SyncOne(c) \/ SyncRest(c) => talk[c].at = "sync"
      BY DEF SyncOne, SyncRest
    <3>8. DestroyBroken(c) => talk[c].at = "repair"
      BY DEF DestroyBroken
    <3>9. DropTalk(c) => talk[c] # Silent
      BY DEF DropTalk
    <3> QED
      BY <1>1, <3>1, <3>2, <3>3, <3>4, <3>5, <3>6, <3>7, <3>8, <3>9 DEF Going
  <2> QED
    BY <2>1 DEF SerialRoomsInv, OneAtATime
<1> QED
  BY <1>1 DEF Quiet

\* It leaves what holds serially when it leaves owners, pairs and discussions as they should be.
LEMMA StaysSerial ==
  ASSUME NEW c \in Talkers, \A d \in Talkers \ {c} : talk'[d] = Silent,
         HasOwner', PairOnce', AtMostOne(OpenOf("discussion"))', StillSo(talk[c])'
  PROVE  SerialRoomsInv'
<1>1. \A d \in Talkers \ {c} : StillSo(talk[d])'
  BY DEF StillSo, Silent
<1> QED
  BY <1>1 DEF SerialRoomsInv, OneAtATime

\* Roles of one conversation are written.
LEMMA RolesWritten ==
  ASSUME RoomsInv, SerialRoomsInv, NEW r \in Rooms, UNCHANGED rooms,
         \A s \in Rooms \ {r} : roles'[s] = roles[s],
         Members(r)' \subseteq Members(r) \/ r \in widened',
         disowned \subseteq disowned', widened \subseteq widened',
         Open(r) /\ r \notin disowned' => \E p \in Persons : roles'[r][p] = "OWNER"
  PROVE  HasOwner' /\ PairOnce' /\ AtMostOne(OpenOf("discussion"))'
<1>1. (\A s \in Rooms : Open(s)' <=> Open(s)) /\ \A kind \in {"direct", "discussion"} : OpenOf(kind)' = OpenOf(kind)
  BY DEF Open, Standing, OpenOf
<1>2. \A s \in Rooms \ {r} : Members(s)' = Members(s)
  BY DEF Members
<1>3. HasOwner'
  BY <1>1 DEF SerialRoomsInv, HasOwner
<1>4. ASSUME NEW s \in OpenOf("direct") \ widened', NEW p \in Persons, NEW q \in Persons, p # q, Members(s)' = {p, q}
      PROVE  s \in OpenOf("direct") \ widened /\ Members(s) = {p, q}
  <2>1. s \in Rooms /\ rooms[s].kind = "direct" /\ s \notin widened
    BY DEF OpenOf
  <2>2. PICK a \in Persons, b \in Persons : Members(s) \subseteq {a, b}
    BY <2>1 DEF RoomsInv, PairOnly
  <2>3. Members(s)' \subseteq Members(s)
    BY <1>2, <2>1
  <2> QED
    BY <1>4, <2>1, <2>2, <2>3
<1>5. PairOnce'
  BY <1>1, <1>4 DEF SerialRoomsInv, PairOnce
<1>6. AtMostOne(OpenOf("discussion"))'
  BY <1>1 DEF SerialRoomsInv, AtMostOne
<1> QED
  BY <1>3, <1>5, <1>6

\* Nothing of a conversation is written.
LEMMA RolesRead ==
  ASSUME SerialRoomsInv, UNCHANGED <<rooms, roles, widened>>, disowned \subseteq disowned'
  PROVE  HasOwner' /\ PairOnce' /\ AtMostOne(OpenOf("discussion"))'
BY DEF SerialRoomsInv, HasOwner, PairOnce, AtMostOne, OpenOf, Open, Standing, Members

\* A conversation is founded with its owner, and is the only one of its kind where it must be.
LEMMA FoundedOnce ==
  ASSUME RoomsInv, SerialRoomsInv, NEW r \in Rooms, NEW kind \in {"group", "direct", "discussion"}, NEW given \in BOOLEAN, NEW owner \in Persons,
         NEW others \in SUBSET (Persons \ {owner}), Founded(r, kind, given, owner, others),
         kind = "direct" => \A s \in OpenOf("direct") : Members(s) # {owner} \union others,
         kind = "discussion" => OpenOf("discussion") = {}
  PROVE  HasOwner' /\ PairOnce' /\ AtMostOne(OpenOf("discussion"))'
<1>1. RoomsTypeOK /\ rooms[r] = Unbuilt
  BY DEF RoomsInv, RoomsTyped, Founded
<1> DEFINE chat == [kind |-> kind, given |-> given, trashed |-> FALSE]
<1>2. chat.kind = kind /\ ~chat.trashed /\ chat \notin {Unbuilt, Destroyed}
  BY DEF Unbuilt, Destroyed
<1>3. rooms' = [rooms EXCEPT ![r] = chat] /\ UNCHANGED <<widened, disowned>>
  BY DEF Founded
<1> HIDE DEF chat
<1>4. rooms'[r] = chat /\ \A s \in Rooms \ {r} : rooms'[s] = rooms[s]
  BY <1>1, <1>3 DEF RoomsTypeOK
<1>5. /\ \A p \in Persons : roles'[r][p] = IF p = owner THEN "OWNER" ELSE IF p \in others THEN "MEMBER" ELSE Outside
      /\ \A s \in Rooms \ {r} : roles'[s] = roles[s]
  BY <1>1 DEF RoomsTypeOK, Founded
<1>6. Members(r)' = {owner} \union others /\ \A s \in Rooms \ {r} : Members(s)' = Members(s)
  BY <1>5 DEF Members, Outside
<1>7. \A s \in Rooms \ {r} : Open(s)' <=> Open(s)
  BY <1>4 DEF Open, Standing
<1>8. HasOwner'
  <2>1. roles'[r][owner] = "OWNER"
    BY <1>5
  <2> QED
    BY <1>3, <1>5, <1>7, <2>1 DEF SerialRoomsInv, HasOwner
<1>9. /\ \A k \in {"direct", "discussion"} : OpenOf(k)' \ {r} = OpenOf(k) \ {r}
      /\ \A k \in {"direct", "discussion"} : r \in OpenOf(k)' => k = kind
  BY <1>2, <1>4, <1>7 DEF OpenOf
<1>10. PairOnce'
  <2> SUFFICES ASSUME NEW s \in OpenOf("direct")' \ widened, NEW t \in OpenOf("direct")' \ widened,
                      NEW p \in Persons, NEW q \in Persons, p # q, Members(s)' = {p, q}, Members(t)' = {p, q}
               PROVE  s = t
    BY <1>3 DEF PairOnce
  <2>1. CASE s # r /\ t # r
    <3>1. s \in OpenOf("direct") /\ t \in OpenOf("direct") /\ s \in Rooms /\ t \in Rooms
      BY <1>9, <2>1 DEF OpenOf
    <3>2. Members(s) = {p, q} /\ Members(t) = {p, q}
      BY <1>6, <2>1, <3>1
    <3> QED
      BY <3>1, <3>2 DEF SerialRoomsInv, PairOnce
  <2>2. ASSUME NEW u \in OpenOf("direct")', u # r, r \in OpenOf("direct")' PROVE Members(u)' # Members(r)'
    <3>1. u \in OpenOf("direct") /\ u \in Rooms /\ kind = "direct"
      BY <1>9, <2>2 DEF OpenOf
    <3> QED
      BY <1>6, <2>2, <3>1
  <2> QED
    BY <2>1, <2>2
<1>11. AtMostOne(OpenOf("discussion"))'
  BY <1>9 DEF SerialRoomsInv, AtMostOne
<1> QED
  BY <1>8, <1>10, <1>11

\* A conversation is closed.
LEMMA ClosedOnce ==
  ASSUME RoomsInv, SerialRoomsInv, NEW r \in Rooms, ~Open(r)',
         \A s \in Rooms \ {r} : rooms'[s] = rooms[s] /\ roles'[s] = roles[s], UNCHANGED <<widened, disowned>>
  PROVE  HasOwner' /\ PairOnce' /\ AtMostOne(OpenOf("discussion"))'
<1>1. \A s \in Rooms \ {r} : (Open(s)' <=> Open(s)) /\ Members(s)' = Members(s)
  BY DEF Open, Standing, Members
<1>2. \A kind \in {"direct", "discussion"} : OpenOf(kind)' \subseteq OpenOf(kind) \ {r}
  BY <1>1 DEF OpenOf
<1>3. HasOwner'
  BY <1>1 DEF SerialRoomsInv, HasOwner
<1>4. \A s \in OpenOf("direct")' : s \in Rooms \ {r}
  BY <1>2 DEF OpenOf
<1>5. PairOnce'
  BY <1>1, <1>2, <1>4 DEF SerialRoomsInv, PairOnce
<1> QED
  BY <1>2, <1>3, <1>5 DEF SerialRoomsInv, AtMostOne

\* One request at a time: what the first looks find,
LEMMA SerialLook ==
  ASSUME RoomsInv, SerialRoomsInv, NEW c \in Talkers,
         \/ FindDirect(c) \/ FindDiscussion(c) \/ LoadToAdd(c) \/ LoadToChange(c) \/ LoadToTransfer(c)
         \/ SetRules(c) \/ ReadRules(c) \/ FindBroken(c) \/ DropTalk(c)
  PROVE  /\ UNCHANGED <<rooms, roles, widened>> /\ disowned \subseteq disowned'
         /\ \A d \in Talkers \ {c} : talk'[d] = talk[d]
         /\ StillSo(talk[c])'
<1>1. \A next : Says(c, next) => talk'[c] = next /\ \A d \in Talkers \ {c} : talk'[d] = talk[d]
  BY DEF Says, RoomsInv, RoomsTyped
<1>2. ASSUME NEW next, Says(c, next), next.at \notin {"direct", "discussion", "save"}
      PROVE  (\A d \in Talkers \ {c} : talk'[d] = talk[d]) /\ StillSo(talk[c])'
  BY <1>1, <1>2 DEF StillSo
<1>3. CASE FindDirect(c)
  <2>1. PICK p \in Persons, q \in Persons : /\ \A r \in OpenOf("direct") : Members(r) # {p, q}
                                          /\ Says(c, [at |-> "direct", owner |-> p, other |-> q])
    BY <1>3 DEF FindDirect
  <2> DEFINE next == [at |-> "direct", owner |-> p, other |-> q]
  <2>2. next.at = "direct" /\ next.owner = p /\ next.other = q /\ Says(c, next)
    BY <2>1
  <2> HIDE DEF next
  <2>3. UNCHANGED <<rooms, roles, widened, disowned>>
    BY <1>3 DEF FindDirect
  <2>4. OpenOf("direct")' = OpenOf("direct") /\ \A r \in Rooms : Members(r)' = Members(r)
    BY <2>3 DEF OpenOf, Open, Standing, Members
  <2>5. StillSo(talk[c])'
    BY <1>1, <2>1, <2>2, <2>4 DEF StillSo, OpenOf
  <2> QED
    BY <1>1, <2>2, <2>3, <2>5
<1>4. CASE FindDiscussion(c)
  <2>1. UNCHANGED <<rooms, roles, widened, disowned>>
    BY <1>4 DEF FindDiscussion
  <2>2. CASE Discussions = {}
    <3>1. PICK p \in Persons : Says(c, [at |-> "discussion", owner |-> p])
      BY <1>4, <2>2 DEF FindDiscussion
    <3>2. OpenOf("discussion")' = {}
      BY <2>1, <2>2 DEF Discussions, OpenOf, Open, Standing
    <3>3. talk'[c].at = "discussion" /\ \A d \in Talkers \ {c} : talk'[d] = talk[d]
      BY <1>1, <3>1
    <3> QED
      BY <2>1, <3>2, <3>3 DEF StillSo
  <2>3. CASE Discussions # {}
    <3>1. PICK p \in Persons, r \in Discussions : Says(c, [at |-> "join", room |-> r, who |-> {p}, role |-> "MEMBER"])
      BY <1>4, <2>3 DEF FindDiscussion
    <3> QED
      BY <1>2, <2>1, <3>1
  <2> QED
    BY <2>2, <2>3
<1>5. CASE LoadToAdd(c)
  <2>1. PICK r \in Rooms, who \in SUBSET Persons, role \in Roles :
           Says(c, [at |-> "join", room |-> r, who |-> who, role |-> role])
    BY <1>5 DEF LoadToAdd, Members
  <2> QED
    BY <1>2, <1>5, <2>1 DEF LoadToAdd
<1>6. CASE SetRules(c)
  <2>1. PICK r \in Rooms : Says(c, [at |-> "rules", room |-> r])
    BY <1>6 DEF SetRules
  <2> QED
    BY <1>2, <1>6, <2>1 DEF SetRules
<1>7. CASE FallsSilent(c) /\ UNCHANGED <<rooms, roles, widened, disowned>>
  BY <1>2, <1>7 DEF FallsSilent, Silent
<1>8. CASE ReadRules(c)
  <2>1. UNCHANGED <<rooms, roles, widened, disowned>>
    BY <1>8 DEF ReadRules
  <2>2. FallsSilent(c) \/ \E add, drop : Says(c, [at |-> "sync", room |-> talk[c].room, add |-> add, drop |-> drop])
    BY <1>8 DEF ReadRules
  <2> QED
    BY <1>2, <1>7, <2>1, <2>2
<1>9. CASE FindBroken(c)
  <2>1. Says(c, [at |-> "repair", found |-> {r \in OpenOf("direct") : Cardinality(Members(r)) < 2}])
    BY <1>9 DEF FindBroken
  <2> QED
    BY <1>2, <1>9, <2>1 DEF FindBroken
<1>10. CASE DropTalk(c)
  BY <1>7, <1>10 DEF DropTalk
<1>11. ASSUME NEW r, NEW changes, Says(c, [at |-> "save", room |-> r, rows |-> changes]),
              UNCHANGED <<rooms, roles, widened>>, disowned \subseteq disowned',
              \/ r \in disowned'
              \/ \E p \in Persons \ DOMAIN changes : roles[r][p] = "OWNER"
              \/ \E p \in DOMAIN changes : changes[p] = "OWNER" /\ \A q \in DOMAIN changes : changes[q] # Outside
       PROVE  (\A d \in Talkers \ {c} : talk'[d] = talk[d]) /\ StillSo(talk[c])'
  <2> DEFINE next == [at |-> "save", room |-> r, rows |-> changes]
  <2>1. next.at = "save" /\ next.room = r /\ next.rows = changes /\ Says(c, next)
    BY <1>11
  <2> HIDE DEF next
  <2>2. LeavesOwner(next)'
    BY <1>11, <2>1 DEF LeavesOwner
  <2> QED
    BY <1>1, <2>1, <2>2 DEF StillSo
<1>12. CASE LoadToChange(c)
  <2>1. PICK r \in Rooms : \E p \in Members(r), role \in Roles \union {Outside} :
           /\ Open(r) /\ roles[r][p] \notin {"OWNER", role}
           /\ Says(c, [at |-> "save", room |-> r, rows |-> [x \in {p} |-> role]])
    BY <1>12 DEF LoadToChange
  <2>2. PICK p \in Members(r), role \in Roles \union {Outside} :
           /\ Open(r) /\ roles[r][p] \notin {"OWNER", role}
           /\ Says(c, [at |-> "save", room |-> r, rows |-> [x \in {p} |-> role]])
    BY <2>1
  <2>3. UNCHANGED <<rooms, roles, widened, disowned>>
    BY <1>12 DEF LoadToChange
  <2>4. r \in disowned' \/ \E q \in Persons \ {p} : roles[r][q] = "OWNER"
    BY <2>2, <2>3 DEF SerialRoomsInv, HasOwner
  <2>5. DOMAIN [x \in {p} |-> role] = {p}
    OBVIOUS
  <2> QED
    BY <1>11, <2>2, <2>3, <2>4, <2>5
<1>13. CASE LoadToTransfer(c)
  <2>1. PICK r \in Rooms : \E owner, heir \in Members(r) :
           /\ Open(r) /\ roles[r][owner] = "OWNER"
           /\ LET written == {owner} \union {p \in {heir} : roles[r][p] # "OWNER"}
              IN Says(c, [at |-> "save", room |-> r, rows |-> [x \in written |-> IF x = owner THEN "ADMIN" ELSE "OWNER"]])
           /\ disowned' = disowned \union {x \in {r} : owner = heir}
    BY <1>13 DEF LoadToTransfer
  <2>2. PICK owner \in Members(r), heir \in Members(r) :
           /\ Open(r) /\ roles[r][owner] = "OWNER"
           /\ LET written == {owner} \union {p \in {heir} : roles[r][p] # "OWNER"}
              IN Says(c, [at |-> "save", room |-> r, rows |-> [x \in written |-> IF x = owner THEN "ADMIN" ELSE "OWNER"]])
           /\ disowned' = disowned \union {x \in {r} : owner = heir}
    BY <2>1
  <2> DEFINE written == {owner} \union {p \in {heir} : roles[r][p] # "OWNER"}
             changes == [x \in written |-> IF x = owner THEN "ADMIN" ELSE "OWNER"]
  <2>3. DOMAIN changes = written /\ \A x \in written : changes[x] = IF x = owner THEN "ADMIN" ELSE "OWNER"
    OBVIOUS
  <2>4. Says(c, [at |-> "save", room |-> r, rows |-> changes]) /\ disowned \subseteq disowned'
    BY <2>2
  <2>5. heir \in Persons
    BY DEF Members
  <2> HIDE DEF changes
  <2>6. \/ r \in disowned'
        \/ \E p \in Persons \ DOMAIN changes : roles[r][p] = "OWNER"
        \/ \E p \in DOMAIN changes : changes[p] = "OWNER" /\ \A q \in DOMAIN changes : changes[q] # Outside
    <3>1. CASE owner = heir
      BY <2>2, <3>1
    <3>2. CASE owner # heir /\ roles[r][heir] = "OWNER"
      BY <2>3, <2>5, <3>2
    <3>3. CASE owner # heir /\ roles[r][heir] # "OWNER"
      <4>1. heir \in DOMAIN changes /\ changes[heir] = "OWNER"
        BY <2>3, <3>3
      <4>2. \A q \in DOMAIN changes : changes[q] # Outside
        BY <2>3 DEF Outside
      <4> QED
        BY <4>1, <4>2
    <3> QED
      BY <3>1, <3>2, <3>3
  <2>7. UNCHANGED <<rooms, roles, widened>>
    BY <1>13 DEF LoadToTransfer
  <2> QED
    BY <1>11, <2>4, <2>6, <2>7
<1> QED
  BY <1>3, <1>4, <1>5, <1>6, <1>8, <1>9, <1>10, <1>12, <1>13 DEF FindDirect, FindDiscussion, LoadToAdd, LoadToChange,
     SetRules, ReadRules, FindBroken, DropTalk, LoadToTransfer

\* what it founds and closes,
LEMMA SerialFounding ==
  ASSUME RoomsInv, SerialRoomsInv, NEW c \in Talkers,
         CreateGroup(c) \/ MakeDirect(c) \/ MakeDiscussion(c) \/ Trash(c) \/ DestroyBroken(c),
         \A d \in Talkers \ {c} : talk[d] = Silent
  PROVE  SerialRoomsInv'
<1>1. \A next : Says(c, next) => talk'[c] = next /\ \A d \in Talkers \ {c} : talk'[d] = Silent
  BY DEF Says, RoomsInv, RoomsTyped
<1>2. ASSUME NEW next, Says(c, next), next.at \notin {"direct", "discussion", "save"}
      PROVE  (\A d \in Talkers \ {c} : talk'[d] = Silent) /\ StillSo(talk[c])'
  BY <1>1, <1>2 DEF StillSo
<1>3. Silent.at = "silent"
  BY DEF Silent
<1>4. CASE CreateGroup(c)
  <2>1. PICK r \in Rooms, p \in Persons, given \in BOOLEAN : \E others \in SUBSET (Persons \ {p}) :
           /\ Founded(r, "group", given, p, others)
           /\ FallsSilent(c) \/ Says(c, [at |-> "rules", room |-> r])
    BY <1>4 DEF CreateGroup
  <2>2. PICK others \in SUBSET (Persons \ {p}) :
           /\ Founded(r, "group", given, p, others)
           /\ FallsSilent(c) \/ Says(c, [at |-> "rules", room |-> r])
    BY <2>1
  <2>3. (\A d \in Talkers \ {c} : talk'[d] = Silent) /\ StillSo(talk[c])'
    BY <1>2, <1>3, <2>2 DEF FallsSilent
  <2> QED
    BY <2>2, <2>3, FoundedOnce, StaysSerial
<1>5. CASE MakeDirect(c)
  <2>1. PICK r \in Rooms, given \in BOOLEAN : Founded(r, "direct", given, talk[c].owner, {talk[c].other})
    BY <1>5 DEF MakeDirect
  <2>2. /\ talk[c].owner \in Persons /\ talk[c].other \in Persons /\ talk[c].owner # talk[c].other
        /\ \A s \in OpenOf("direct") : Members(s) # {talk[c].owner, talk[c].other}
    BY <1>5, TalkTyped DEF MakeDirect, RoomsInv, TalkFits, SerialRoomsInv, StillSo
  <2>3. (\A d \in Talkers \ {c} : talk'[d] = Silent) /\ StillSo(talk[c])'
    BY <1>2, <1>3, <1>5 DEF MakeDirect, FallsSilent
  <2>4. {talk[c].owner} \union {talk[c].other} = {talk[c].owner, talk[c].other}
    OBVIOUS
  <2> QED
    BY <2>1, <2>2, <2>3, <2>4, FoundedOnce, StaysSerial
<1>6. CASE MakeDiscussion(c)
  <2>1. PICK r \in Rooms, others \in SUBSET (Persons \ {talk[c].owner}) : Founded(r, "discussion", FALSE, talk[c].owner, others)
    BY <1>6 DEF MakeDiscussion
  <2>2. talk[c].owner \in Persons /\ OpenOf("discussion") = {}
    BY <1>6, TalkTyped DEF MakeDiscussion, RoomsInv, SerialRoomsInv, StillSo
  <2>3. (\A d \in Talkers \ {c} : talk'[d] = Silent) /\ StillSo(talk[c])'
    BY <1>2, <1>3, <1>6 DEF MakeDiscussion, FallsSilent
  <2> QED
    BY <2>1, <2>2, <2>3, FoundedOnce, StaysSerial
<1>7. CASE Trash(c)
  <2>1. PICK r \in Rooms : Open(r) /\ rooms' = [rooms EXCEPT ![r].trashed = TRUE]
    BY <1>7 DEF Trash
  <2>2. rooms[r] \in [kind : {"group", "direct", "discussion"}, given : BOOLEAN, trashed : BOOLEAN] /\ rooms \in [Rooms -> Room]
    BY <2>1, RoomKinds DEF Open, RoomsInv, RoomsTyped, RoomsTypeOK
  <2>3. UNCHANGED <<roles, talk, widened, disowned>>
    BY <1>7 DEF Trash
  <2>4. ~Open(r)' /\ \A s \in Rooms \ {r} : rooms'[s] = rooms[s] /\ roles'[s] = roles[s]
    BY <2>1, <2>2, <2>3 DEF Open
  <2>5. talk[c] = Silent
    BY <1>7 DEF Trash
  <2>6. (\A d \in Talkers \ {c} : talk'[d] = Silent) /\ StillSo(talk[c])'
    BY <1>3, <2>3, <2>5 DEF StillSo
  <2> QED
    BY <2>3, <2>4, <2>6, ClosedOnce, StaysSerial
<1>8. CASE DestroyBroken(c)
  <2>1. PICK r \in talk[c].found :
       /\ rooms' = [rooms EXCEPT ![r] = Destroyed]
       /\ roles' = [roles EXCEPT ![r] = [p \in Persons |-> Outside]]
       /\ talk' = [d \in Talkers |->
                     IF d = c /\ talk[c].found = {r} THEN Silent
                     ELSE IF d = c THEN [talk[c] EXCEPT !.found = @ \ {r}]
                     ELSE IF talk[d].at = "save" /\ talk[d].room = r THEN Silent
                     ELSE talk[d]]
    BY <1>8 DEF DestroyBroken
  <2>2. PICK x \in [at : {"repair"}, found : SUBSET Rooms] : x = talk[c]
    BY <1>8, TalkTyped DEF DestroyBroken, RoomsInv
  <2>3. r \in Rooms /\ UNCHANGED <<widened, disowned>>
    BY <1>8, <2>1, <2>2 DEF DestroyBroken
  <2>4. rooms'[r] = Destroyed /\ \A s \in Rooms \ {r} : rooms'[s] = rooms[s] /\ roles'[s] = roles[s]
    BY <2>1, <2>3 DEF RoomsInv, RoomsTyped, RoomsTypeOK
  <2>5. ~Open(r)'
    BY <2>4 DEF Open, Standing
  <2>6. talk'[c] = Silent \/ talk'[c] = [x EXCEPT !.found = @ \ {r}]
    BY <2>1, <2>2
  <2>7. talk'[c].at \in {"silent", "repair"}
    BY <1>3, <2>6
  <2>8. (\A d \in Talkers \ {c} : talk'[d] = Silent) /\ StillSo(talk[c])'
    BY <2>1, <2>7 DEF StillSo
  <2> QED
    BY <2>3, <2>4, <2>5, <2>8, ClosedOnce, StaysSerial
<1> QED
  BY <1>4, <1>5, <1>6, <1>7, <1>8

\* the members it adds,
LEMMA SerialAdding ==
  ASSUME RoomsInv, SerialRoomsInv, NEW c \in Talkers, Join(c) \/ SyncOne(c),
         \A d \in Talkers \ {c} : talk[d] = Silent
  PROVE  SerialRoomsInv'
<1>1. \A next : Says(c, next) => talk'[c] = next /\ \A d \in Talkers \ {c} : talk'[d] = Silent
  BY DEF Says, RoomsInv, RoomsTyped
<1>2. ASSUME NEW next, Says(c, next), next.at \notin {"direct", "discussion", "save"}
      PROVE  (\A d \in Talkers \ {c} : talk'[d] = Silent) /\ StillSo(talk[c])'
  BY <1>1, <1>2 DEF StillSo
<1>3. CASE FallsSilent(c) /\ UNCHANGED <<rooms, roles, widened, disowned>>
  BY <1>2, <1>3, RolesRead, StaysSerial DEF FallsSilent, Silent
<1>4. ASSUME NEW r \in Rooms, NEW given \in [Persons -> Roles \union {Outside}], roles' = [roles EXCEPT ![r] = given],
             \A p \in Members(r) : given[p] = roles[r][p], widened' = widened \union {r}, UNCHANGED <<rooms, disowned>>,
             NEW next, Says(c, next), next.at \notin {"direct", "discussion", "save"}
      PROVE  SerialRoomsInv'
  <2>1. roles'[r] = given /\ \A s \in Rooms \ {r} : roles'[s] = roles[s]
    BY <1>4 DEF RoomsInv, RoomsTyped, RoomsTypeOK
  <2>2. Open(r) /\ r \notin disowned' => \E p \in Persons : roles'[r][p] = "OWNER"
    <3> SUFFICES ASSUME Open(r), r \notin disowned PROVE \E p \in Persons : roles'[r][p] = "OWNER"
      BY <1>4
    <3>1. PICK p \in Persons : roles[r][p] = "OWNER"
      BY DEF SerialRoomsInv, HasOwner
    <3>2. p \in Members(r)
      BY <3>1 DEF Members, Outside
    <3> QED
      BY <1>4, <2>1, <3>1, <3>2
  <2>3. HasOwner' /\ PairOnce' /\ AtMostOne(OpenOf("discussion"))'
    BY <1>4, <2>1, <2>2, RolesWritten
  <2> QED
    BY <1>2, <1>4, <2>3, StaysSerial
<1>5. RoomsTypeOK
  BY DEF RoomsInv, RoomsTyped
<1>6. CASE Join(c)
  <2>1. PICK r \in Rooms, who \in SUBSET Persons, role \in Roles :
           talk[c].room = r /\ talk[c].who = who /\ talk[c].role = role
    BY <1>6, TalkTyped DEF Join, RoomsInv
  <2>2. CASE Standing(r) /\ who \intersect Members(r) = {}
    <3> DEFINE given == [p \in Persons |-> IF p \in who THEN role ELSE roles[r][p]]
    <3>1. roles[r] \in [Persons -> Roles \union {Outside}]
      BY <1>5, RoomKinds
    <3>2. given \in [Persons -> Roles \union {Outside}] /\ \A p \in Members(r) : given[p] = roles[r][p]
      BY <2>2, <3>1 DEF Members
    <3>3. roles' = [roles EXCEPT ![r] = given] /\ widened' = widened \union {r} /\ Says(c, Silent)
          /\ UNCHANGED <<rooms, disowned>>
      BY <1>6, <2>1, <2>2 DEF Join, FallsSilent
    <3>4. Silent.at = "silent"
      BY DEF Silent
    <3> HIDE DEF given
    <3> QED
      BY <1>4, <3>2, <3>3, <3>4
  <2>3. CASE ~(Standing(r) /\ who \intersect Members(r) = {})
    BY <1>3, <1>6, <2>1, <2>3 DEF Join
  <2> QED
    BY <2>2, <2>3
<1>7. CASE SyncOne(c)
  <2>1. PICK d \in [at : {"sync"}, room : Rooms, add : SUBSET Persons, drop : SUBSET Persons] : d = talk[c]
    BY <1>7, TalkTyped DEF SyncOne, RoomsInv
  <2>2. PICK p \in d.add : IF Standing(d.room) /\ p \notin Members(d.room)
          THEN /\ roles' = [roles EXCEPT ![d.room][p] = "MEMBER"]
               /\ widened' = widened \union {d.room}
               /\ Says(c, [d EXCEPT !.add = @ \ {p}])
          ELSE FallsSilent(c) /\ UNCHANGED <<roles, widened>>
    BY <1>7, <2>1 DEF SyncOne
  <2>3. PICK r \in Rooms : r = d.room
    OBVIOUS
  <2>4. CASE Standing(r) /\ p \notin Members(r)
    <3> DEFINE given == [roles[r] EXCEPT ![p] = "MEMBER"]
               next == [d EXCEPT !.add = @ \ {p}]
    <3>1. roles[r] \in [Persons -> Roles \union {Outside}] /\ roles \in [Rooms -> [Persons -> Roles \union {Outside}]]
      BY <1>5 DEF RoomsTypeOK
    <3>2. given \in [Persons -> Roles \union {Outside}] /\ \A q \in Members(r) : given[q] = roles[r][q]
      BY <2>4, <3>1 DEF Roles, Members
    <3>3. roles' = [roles EXCEPT ![r] = given] /\ widened' = widened \union {r} /\ Says(c, next)
          /\ UNCHANGED <<rooms, disowned>>
      BY <1>7, <2>2, <2>3, <2>4, <3>1 DEF SyncOne
    <3>4. next.at = "sync"
      OBVIOUS
    <3> HIDE DEF given, next
    <3> QED
      BY <1>4, <3>2, <3>3, <3>4
  <2>5. CASE ~(Standing(r) /\ p \notin Members(r))
    BY <1>3, <1>7, <2>2, <2>3, <2>5 DEF SyncOne
  <2> QED
    BY <2>4, <2>5
<1> QED
  BY <1>6, <1>7

\* and those it removes.
LEMMA SerialLosing ==
  ASSUME RoomsInv, SerialRoomsInv, NEW c \in Talkers, SaveRoles(c) \/ BulkRemove(c) \/ SyncRest(c),
         \A d \in Talkers \ {c} : talk[d] = Silent
  PROVE  SerialRoomsInv'
<1>1. RoomsTypeOK /\ \A r \in Rooms : Members(r) \subseteq Persons
  BY DEF RoomsInv, RoomsTyped, Members
<1>2. Silent.at = "silent"
  BY DEF Silent
<1>3. ASSUME NEW r \in Rooms, NEW given \in [Persons -> Roles \union {Outside}], roles' = [roles EXCEPT ![r] = given],
             \A p \in Persons \ Members(r) : given[p] = Outside, disowned \subseteq disowned', UNCHANGED <<rooms, widened>>,
             Open(r) /\ r \notin disowned' => \E p \in Persons : given[p] = "OWNER",
             \A d \in Talkers : talk'[d] = Silent
      PROVE  SerialRoomsInv'
  <2>1. roles'[r] = given /\ \A s \in Rooms \ {r} : roles'[s] = roles[s]
    BY <1>1, <1>3 DEF RoomsTypeOK
  <2>2. Members(r)' \subseteq Members(r)
    BY <1>3, <2>1 DEF Members
  <2>3. HasOwner' /\ PairOnce' /\ AtMostOne(OpenOf("discussion"))'
    BY <1>3, <2>1, <2>2, RolesWritten
  <2>4. StillSo(talk[c])'
    BY <1>2, <1>3 DEF StillSo
  <2> QED
    BY <1>3, <2>3, <2>4, StaysSerial
<1>4. ASSUME NEW r \in Rooms, NEW gone \in SUBSET Persons, Loses(r, gone), Voids(c, r, gone), UNCHANGED <<rooms, widened>>,
             disowned \subseteq disowned',
             Open(r) /\ r \notin disowned' => \E p \in Persons \ gone : roles[r][p] = "OWNER"
      PROVE  SerialRoomsInv'
  <2> DEFINE given == [p \in Persons |-> IF p \in gone THEN Outside ELSE roles[r][p]]
  <2>1. given \in [Persons -> Roles \union {Outside}] /\ \A p \in Persons \ Members(r) : given[p] = Outside
    BY <1>1, RoomKinds DEF Members
  <2>2. roles' = [roles EXCEPT ![r] = given]
    BY <1>1, <1>4 DEF Loses, RoomsTypeOK
  <2>3. Open(r) /\ r \notin disowned' => \E p \in Persons : given[p] = "OWNER"
    BY <1>4
  <2>4. \A d \in Talkers : talk'[d] = Silent
    BY <1>2, <1>4 DEF Voids
  <2> HIDE DEF given
  <2> QED
    BY <1>3, <1>4, <2>1, <2>2, <2>3, <2>4
<1>5. CASE SaveRoles(c)
  <2>1. PICK r \in Rooms, changes \in Reassigned : talk[c].room = r /\ talk[c].rows = changes
    BY <1>5, TalkTyped DEF SaveRoles, RoomsInv
  <2> DEFINE gone == {p \in DOMAIN changes : changes[p] = Outside}
  <2>2. gone \in SUBSET Persons /\ \A p \in DOMAIN changes : changes[p] \in Roles \union {Outside} /\ p \in Persons
    BY PartReassigned
  <2>3. DOMAIN changes \subseteq Members(r)
    BY <1>5, <2>1 DEF RoomsInv, TalkFits, SaveRoles
  <2>4. \/ r \in disowned
        \/ \E p \in Persons \ DOMAIN changes : roles[r][p] = "OWNER"
        \/ \E p \in DOMAIN changes : changes[p] = "OWNER" /\ \A q \in DOMAIN changes : changes[q] # Outside
    BY <1>5, <2>1 DEF SerialRoomsInv, StillSo, LeavesOwner, SaveRoles
  <2>5. UNCHANGED <<rooms, widened, disowned>>
    BY <1>5 DEF SaveRoles
  <2>6. CASE gone # {}
    <3>1. Loses(r, gone) /\ Voids(c, r, gone)
      BY <1>5, <2>1, <2>6 DEF SaveRoles
    <3>2. Open(r) /\ r \notin disowned' => \E p \in Persons \ gone : roles[r][p] = "OWNER"
      BY <2>4, <2>5, <2>6
    <3> HIDE DEF gone
    <3> QED
      BY <1>4, <2>2, <2>5, <3>1, <3>2
  <2>7. CASE gone = {}
    <3> DEFINE given == [p \in Persons |-> IF p \in DOMAIN changes THEN changes[p] ELSE roles[r][p]]
    <3>1. roles[r] \in [Persons -> Roles \union {Outside}]
      BY <1>1, RoomKinds
    <3>2. given \in [Persons -> Roles \union {Outside}] /\ \A p \in Persons \ Members(r) : given[p] = Outside
      BY <2>2, <2>3, <3>1 DEF Members
    <3>3. roles' = [roles EXCEPT ![r] = given] /\ FallsSilent(c)
      BY <1>5, <2>1, <2>7 DEF SaveRoles
    <3>4. Open(r) /\ r \notin disowned' => \E p \in Persons : given[p] = "OWNER"
      BY <2>2, <2>4, <2>5
    <3>5. \A d \in Talkers : talk'[d] = Silent
      BY <3>3 DEF FallsSilent, Says, RoomsInv, RoomsTyped
    <3> HIDE DEF given
    <3> QED
      BY <1>3, <2>5, <3>2, <3>3, <3>4, <3>5
  <2> QED
    BY <2>6, <2>7
<1>6. CASE BulkRemove(c)
  <2>1. PICK r \in Rooms : \E who \in SUBSET Members(r) :
           LET gone == {p \in who : roles[r][p] # "OWNER"} IN Loses(r, gone) /\ Voids(c, r, gone)
    BY <1>6 DEF BulkRemove
  <2>2. PICK who \in SUBSET Members(r) :
           LET gone == {p \in who : roles[r][p] # "OWNER"} IN Loses(r, gone) /\ Voids(c, r, gone)
    BY <2>1
  <2> DEFINE gone == {p \in who : roles[r][p] # "OWNER"}
  <2>3. gone \in SUBSET Persons /\ Loses(r, gone) /\ Voids(c, r, gone)
    BY <1>1, <2>2
  <2>4. UNCHANGED <<rooms, widened, disowned>>
    BY <1>6 DEF BulkRemove
  <2>5. Open(r) /\ r \notin disowned' => \E p \in Persons \ gone : roles[r][p] = "OWNER"
    BY <2>4 DEF SerialRoomsInv, HasOwner
  <2> HIDE DEF gone
  <2> QED
    BY <1>4, <2>3, <2>4, <2>5
<1>7. CASE SyncRest(c)
  <2>1. PICK r \in Rooms, drop \in SUBSET Persons : talk[c].room = r /\ talk[c].drop = drop
    BY <1>7, TalkTyped DEF SyncRest, RoomsInv
  <2> DEFINE gone == drop \intersect Members(r)
  <2>2. /\ Loses(r, gone) /\ Voids(c, r, gone)
        /\ disowned' = disowned \union {x \in {r} : \E p \in gone : roles[x][p] = "OWNER"}
        /\ UNCHANGED <<rooms, widened>> /\ gone \in SUBSET Persons
    BY <1>1, <1>7, <2>1 DEF SyncRest
  <2> HIDE DEF gone
  <2>3. Open(r) /\ r \notin disowned' => \E p \in Persons \ gone : roles[r][p] = "OWNER"
    <3> SUFFICES ASSUME Open(r), r \notin disowned' PROVE \E p \in Persons \ gone : roles[r][p] = "OWNER"
      OBVIOUS
    <3>1. PICK p \in Persons : roles[r][p] = "OWNER"
      BY <2>2 DEF SerialRoomsInv, HasOwner
    <3>2. p \notin gone
      BY <2>2, <3>1
    <3> QED
      BY <3>1, <3>2
  <2> QED
    BY <1>4, <2>2, <2>3
<1> QED
  BY <1>5, <1>6, <1>7

\* One request at a time leaves every conversation with an owner, two people with one direct
\* message and a document with one discussion.
LEMMA SerialRoomsStep ==
  ASSUME RoomsInv, SerialRoomsInv, NEW c \in Talkers, (Quiet /\ Opening(c)) \/ Going(c)
  PROVE  SerialRoomsInv'
<1>1. \A d \in Talkers \ {c} : talk[d] = Silent
  BY OthersSilent
<1>2. CASE \/ FindDirect(c) \/ FindDiscussion(c) \/ LoadToAdd(c) \/ LoadToChange(c) \/ LoadToTransfer(c)
           \/ SetRules(c) \/ ReadRules(c) \/ FindBroken(c) \/ DropTalk(c)
  <2>1. /\ UNCHANGED <<rooms, roles, widened>> /\ disowned \subseteq disowned'
        /\ \A d \in Talkers \ {c} : talk'[d] = Silent
        /\ StillSo(talk[c])'
    BY <1>1, <1>2, SerialLook
  <2> QED
    BY <2>1, RolesRead, StaysSerial
<1> QED
  BY <1>1, <1>2, SerialFounding, SerialAdding, SerialLosing DEF Opening, Going

\* Two members are two, and one discussion is at most one.
LEMMA PairsAndOnes ==
  ASSUME RoomsInv, SerialRoomsInv
  PROVE  OneDirect /\ OneDiscussion
<1>1. OneDirect
  <2> SUFFICES ASSUME NEW r \in OpenOf("direct") \ widened, NEW s \in OpenOf("direct") \ widened,
                      Members(r) = Members(s), Cardinality(Members(r)) = 2
               PROVE  r = s
    BY DEF OneDirect
  <2>1. PICK p \in Persons, q \in Persons : Members(r) \subseteq {p, q}
    BY DEF RoomsInv, PairOnly, OpenOf
  <2>2. ASSUME NEW x, Members(r) \subseteq {x} PROVE FALSE
    <3>1. Members(r) = {} \/ Members(r) = {x}
      BY <2>2
    <3>2. Cardinality({}) = 0 /\ Cardinality({x}) = 1
      BY FS_EmptySet, FS_Singleton
    <3> QED
      BY <3>1, <3>2
  <2>3. p # q /\ Members(r) = {p, q}
    BY <2>1, <2>2
  <2> QED
    BY <2>3 DEF SerialRoomsInv, PairOnce
<1>2. OneDiscussion
  <2>1. OpenOf("discussion") = {} \/ \E r : OpenOf("discussion") = {r}
    BY DEF SerialRoomsInv, AtMostOne
  <2> QED
    <3>1. Cardinality({}) = 0 /\ \A r : Cardinality({r}) = 1
      BY FS_EmptySet, FS_Singleton
    <3>2. CASE OpenOf("discussion") = {}
      BY <3>1, <3>2 DEF OneDiscussion
    <3>3. CASE \E r : OpenOf("discussion") = {r}
      <4>1. PICK r : OpenOf("discussion") = {r}
        BY <3>3
      <4>2. Cardinality(OpenOf("discussion")) = 1
        BY <3>1, <4>1
      <4> QED
        BY <4>2 DEF OneDiscussion
    <3> QED
      BY <2>1, <3>2, <3>3
<1> QED
  BY <1>1, <1>2

-----------------------------------------------------------------------------
(* Reminders *)

\* What a call holds between two statements
CallKinds ==
    {NoCall} \union [at : {"save"}, about : SUBSET FollowUps, row : Entered]
    \union [at : {"delete", "read"}, about : SUBSET FollowUps, daily : BOOLEAN]
    \union [at : {"look"}, about : SUBSET FollowUps, daily : BOOLEAN, rows : SUBSET FollowUps]
    \union {v \in [at : {"make"}, about : SUBSET FollowUps, daily : BOOLEAN, rows : SUBSET FollowUps,
                   next : FollowUps] : v.next \in v.rows}

RemindersTyped ==
    /\ followUps \in [FollowUps -> Entered \union {NotEntered}]
    /\ reminders \in [FollowUps -> Nat]
    /\ jobDone \in BOOLEAN
    /\ missed \subseteq FollowUps
    /\ call \in [Calls -> CallKinds]

\* A call that has still to look for the reminder of f, which its request entered or moved
Serves(v, f) ==
    \/ v.at \in {"delete", "read"} /\ f \in v.about
    \/ v.at \in {"look", "make"} /\ f \in v.about /\ f \in v.rows

\* The job, once it has read what is due
Job(v) == v.at \in {"look", "make"} /\ v.daily

\* Due, without a reminder, and no request will see to it
Owed(f) ==
    /\ f \notin missed /\ Due(f) /\ reminders[f] = 0
    /\ \A c \in Calls : ~Serves(call[c], f)

\* What is owed is among the rows that the job has still to serve.
RemindersInv ==
    /\ RemindersTyped
    /\ \A c \in Calls : call[c].at = "save" => call[c].about \subseteq Known
    /\ jobDone => \A f \in FollowUps : ~Owed(f)
    /\ \A c \in Calls : Job(call[c]) => \A f \in FollowUps : Owed(f) => f \in call[c].rows

\* Requests one at a time: what is about to be made is missing.
OneCall ==
    /\ \A c, d \in Calls : call[c] # NoCall /\ call[d] # NoCall => c = d
    /\ \A c \in Calls : call[c].at = "make" => reminders[call[c].next] = 0
    /\ OneReminder

\* A call is of its kind.
LEMMA CallTyped ==
  ASSUME NEW v \in CallKinds
  PROVE  /\ v.at \in {"idle", "save", "delete", "read", "look", "make"}
         /\ v.at = "idle" <=> v = NoCall
         /\ v.at # "idle" => v.about \in SUBSET FollowUps
         /\ v.at = "save" => v.row \in Entered
         /\ v.at \in {"delete", "read", "look", "make"} => v.daily \in BOOLEAN
         /\ v.at \in {"look", "make"} => v.rows \in SUBSET FollowUps
         /\ v.at = "make" => v.next \in v.rows
<1>1. CASE v = NoCall
  BY <1>1 DEF NoCall
<1>2. CASE v \in [at : {"save"}, about : SUBSET FollowUps, row : Entered]
  BY <1>2 DEF NoCall
<1>3. CASE v \in [at : {"delete", "read"}, about : SUBSET FollowUps, daily : BOOLEAN]
  BY <1>3 DEF NoCall
<1>4. CASE v \in [at : {"look"}, about : SUBSET FollowUps, daily : BOOLEAN, rows : SUBSET FollowUps]
  BY <1>4 DEF NoCall
<1>5. CASE /\ v \in [at : {"make"}, about : SUBSET FollowUps, daily : BOOLEAN, rows : SUBSET FollowUps,
                     next : FollowUps]
           /\ v.next \in v.rows
  BY <1>5 DEF NoCall
<1> QED
  BY <1>1, <1>2, <1>3, <1>4, <1>5 DEF CallKinds

\* Each kind of call is one.
LEMMA CallsMade ==
  /\ NoCall \in CallKinds
  /\ \A about \in SUBSET FollowUps, row \in Entered : [at |-> "save", about |-> about, row |-> row] \in CallKinds
  /\ \A at \in {"delete", "read"}, about \in SUBSET FollowUps, daily \in BOOLEAN :
        [at |-> at, about |-> about, daily |-> daily] \in CallKinds
  /\ \A about, found \in SUBSET FollowUps, daily \in BOOLEAN :
        [at |-> "look", about |-> about, daily |-> daily, rows |-> found] \in CallKinds
  /\ \A about, found \in SUBSET FollowUps, daily \in BOOLEAN : \A f \in found :
        [at |-> "make", about |-> about, daily |-> daily, rows |-> found, next |-> f] \in CallKinds
BY DEF CallKinds

\* A change of one's own call.
LEMMA CallingTyped ==
  ASSUME RemindersTyped, NEW c \in Calls, NEW next \in CallKinds, Calling(c, next)
  PROVE  call' \in [Calls -> CallKinds] /\ call'[c] = next /\ \A d \in Calls \ {c} : call'[d] = call[d]
BY DEF RemindersTyped, Calling

\* A step of one call keeps the invariant when it leaves nothing owed that was not, ends the
\* job only with nothing owed, and drops from its rows only what is not.
LEMMA CallMoves ==
  ASSUME RemindersInv, NEW c \in Calls, NEW next \in CallKinds, Calling(c, next),
         followUps' \in [FollowUps -> Entered \union {NotEntered}], Known \subseteq Known',
         reminders' \in [FollowUps -> Nat], jobDone' \in BOOLEAN, missed' \subseteq FollowUps,
         missed \subseteq missed',
         next.at = "save" => next.about \subseteq Known',
         \A f \in FollowUps \ missed' : Due(f)' /\ reminders'[f] = 0 /\ ~Serves(next, f) =>
            Due(f) /\ reminders[f] = 0 /\ ~Serves(call[c], f),
         jobDone' => jobDone \/ \A f \in FollowUps \ missed' :
            (Job(call[c]) => f \in call[c].rows) => ~(Due(f)' /\ reminders'[f] = 0),
         Job(next) => \A f \in FollowUps \ missed' :
            Due(f)' /\ reminders'[f] = 0 /\ (Job(call[c]) => f \in call[c].rows) => f \in next.rows
  PROVE  RemindersInv'
<1>1. RemindersTyped /\ RemindersTyped'
  BY CallingTyped DEF RemindersInv, RemindersTyped
<1>2. call'[c] = next /\ \A d \in Calls \ {c} : call'[d] = call[d]
  BY CallingTyped, <1>1
<1>3. \A d \in Calls : call'[d].at = "save" => call'[d].about \subseteq Known'
  BY <1>2 DEF RemindersInv
<1>4. ASSUME NEW f \in FollowUps, Owed(f)'
      PROVE  /\ Owed(f) /\ f \notin missed' /\ Due(f)' /\ reminders'[f] = 0
             /\ Job(call[c]) => f \in call[c].rows
  <2>1. f \notin missed' /\ Due(f)' /\ reminders'[f] = 0 /\ \A d \in Calls : ~Serves(call'[d], f)
    BY <1>4 DEF Owed
  <2>2. Due(f) /\ reminders[f] = 0 /\ ~Serves(call[c], f)
    BY <1>2, <2>1
  <2>3. Owed(f)
    BY <1>2, <2>1, <2>2 DEF Owed
  <2> QED
    BY <2>1, <2>3 DEF RemindersInv
<1>5. jobDone' => \A f \in FollowUps : ~Owed(f)'
  BY <1>4 DEF RemindersInv
<1>6. \A d \in Calls : Job(call'[d]) => \A f \in FollowUps : Owed(f)' => f \in call'[d].rows
  BY <1>2, <1>4 DEF RemindersInv
<1> QED
  BY <1>1, <1>3, <1>5, <1>6 DEF RemindersInv

\* A row with another status, not active or with another date is a row.
LEMMA EnteredChanged ==
  ASSUME NEW r \in Entered
  PROVE  /\ \A status \in {"Pending", "Closed"} : [r EXCEPT !.status = status] \in Entered
         /\ [r EXCEPT !.status = "Closed"].status = "Closed"
         /\ [r EXCEPT !.active = FALSE] \in Entered /\ ~[r EXCEPT !.active = FALSE].active
         /\ \A due \in Dates : [r EXCEPT !.due = due] \in Entered
         /\ r.status \in {"Pending", "Closed"} /\ r.due \in Dates /\ r.active \in BOOLEAN
<1>1. \A status \in {"Pending", "Closed"} : [r EXCEPT !.status = status] \in Entered
  BY DEF Entered
<1>2. [r EXCEPT !.status = "Closed"].status = "Closed"
  BY DEF Entered
<1>3. [r EXCEPT !.active = FALSE] \in Entered
  BY DEF Entered
<1>4. ~[r EXCEPT !.active = FALSE].active
  BY DEF Entered
<1>5. \A due \in Dates : [r EXCEPT !.due = due] \in Entered
  BY DEF Entered
<1>6. r.status \in {"Pending", "Closed"} /\ r.due \in Dates /\ r.active \in BOOLEAN
  BY DEF Entered
<1> QED
  BY <1>1, <1>2, <1>3, <1>4, <1>5, <1>6

\* What is due is active and pending.
LEMMA DueSays ==
  ASSUME NEW f \in FollowUps, Due(f)
  PROVE  f \in Known /\ followUps[f].status = "Pending" /\ followUps[f].active
BY DEF Due

\* A follow-up that a new one completes is due only if it was left alone.
LEMMA SupersededTyped ==
  ASSUME RemindersTyped, NEW g \in FollowUps
  PROVE  /\ Superseded(g) \in Entered \union {NotEntered}
         /\ followUps[g] \in Entered => Superseded(g) \in Entered
         /\ Superseded(g) = followUps[g] \/ Superseded(g).status = "Closed"
<1>1. CASE followUps[g] \in Entered /\ followUps[g].active /\ followUps[g].due # Never
  <2>1. PICK r \in Entered : followUps[g] = r
    BY <1>1
  <2>2. Superseded(g) = [r EXCEPT !.status = "Closed"]
    BY <1>1, <2>1 DEF Superseded
  <2> QED
    BY <2>2, EnteredChanged
<1>2. CASE ~(followUps[g] \in Entered /\ followUps[g].active /\ followUps[g].due # Never)
  BY <1>2 DEF Superseded, RemindersTyped
<1> QED
  BY <1>1, <1>2

\* A new follow-up completes earlier ones, and its request will look for its reminder.
LEMMA EnterFollowUpInv == ASSUME RemindersInv, NEW c \in Calls, EnterFollowUp(c) PROVE RemindersInv'
<1>1. PICK f \in FollowUps \ Known, due \in Dates, status \in {"Pending", "Closed"} :
         /\ followUps' = [g \in FollowUps |->
              IF g = f THEN [due |-> due, status |-> status, active |-> TRUE] ELSE Superseded(g)]
         /\ Calling(c, [at |-> "read", about |-> {f}, daily |-> FALSE])
  BY DEF EnterFollowUp
<1> DEFINE next == [at |-> "read", about |-> {f}, daily |-> FALSE]
           row == [due |-> due, status |-> status, active |-> TRUE]
<1>2. next \in CallKinds /\ next.at = "read" /\ next.about = {f}
  BY CallsMade
<1>3. row \in Entered
  BY DEF Entered
<1>4. UNCHANGED <<today, reminders, jobDone, missed>> /\ call[c] = NoCall /\ RemindersTyped
  BY DEF EnterFollowUp, RemindersInv
<1>5. /\ followUps' \in [FollowUps -> Entered \union {NotEntered}]
      /\ followUps'[f] = row
      /\ \A g \in FollowUps \ {f} : followUps'[g] = Superseded(g)
  BY <1>1, <1>3, <1>4, SupersededTyped
<1>6. Known \subseteq Known'
  BY <1>1, <1>4, <1>5, SupersededTyped DEF Known
<1>7. ASSUME NEW g \in FollowUps \ {f}, Due(g)' PROVE Due(g)
  <2>1. followUps'[g] = [due |-> today', status |-> "Pending", active |-> TRUE] /\ followUps'[g] \in Entered
    BY <1>7 DEF Due, Known
  <2>2. followUps'[g].status = "Pending"
    BY <2>1
  <2>3. followUps'[g] = followUps[g]
    BY <1>4, <1>5, <2>2, SupersededTyped
  <2> QED
    BY <1>4, <2>1, <2>3 DEF Due, Known
<1>8. Calling(c, next)
  BY <1>1
<1> HIDE DEF next, row
<1>9. Serves(next, f) /\ ~Job(next) /\ \A g \in FollowUps : ~Serves(call[c], g)
  BY <1>2, <1>4 DEF Serves, Job, NoCall
<1>10. next.at # "save"
  BY <1>2
<1>11. /\ \A g \in FollowUps \ missed' : Due(g)' /\ reminders'[g] = 0 /\ ~Serves(next, g) =>
             Due(g) /\ reminders[g] = 0 /\ ~Serves(call[c], g)
       /\ reminders' \in [FollowUps -> Nat] /\ jobDone' \in BOOLEAN
       /\ missed' \subseteq FollowUps /\ missed \subseteq missed' /\ (jobDone' => jobDone)
  BY <1>4, <1>7, <1>9 DEF RemindersTyped
<1> QED
  BY <1>2, <1>5, <1>6, <1>8, <1>9, <1>10, <1>11, CallMoves

\* Steps that leave the rows, the reminders and the job alone
LEMMA CallRests ==
  ASSUME RemindersInv, NEW c \in Calls, NEW next \in CallKinds, Calling(c, next),
         UNCHANGED <<today, followUps, reminders>>, jobDone' \in BOOLEAN, jobDone' => jobDone,
         missed' \subseteq FollowUps, missed \subseteq missed',
         next.at = "save" => next.about \subseteq Known,
         \A f \in FollowUps \ missed' : Due(f) /\ ~Serves(next, f) => ~Serves(call[c], f),
         Job(next) => \A f \in FollowUps :
            Due(f) /\ (Job(call[c]) => f \in call[c].rows) => f \in next.rows
  PROVE  RemindersInv'
<1>1. Known' = Known /\ \A f \in FollowUps : Due(f)' <=> Due(f)
  BY DEF Known, Due
<1>2. /\ followUps' \in [FollowUps -> Entered \union {NotEntered}]
      /\ reminders' \in [FollowUps -> Nat] /\ reminders' = reminders
  BY DEF RemindersInv, RemindersTyped
<1>3. \A f \in FollowUps \ missed' : Due(f)' /\ reminders'[f] = 0 /\ ~Serves(next, f) =>
             Due(f) /\ reminders[f] = 0 /\ ~Serves(call[c], f)
  BY <1>1, <1>2
<1>4. Job(next) => \A f \in FollowUps :
            Due(f)' /\ reminders'[f] = 0 /\ (Job(call[c]) => f \in call[c].rows) => f \in next.rows
  BY <1>1
<1> QED
  BY <1>1, <1>2, <1>3, <1>4, CallMoves

\* Loading a follow-up changes nothing yet.
LEMMA LoadFollowUpInv == ASSUME RemindersInv, NEW c \in Calls, LoadFollowUp(c) PROVE RemindersInv'
<1>1. PICK f \in Known : Calling(c, [at |-> "save", about |-> {f}, row |-> followUps[f]])
  BY DEF LoadFollowUp
<1> DEFINE next == [at |-> "save", about |-> {f}, row |-> followUps[f]]
<1>2. next \in CallKinds /\ next.at = "save" /\ next.about = {f} /\ Calling(c, next)
  BY <1>1, CallsMade DEF Known
<1>3. call[c] = NoCall /\ UNCHANGED <<today, followUps, reminders, jobDone, missed>> /\ RemindersTyped
  BY DEF LoadFollowUp, RemindersInv
<1> HIDE DEF next
<1>4. ~Job(next) /\ \A g \in FollowUps : ~Serves(call[c], g)
  BY <1>2, <1>3 DEF Job, Serves, NoCall
<1>5. next.about \subseteq Known
  BY <1>1, <1>2
<1> QED
  BY <1>2, <1>3, <1>4, <1>5, CallRests DEF RemindersTyped

\* Neither does the beginning of a check.
LEMMA BeginCheckInv == ASSUME RemindersInv, NEW c \in Calls, BeginCheck(c) PROVE RemindersInv'
<1>1. PICK daily \in {FALSE, ~jobDone} : Calling(c, [at |-> "read", about |-> {}, daily |-> daily])
  BY DEF BeginCheck
<1> DEFINE next == [at |-> "read", about |-> {}, daily |-> daily]
<1>2. next \in CallKinds /\ next.at = "read" /\ Calling(c, next)
  BY <1>1, CallsMade
<1>3. call[c] = NoCall /\ UNCHANGED <<today, followUps, reminders, jobDone, missed>> /\ RemindersTyped
  BY DEF BeginCheck, RemindersInv
<1> HIDE DEF next
<1>4. ~Job(next) /\ \A g \in FollowUps : ~Serves(call[c], g)
  BY <1>2, <1>3 DEF Job, Serves, NoCall
<1>5. next.at # "save"
  BY <1>2
<1> QED
  BY <1>2, <1>3, <1>4, <1>5, CallRests DEF RemindersTyped

\* What a request that stops was about counts as missed.
LEMMA AbandonCallInv == ASSUME RemindersInv, NEW c \in Calls, AbandonCall(c) PROVE RemindersInv'
<1>1. /\ call[c] # NoCall /\ Calling(c, NoCall) /\ missed' = missed \union call[c].about
      /\ UNCHANGED <<today, followUps, reminders, jobDone>> /\ RemindersTyped
  BY DEF AbandonCall, RemindersInv
<1>2. call[c] \in CallKinds /\ NoCall \in CallKinds
  BY <1>1, CallsMade DEF RemindersTyped
<1>3. call[c].about \in SUBSET FollowUps
  BY <1>1, <1>2, CallTyped
<1>4. /\ ~Job(NoCall) /\ NoCall.at # "save"
      /\ \A f \in FollowUps : Serves(call[c], f) => f \in missed'
  BY <1>1 DEF Job, Serves, NoCall
<1>5. missed' \subseteq FollowUps /\ missed \subseteq missed' /\ jobDone' \in BOOLEAN /\ (jobDone' => jobDone)
  BY <1>1, <1>3 DEF RemindersTyped
<1> QED
  BY <1>1, <1>2, <1>4, <1>5, CallRests

\* Completing or removing, from a row that may be old, makes nothing due, or is missed.
LEMMA CompleteOrRemoveInv == ASSUME RemindersInv, NEW c \in Calls, CompleteOrRemove(c) PROVE RemindersInv'
<1>1. /\ call[c].at = "save" /\ Calling(c, NoCall) /\ UNCHANGED <<today, reminders, jobDone>>
      /\ RemindersTyped /\ call[c].about \subseteq Known
  BY DEF CompleteOrRemove, RemindersInv
<1>2. PICK f \in call[c].about :
         \/ \E status \in {"Pending", "Closed"} :
              /\ followUps' = [followUps EXCEPT ![f].status = Changed(call[c].row.status, status, @)]
              /\ missed' = IF status = "Pending" THEN missed \union {f} ELSE missed
         \/ followUps' = [followUps EXCEPT ![f].active = FALSE] /\ UNCHANGED missed
  BY DEF CompleteOrRemove
<1>3. PICK r \in Entered : followUps[f] = r /\ f \in FollowUps
  BY <1>1 DEF Known
<1>4. PICK n \in Entered :
         /\ followUps' = [followUps EXCEPT ![f] = n]
         /\ n = r \/ n.status = "Closed" \/ ~n.active \/ f \in missed'
         /\ missed \subseteq missed' /\ missed' \subseteq FollowUps
  <2>1. ASSUME NEW status \in {"Pending", "Closed"},
               followUps' = [followUps EXCEPT ![f].status = Changed(call[c].row.status, status, @)],
               missed' = IF status = "Pending" THEN missed \union {f} ELSE missed
        PROVE  \E n \in Entered :
                 /\ followUps' = [followUps EXCEPT ![f] = n]
                 /\ n = r \/ n.status = "Closed" \/ ~n.active \/ f \in missed'
                 /\ missed \subseteq missed' /\ missed' \subseteq FollowUps
    <3>1. PICK written \in {r.status, status} : followUps' = [followUps EXCEPT ![f] = [r EXCEPT !.status = written]]
      BY <1>3, <2>1 DEF Changed
    <3>2. [r EXCEPT !.status = r.status] = r
      BY DEF Entered
    <3>3. /\ missed \subseteq missed' /\ missed' \subseteq FollowUps
          /\ status = "Closed" \/ f \in missed'
      BY <1>1, <1>3, <2>1 DEF RemindersTyped
    <3>4. written = r.status \/ written = "Closed" \/ f \in missed'
      BY <3>1, <3>3
    <3>5. written \in {"Pending", "Closed"}
      BY <3>1, EnteredChanged
    <3> QED
      BY <3>1, <3>2, <3>3, <3>4, <3>5, EnteredChanged
  <2>2. CASE followUps' = [followUps EXCEPT ![f].active = FALSE] /\ UNCHANGED missed
    <3>1. followUps' = [followUps EXCEPT ![f] = [r EXCEPT !.active = FALSE]]
      BY <1>3, <2>2
    <3>2. missed \subseteq missed' /\ missed' \subseteq FollowUps
      BY <1>1, <2>2 DEF RemindersTyped
    <3> QED
      BY <3>1, <3>2, EnteredChanged
  <2> QED
    BY <1>2, <2>1, <2>2
<1>5. /\ followUps' \in [FollowUps -> Entered \union {NotEntered}] /\ followUps'[f] = n
      /\ \A g \in FollowUps \ {f} : followUps'[g] = followUps[g]
  BY <1>1, <1>3, <1>4 DEF RemindersTyped
<1>6. Known \subseteq Known'
  BY <1>4, <1>5 DEF Known
<1>7. ASSUME NEW g \in FollowUps \ missed', Due(g)' PROVE Due(g)
  <2>1. followUps'[g].status = "Pending" /\ followUps'[g].active
    BY <1>7 DEF Due
  <2>2. followUps'[g] = followUps[g]
    <3>1. CASE g = f
      <4>1. "Closed" # "Pending" /\ n.status = "Pending" /\ n.active
        BY <2>1, <3>1, <1>5
      <4> QED
        BY <3>1, <4>1, <1>3, <1>4, <1>5
    <3> QED
      BY <3>1, <1>5
  <2> QED
    BY <1>1, <1>7, <2>2 DEF Due, Known
<1>8. /\ ~Job(NoCall) /\ NoCall.at # "save" /\ \A g \in FollowUps : ~Serves(call[c], g)
  BY <1>1 DEF Job, Serves, NoCall
<1>9. /\ \A g \in FollowUps \ missed' : Due(g)' /\ reminders'[g] = 0 /\ ~Serves(NoCall, g) =>
            Due(g) /\ reminders[g] = 0 /\ ~Serves(call[c], g)
      /\ reminders' \in [FollowUps -> Nat] /\ jobDone' \in BOOLEAN
      /\ missed' \subseteq FollowUps /\ missed \subseteq missed' /\ (jobDone' => jobDone)
  BY <1>1, <1>4, <1>7, <1>8 DEF RemindersTyped
<1> QED
  BY <1>1, <1>5, <1>6, <1>8, <1>9, CallsMade, CallMoves

\* Who moves a follow-up will look for its reminder.
LEMMA RescheduleInv == ASSUME RemindersInv, NEW c \in Calls, Reschedule(c) PROVE RemindersInv'
<1>1. /\ call[c].at = "save" /\ UNCHANGED <<today, reminders, jobDone, missed>>
      /\ RemindersTyped /\ call[c].about \subseteq Known
  BY DEF Reschedule, RemindersInv
<1>2. PICK f \in call[c].about, new \in Entered :
         /\ followUps' = [followUps EXCEPT ![f] =
              [due |-> Changed(call[c].row.due, new.due, @.due),
               status |-> Changed(call[c].row.status, new.status, @.status),
               active |-> Changed(call[c].row.active, new.active, @.active)]]
         /\ Calling(c, [at |-> "delete", about |-> {f}, daily |-> FALSE])
  BY DEF Reschedule
<1>3. PICK r \in Entered : followUps[f] = r /\ f \in FollowUps
  BY <1>1 DEF Known
<1>4. PICK n \in Entered : followUps' = [followUps EXCEPT ![f] = n]
  <2>1. PICK d \in Dates : Changed(call[c].row.due, new.due, r.due) = d
    BY EnteredChanged DEF Changed
  <2>2. PICK t \in {"Pending", "Closed"} : Changed(call[c].row.status, new.status, r.status) = t
    BY EnteredChanged DEF Changed
  <2>3. PICK a \in BOOLEAN : Changed(call[c].row.active, new.active, r.active) = a
    BY EnteredChanged DEF Changed
  <2>4. [due |-> d, status |-> t, active |-> a] \in Entered
    BY DEF Entered
  <2>5. followUps' = [followUps EXCEPT ![f] = [due |-> d, status |-> t, active |-> a]]
    BY <1>2, <1>3, <2>1, <2>2, <2>3
  <2> QED
    BY <2>4, <2>5
<1> DEFINE next == [at |-> "delete", about |-> {f}, daily |-> FALSE]
<1>5. next \in CallKinds /\ next.at = "delete" /\ next.about = {f} /\ Calling(c, next)
  BY <1>2, <1>3, CallsMade
<1> HIDE DEF next
<1>6. /\ followUps' \in [FollowUps -> Entered \union {NotEntered}]
      /\ \A g \in FollowUps \ {f} : followUps'[g] = followUps[g]
      /\ Known \subseteq Known'
  BY <1>1, <1>3, <1>4 DEF RemindersTyped, Known
<1>7. \A g \in FollowUps \ {f} : Due(g)' => Due(g)
  BY <1>1, <1>6 DEF Due, Known
<1>8. /\ Serves(next, f) /\ ~Job(next) /\ next.at # "save" /\ \A g \in FollowUps : ~Serves(call[c], g)
  BY <1>1, <1>5 DEF Job, Serves
<1>9. /\ \A g \in FollowUps \ missed' : Due(g)' /\ reminders'[g] = 0 /\ ~Serves(next, g) =>
            Due(g) /\ reminders[g] = 0 /\ ~Serves(call[c], g)
      /\ reminders' \in [FollowUps -> Nat] /\ jobDone' \in BOOLEAN
      /\ missed' \subseteq FollowUps /\ missed \subseteq missed' /\ (jobDone' => jobDone)
  BY <1>1, <1>7, <1>8 DEF RemindersTyped
<1> QED
  BY <1>5, <1>6, <1>8, <1>9, CallMoves

\* Who deletes the reminders of a follow-up will look for them again.
LEMMA DeleteRemindersInv == ASSUME RemindersInv, NEW c \in Calls, DeleteReminders(c) PROVE RemindersInv'
<1>1. /\ call[c].at = "delete" /\ UNCHANGED <<today, followUps, jobDone, missed>> /\ RemindersTyped
      /\ call[c] \in CallKinds
  BY DEF DeleteReminders, RemindersInv, RemindersTyped
<1>2. /\ reminders' \in [FollowUps -> Nat]
      /\ \A f \in FollowUps : f \notin call[c].about => reminders'[f] = reminders[f]
  BY <1>1 DEF DeleteReminders, RemindersTyped
<1>3. PICK v \in [at : {"delete", "read"}, about : SUBSET FollowUps, daily : BOOLEAN] : call[c] = v
  <2>1. call[c].at \notin {"idle", "save", "look", "make"}
    BY <1>1
  <2> QED
    BY <1>1, <2>1 DEF CallKinds, NoCall
<1> DEFINE next == [v EXCEPT !.at = "read"]
<1>4. next \in CallKinds /\ next.at = "read" /\ next.about = v.about
  BY DEF CallKinds
<1>5. Calling(c, next)
  BY <1>3 DEF DeleteReminders
<1> HIDE DEF next
<1>6. /\ \A f \in FollowUps : Serves(next, f) <=> f \in call[c].about
      /\ \A f \in FollowUps : Serves(call[c], f) <=> f \in call[c].about
      /\ ~Job(next) /\ next.at # "save"
  BY <1>1, <1>3, <1>4 DEF Serves, Job
<1>7. Known' = Known /\ \A f \in FollowUps : Due(f)' <=> Due(f)
  BY <1>1 DEF Known, Due
<1>8. /\ followUps' \in [FollowUps -> Entered \union {NotEntered}] /\ jobDone' \in BOOLEAN
      /\ missed' \subseteq FollowUps /\ missed \subseteq missed' /\ (jobDone' => jobDone)
      /\ \A f \in FollowUps \ missed' : Due(f)' /\ reminders'[f] = 0 /\ ~Serves(next, f) =>
            Due(f) /\ reminders[f] = 0 /\ ~Serves(call[c], f)
  BY <1>1, <1>2, <1>6, <1>7 DEF RemindersTyped
<1> QED
  BY <1>2, <1>4, <1>5, <1>6, <1>7, <1>8, CallMoves

\* The check reads what is due, or ends when nothing is.
LEMMA ReadDueInv == ASSUME RemindersInv, NEW c \in Calls, ReadDue(c) PROVE RemindersInv'
<1> DEFINE found == {f \in Known : Due(f)}
<1>1. /\ call[c].at = "read" /\ UNCHANGED <<today, followUps, reminders, missed>> /\ RemindersTyped
      /\ call[c] \in CallKinds /\ found \in SUBSET FollowUps
  BY DEF ReadDue, RemindersInv, RemindersTyped, Known
<1>2. call[c].about \in SUBSET FollowUps /\ call[c].daily \in BOOLEAN
  BY <1>1, CallTyped
<1>3. \A f \in FollowUps : (f \in found <=> Due(f)) /\ (Due(f)' <=> Due(f))
  BY <1>1 DEF Due, Known
<1>4. ~Job(call[c]) /\ Known' = Known /\ \A f \in FollowUps : Serves(call[c], f) => f \in call[c].about
  BY <1>1 DEF Job, Serves, Known
<1>5. CASE found = {}
  <2>1. Calling(c, NoCall) /\ jobDone' \in BOOLEAN
    BY <1>2, <1>5 DEF ReadDue, EndCheck
  <2>2. ~Job(NoCall) /\ NoCall.at # "save" /\ \A f \in FollowUps : ~Due(f)'
    BY <1>3, <1>5 DEF Job, NoCall
  <2> QED
    BY <1>1, <1>4, <2>1, <2>2, CallsMade, CallMoves DEF RemindersTyped
<1>6. CASE found # {}
  <2> DEFINE next == [at |-> "look", about |-> call[c].about, daily |-> call[c].daily, rows |-> found]
  <2>1. Calling(c, next) /\ UNCHANGED jobDone
    BY <1>6 DEF ReadDue
  <2>2. next \in CallKinds /\ next.at = "look" /\ next.rows = found /\ next.about = call[c].about
    BY <1>1, <1>2, CallsMade
  <2> HIDE DEF next, found
  <2>3. \A f \in FollowUps : Due(f) /\ ~Serves(next, f) => ~Serves(call[c], f)
    BY <1>3, <1>4, <2>2 DEF Serves
  <2>4. next.at # "save" /\ \A f \in FollowUps : Due(f) => f \in next.rows
    BY <1>3, <2>2
  <2> QED
    BY <1>1, <2>1, <2>2, <2>3, <2>4, CallRests DEF RemindersTyped
<1> QED
  BY <1>5, <1>6

\* A row that has a reminder is served.
LEMMA ServedInv ==
  ASSUME RemindersInv, NEW c \in Calls, call[c].at \in {"look", "make"}, NEW f \in call[c].rows, Served(c, f),
         UNCHANGED <<today, followUps>>, missed \subseteq missed', missed' \subseteq FollowUps,
         reminders' \in [FollowUps -> Nat],
         reminders'[f] # 0 \/ f \in missed', \A g \in FollowUps \ {f} : reminders'[g] = reminders[g]
  PROVE  RemindersInv'
<1>1. RemindersTyped /\ call[c] \in CallKinds
  BY DEF RemindersInv, RemindersTyped
<1>2. /\ call[c].about \in SUBSET FollowUps /\ call[c].daily \in BOOLEAN /\ call[c].rows \in SUBSET FollowUps
  BY <1>1, CallTyped
<1>3. Known' = Known /\ \A g \in FollowUps : Due(g)' <=> Due(g)
  BY DEF Known, Due
<1>4. \A g \in FollowUps : Serves(call[c], g) <=> g \in call[c].about /\ g \in call[c].rows
  BY DEF Serves
<1>5. CASE call[c].rows = {f}
  <2>1. Calling(c, NoCall) /\ jobDone' = (jobDone \/ call[c].daily)
    BY <1>5 DEF Served, EndCheck
  <2>2. ~Job(NoCall) /\ NoCall.at # "save" /\ \A g \in FollowUps : ~Serves(NoCall, g)
    BY DEF Job, NoCall, Serves
  <2>3. jobDone' \in BOOLEAN /\ (jobDone' => jobDone \/ Job(call[c]))
    BY <1>1, <1>2, <2>1 DEF Job, RemindersTyped
  <2>4. \A g \in FollowUps \ missed' : Due(g)' /\ reminders'[g] = 0 /\ ~Serves(NoCall, g) =>
            Due(g) /\ reminders[g] = 0 /\ ~Serves(call[c], g)
    BY <1>3, <1>4, <1>5
  <2>5. jobDone' => jobDone \/ \A g \in FollowUps \ missed' :
            (Job(call[c]) => g \in call[c].rows) => ~(Due(g)' /\ reminders'[g] = 0)
    BY <1>5, <2>3
  <2> QED
    BY <1>1, <1>3, <2>1, <2>2, <2>3, <2>4, <2>5, CallsMade, CallMoves DEF RemindersTyped
<1>6. CASE call[c].rows # {f}
  <2> DEFINE next == [at |-> "look", about |-> call[c].about, daily |-> call[c].daily, rows |-> call[c].rows \ {f}]
  <2>1. Calling(c, next) /\ UNCHANGED jobDone
    BY <1>6 DEF Served
  <2>2. call[c].rows \ {f} \in SUBSET FollowUps
    BY <1>2
  <2>3. next \in CallKinds /\ next.at = "look" /\ next.rows = call[c].rows \ {f} /\ next.about = call[c].about
        /\ next.daily = call[c].daily
    BY <1>2, <2>2, CallsMade
  <2> HIDE DEF next
  <2>4. \A g \in FollowUps \ {f} : Serves(call[c], g) => Serves(next, g)
    BY <1>4, <2>3 DEF Serves
  <2>5. (Job(next) => Job(call[c])) /\ next.at # "save"
    BY <2>3 DEF Job
  <2>6. \A g \in FollowUps \ missed' : Due(g)' /\ reminders'[g] = 0 /\ ~Serves(next, g) =>
            Due(g) /\ reminders[g] = 0 /\ ~Serves(call[c], g)
    BY <1>3, <2>4
  <2>7. Job(next) => \A g \in FollowUps \ missed' :
            Due(g)' /\ reminders'[g] = 0 /\ (Job(call[c]) => g \in call[c].rows) => g \in next.rows
    BY <2>3, <2>5
  <2> QED
    BY <1>1, <1>3, <2>1, <2>3, <2>5, <2>6, <2>7, CallMoves DEF RemindersTyped
<1> QED
  BY <1>5, <1>6

\* A reminder that is found is not made, one that is not will be.
LEMMA LookForReminderInv == ASSUME RemindersInv, NEW c \in Calls, LookForReminder(c) PROVE RemindersInv'
<1>1. /\ call[c].at = "look" /\ UNCHANGED <<today, followUps, reminders, missed>> /\ RemindersTyped
      /\ call[c] \in CallKinds
  BY DEF LookForReminder, RemindersInv, RemindersTyped
<1>2. /\ call[c].about \in SUBSET FollowUps /\ call[c].daily \in BOOLEAN /\ call[c].rows \in SUBSET FollowUps
  BY <1>1, CallTyped
<1> DEFINE next(f) == [at |-> "make", about |-> call[c].about, daily |-> call[c].daily, rows |-> call[c].rows, next |-> f]
<1>3. PICK f \in call[c].rows :
         IF reminders[f] > 0 THEN Served(c, f) ELSE Calling(c, next(f)) /\ UNCHANGED jobDone
  BY DEF LookForReminder
<1>4. CASE reminders[f] > 0
  BY <1>1, <1>2, <1>3, <1>4, ServedInv DEF RemindersTyped
<1>5. CASE ~(reminders[f] > 0)
  <2>1. Calling(c, next(f)) /\ UNCHANGED jobDone
    BY <1>3, <1>5
  <2>2. /\ next(f) \in CallKinds /\ next(f).at = "make" /\ next(f).about = call[c].about
        /\ next(f).rows = call[c].rows /\ next(f).daily = call[c].daily
    BY <1>2, CallsMade
  <2>3. PICK v \in CallKinds : /\ next(f) = v /\ v.at = "make" /\ v.about = call[c].about
                               /\ v.rows = call[c].rows /\ v.daily = call[c].daily
    BY <2>2
  <2>4. Calling(c, v)
    BY <2>1, <2>3
  <2> HIDE DEF next
  <2>5. /\ \A g \in FollowUps : Serves(v, g) <=> Serves(call[c], g)
        /\ Job(v) <=> Job(call[c])
        /\ v.at # "save"
    BY <1>1, <2>3 DEF Serves, Job
  <2> QED
    BY <1>1, <2>1, <2>3, <2>4, <2>5, CallRests DEF RemindersTyped
<1> QED
  BY <1>4, <1>5

\* The reminder is made.
LEMMA MakeReminderInv == ASSUME RemindersInv, NEW c \in Calls, MakeReminder(c) PROVE RemindersInv'
<1> DEFINE f == call[c].next
<1>1. /\ call[c].at = "make" /\ Served(c, f)
      /\ \/ reminders' = [reminders EXCEPT ![f] = @ + 1] /\ UNCHANGED missed
         \/ missed' = missed \union {f} /\ UNCHANGED reminders
      /\ UNCHANGED <<today, followUps>> /\ RemindersTyped /\ call[c] \in CallKinds
  BY DEF MakeReminder, RemindersInv, RemindersTyped
<1>2. f \in call[c].rows /\ f \in FollowUps
  BY <1>1, CallTyped
<1>3. /\ reminders' \in [FollowUps -> Nat] /\ (reminders'[f] # 0 \/ f \in missed')
      /\ missed \subseteq missed' /\ missed' \subseteq FollowUps
      /\ \A g \in FollowUps \ {f} : reminders'[g] = reminders[g]
  BY <1>1, <1>2 DEF RemindersTyped
<1> HIDE DEF f
<1> QED
  BY <1>1, <1>2, <1>3, ServedInv

\* On a new day the job has not run yet.
LEMMA NextDayInv == ASSUME RemindersInv, NextDay PROVE RemindersInv'
<1>1. /\ jobDone' = FALSE /\ missed' = {} /\ UNCHANGED <<followUps, reminders, call>>
      /\ \A c \in Calls : call[c] = NoCall
  BY DEF NextDay
<1>2. \A c \in Calls : ~Job(call'[c]) /\ call'[c].at # "save"
  BY <1>1 DEF Job, NoCall
<1> QED
  BY <1>1, <1>2 DEF RemindersInv, RemindersTyped

\* Nothing happens to follow-ups.
LEMMA RemindersRest == ASSUME RemindersInv, UNCHANGED reminderVars PROVE RemindersInv'
BY DEF RemindersInv, RemindersTyped, Owed, Due, Known, reminderVars

\* Every step about reminders preserves the invariant.
LEMMA RemindersStep == ASSUME RemindersInv, [RemindersNext]_reminderVars PROVE RemindersInv'
BY EnterFollowUpInv, LoadFollowUpInv, BeginCheckInv, CompleteOrRemoveInv, RescheduleInv, DeleteRemindersInv,
   ReadDueInv, LookForReminderInv, MakeReminderInv, AbandonCallInv, NextDayInv, RemindersRest
   DEF RemindersNext, Begin, Carry

\* Both hold before the first follow-up.
LEMMA RemindersBegin == ASSUME RemindersInit PROVE RemindersInv /\ OneCall
<1>1. RemindersTyped /\ jobDone = FALSE /\ \A c \in Calls : call[c] = NoCall
  BY CallsMade DEF RemindersInit, RemindersTyped
<1>2. \A c \in Calls : ~Job(call[c]) /\ call[c].at # "save" /\ call[c].at # "make"
  BY <1>1 DEF Job, NoCall
<1>3. OneReminder
  BY DEF RemindersInit, OneReminder
<1> QED
  BY <1>1, <1>2, <1>3 DEF RemindersInv, OneCall

\* With nothing in progress after the job, what is due has a reminder.
LEMMA OwedReminded == ASSUME RemindersInv PROVE DueIsReminded
<1> SUFFICES ASSUME jobDone, \A c \in Calls : call[c] = NoCall, NEW f \in FollowUps \ missed, Due(f)
             PROVE  reminders[f] > 0
  BY DEF DueIsReminded
<1>1. \A c \in Calls : ~Serves(call[c], f)
  BY DEF Serves, NoCall
<1>2. reminders[f] \in Nat /\ reminders[f] # 0
  BY <1>1 DEF RemindersInv, RemindersTyped, Owed
<1> QED
  BY <1>2

\* The days pass one by one; the types follow from the invariant.
LEMMA DaysPass == ASSUME today \in Days, [RemindersNext]_reminderVars PROVE today' \in Days
<1>1. CASE UNCHANGED reminderVars
  BY <1>1 DEF reminderVars
<1>2. CASE NextDay
  BY <1>2 DEF NextDay
<1>3. ASSUME NEW c \in Calls, Begin(c) \/ AbandonCall(c) PROVE today' = today
  BY <1>3 DEF Begin, EnterFollowUp, LoadFollowUp, BeginCheck, AbandonCall
<1>4. ASSUME NEW c \in Calls, Carry(c) PROVE today' = today
  BY <1>4 DEF Carry, CompleteOrRemove, Reschedule, DeleteReminders, ReadDue, LookForReminder, MakeReminder
<1> QED
  BY <1>1, <1>2, <1>3, <1>4 DEF RemindersNext

\* The invariant includes the types of reminders.
LEMMA RemindersTypesHold == ASSUME RemindersInv, today \in Days PROVE RemindersTypeOK
BY CallTyped DEF RemindersInv, RemindersTyped, RemindersTypeOK

\* What is due is reminded of, for any number of calls, follow-ups and days.
THEOREM RemindedWhenDue == RemindersSpec => []DueIsReminded
BY RemindersBegin, RemindersStep, OwedReminded, PTL DEF RemindersSpec

\* Requests one at a time: a step of one call, while the others rest.
LEMMA OneCallMoves ==
  ASSUME RemindersTyped, NEW c \in Calls, \A d \in Calls \ {c} : call[d] = NoCall,
         NEW next \in CallKinds, Calling(c, next),
         next.at = "make" => reminders'[next.next] = 0,
         \A f \in FollowUps : reminders'[f] <= 1
  PROVE  OneCall'
<1>1. call'[c] = next /\ \A d \in Calls \ {c} : call'[d] = NoCall
  BY CallingTyped
<1>2. NoCall.at # "make"
  BY DEF NoCall
<1> QED
  BY <1>1, <1>2 DEF OneCall, OneReminder

\* Serving a row, one request at a time.
LEMMA OneCallServed ==
  ASSUME RemindersTyped, NEW c \in Calls, \A d \in Calls \ {c} : call[d] = NoCall,
         call[c].at \in {"look", "make"}, NEW f, Served(c, f), \A g \in FollowUps : reminders'[g] <= 1
  PROVE  OneCall'
<1>1. call[c] \in CallKinds
  BY DEF RemindersTyped
<1>2. call[c].about \in SUBSET FollowUps /\ call[c].daily \in BOOLEAN /\ call[c].rows \in SUBSET FollowUps
  BY <1>1, CallTyped
<1>3. CASE call[c].rows = {f}
  <2>1. Calling(c, NoCall) /\ NoCall.at # "make"
    BY <1>3 DEF Served, EndCheck, NoCall
  <2> QED
    BY <2>1, CallsMade, OneCallMoves
<1>4. CASE call[c].rows # {f}
  <2> DEFINE next == [at |-> "look", about |-> call[c].about, daily |-> call[c].daily, rows |-> call[c].rows \ {f}]
  <2>1. Calling(c, next)
    BY <1>4 DEF Served
  <2>2. call[c].rows \ {f} \in SUBSET FollowUps
    BY <1>2
  <2>3. next \in CallKinds /\ next.at # "make"
    BY <1>2, <2>2, CallsMade
  <2> HIDE DEF next
  <2> QED
    BY <2>1, <2>3, OneCallMoves
<1> QED
  BY <1>3, <1>4

\* A step of the only call leaves at most one reminder of each follow-up.
LEMMA OneCallStep ==
  ASSUME RemindersInv, OneCall, NEW c \in Calls, \A d \in Calls \ {c} : call[d] = NoCall,
         Begin(c) \/ Carry(c) \/ AbandonCall(c)
  PROVE  OneCall'
<1>1. /\ RemindersTyped /\ call[c] \in CallKinds /\ \A f \in FollowUps : reminders[f] \in Nat /\ reminders[f] <= 1
  BY DEF RemindersInv, RemindersTyped, OneCall, OneReminder
<1>2. ASSUME NEW next \in CallKinds, Calling(c, next), next.at # "make", UNCHANGED reminders PROVE OneCall'
  BY <1>1, <1>2, OneCallMoves
<1>3. CASE EnterFollowUp(c)
  <2>1. PICK f \in FollowUps : Calling(c, [at |-> "read", about |-> {f}, daily |-> FALSE]) /\ UNCHANGED reminders
    BY <1>3 DEF EnterFollowUp
  <2> QED
    BY <1>2, <2>1, CallsMade
<1>4. CASE LoadFollowUp(c)
  <2>1. PICK f \in Known : Calling(c, [at |-> "save", about |-> {f}, row |-> followUps[f]]) /\ UNCHANGED reminders
    BY <1>4 DEF LoadFollowUp
  <2>2. [at |-> "save", about |-> {f}, row |-> followUps[f]] \in CallKinds
    BY CallsMade DEF Known
  <2> QED
    BY <1>2, <2>1, <2>2
<1>5. CASE BeginCheck(c)
  <2>1. PICK daily \in {FALSE, ~jobDone} : Calling(c, [at |-> "read", about |-> {}, daily |-> daily]) /\ UNCHANGED reminders
    BY <1>5 DEF BeginCheck
  <2> QED
    BY <1>2, <2>1, CallsMade
<1>6. CASE CompleteOrRemove(c)
  BY <1>2, <1>6, CallsMade DEF CompleteOrRemove, NoCall
<1>7. CASE Reschedule(c)
  <2>1. PICK f \in call[c].about : Calling(c, [at |-> "delete", about |-> {f}, daily |-> FALSE]) /\ UNCHANGED reminders
    BY <1>7 DEF Reschedule
  <2>2. call[c].at = "save" /\ f \in FollowUps
    BY <1>1, <1>7, CallTyped DEF Reschedule
  <2> QED
    BY <1>2, <2>1, <2>2, CallsMade
<1>8. CASE DeleteReminders(c)
  <2>1. call[c].at = "delete"
    BY <1>8 DEF DeleteReminders
  <2>2. PICK v \in [at : {"delete", "read"}, about : SUBSET FollowUps, daily : BOOLEAN] : call[c] = v
    <3>1. call[c].at \notin {"idle", "save", "look", "make"}
      BY <2>1
    <3> QED
      BY <1>1, <3>1 DEF CallKinds, NoCall
  <2> DEFINE next == [v EXCEPT !.at = "read"]
  <2>3. next \in CallKinds /\ next.at # "make"
    BY DEF CallKinds
  <2>4. Calling(c, next)
    BY <1>8, <2>2 DEF DeleteReminders
  <2>5. \A f \in FollowUps : reminders'[f] <= 1
    BY <1>1, <1>8 DEF DeleteReminders
  <2> HIDE DEF next
  <2> QED
    BY <1>1, <2>3, <2>4, <2>5, OneCallMoves
<1>9. CASE ReadDue(c)
  <2> DEFINE found == {f \in Known : Due(f)}
             next == [at |-> "look", about |-> call[c].about, daily |-> call[c].daily, rows |-> found]
  <2>1. call[c].at = "read" /\ UNCHANGED reminders /\ (Calling(c, NoCall) \/ Calling(c, next))
    BY <1>9 DEF ReadDue, EndCheck
  <2>2. call[c].about \in SUBSET FollowUps /\ call[c].daily \in BOOLEAN /\ found \in SUBSET FollowUps
    BY <1>1, <2>1, CallTyped DEF Known
  <2> HIDE DEF found
  <2>3. next \in CallKinds /\ next.at # "make" /\ NoCall \in CallKinds /\ NoCall.at # "make"
    BY <2>2, CallsMade DEF NoCall
  <2> HIDE DEF next
  <2> QED
    BY <1>2, <2>1, <2>3
<1>10. CASE LookForReminder(c)
  <2>1. call[c].at = "look" /\ UNCHANGED reminders
    BY <1>10 DEF LookForReminder
  <2>2. call[c].about \in SUBSET FollowUps /\ call[c].daily \in BOOLEAN /\ call[c].rows \in SUBSET FollowUps
    BY <1>1, <2>1, CallTyped
  <2> DEFINE next(f) == [at |-> "make", about |-> call[c].about, daily |-> call[c].daily, rows |-> call[c].rows, next |-> f]
  <2>3. PICK f \in call[c].rows : IF reminders[f] > 0 THEN Served(c, f) ELSE Calling(c, next(f))
    BY <1>10 DEF LookForReminder
  <2>4. PICK v \in CallKinds : next(f) = v /\ v.next = f
    BY <2>2, CallsMade
  <2> HIDE DEF next
  <2>5. CASE reminders[f] > 0
    BY <1>1, <2>1, <2>3, <2>5, OneCallServed
  <2>6. CASE ~(reminders[f] > 0)
    BY <1>1, <2>1, <2>2, <2>3, <2>4, <2>6, OneCallMoves
  <2> QED
    BY <2>5, <2>6
<1>11. CASE MakeReminder(c)
  <2> DEFINE f == call[c].next
  <2>1. call[c].at = "make" /\ (reminders' = [reminders EXCEPT ![f] = @ + 1] \/ UNCHANGED reminders) /\ Served(c, f)
    BY <1>11 DEF MakeReminder
  <2>2. f \in FollowUps /\ reminders[f] = 0
    BY <1>1, <2>1, CallTyped DEF OneCall
  <2>3. \A g \in FollowUps : reminders'[g] <= 1
    BY <1>1, <2>1, <2>2 DEF RemindersTyped
  <2> HIDE DEF f
  <2> QED
    BY <1>1, <2>1, <2>3, OneCallServed
<1>12. CASE AbandonCall(c)
  BY <1>2, <1>12, CallsMade DEF AbandonCall, NoCall
<1> QED
  BY <1>3, <1>4, <1>5, <1>6, <1>7, <1>8, <1>9, <1>10, <1>11, <1>12 DEF Begin, Carry

\* So does every step, one request at a time.
LEMMA SerialRemindersStep == ASSUME RemindersInv, OneCall, SerialReminders PROVE OneCall'
<1>1. ASSUME NEW c \in Calls, Carry(c) \/ AbandonCall(c) PROVE call[c] # NoCall
  BY <1>1 DEF Carry, CompleteOrRemove, Reschedule, DeleteReminders, ReadDue, LookForReminder, MakeReminder,
              AbandonCall, NoCall
<1>2. CASE NextDay
  BY <1>2 DEF NextDay, OneCall, OneReminder
<1>3. CASE (\A c \in Calls : call[c] = NoCall) /\ \E c \in Calls : Begin(c) \/ Carry(c) \/ AbandonCall(c)
  BY <1>3, OneCallStep
<1>4. CASE \E c \in Calls : Carry(c) \/ AbandonCall(c)
  BY <1>1, <1>4, OneCallStep DEF OneCall
<1> QED
  BY <1>2, <1>3, <1>4 DEF SerialReminders, RemindersNext

-----------------------------------------------------------------------------
(* Sessions *)

\* What a request holds between two statements
VisitKinds ==
    {NoVisit} \union [at : {"owner", "renew"}, session : SessionIds, login : SessionIds]
    \union [at : {"logout"}, chosen : SUBSET SessionIds]

SessionsTyped ==
    /\ sessions \in [SessionIds -> Session \union {Unopened, Purged}]
    /\ active \in BOOLEAN
    /\ sessionLock \in [SessionIds -> Devices \union {NoDevice}]
    /\ visit \in [Devices -> VisitKinds]

\* A refresh has locked a session that is still to be revoked.
Refreshing(d) ==
    visit[d].at \in {"owner", "renew"} =>
        LET s == visit[d].session
        IN  /\ sessionLock[s] = d /\ s \in Rows
            /\ ~sessions[s].revoked /\ sessions[s].login = visit[d].login

\* Every session descends from a login that took place.
Chains == \A s \in Rows : sessions[sessions[s].login] # Unopened

SessionsInv == SessionsTyped /\ Chains /\ RefreshedOnce /\ \A d \in Devices : Refreshing(d)

\* A row is neither of the other two.
LEMMA SessionRows ==
  /\ Unopened \notin Session /\ Purged \notin Session /\ Unopened # Purged
  /\ \A r \in Session : /\ r.revoked \in BOOLEAN /\ r.expired \in BOOLEAN /\ r.login \in SessionIds
<1>1. \A r \in Session : DOMAIN r = {"revoked", "expired", "login"}
  BY DEF Session
<1>2. DOMAIN Unopened = {"state"} /\ DOMAIN Purged = {"state"}
  BY DEF Unopened, Purged
<1>3. Unopened.state = "unopened" /\ Purged.state = "purged"
  BY DEF Unopened, Purged
<1>4. "state" \notin {"revoked", "expired", "login"}
  OBVIOUS
<1> QED
  BY <1>1, <1>2, <1>3, <1>4 DEF Session

\* A visit is of its kind.
LEMMA VisitTyped ==
  ASSUME SessionsTyped, NEW d \in Devices
  PROVE  /\ visit[d].at \in {"idle", "owner", "renew", "logout"}
         /\ visit[d].at \in {"owner", "renew"} =>
              /\ visit[d] \in [at : {"owner", "renew"}, session : SessionIds, login : SessionIds]
              /\ visit[d].session \in SessionIds /\ visit[d].login \in SessionIds
         /\ visit[d].at = "logout" => visit[d].chosen \in SUBSET SessionIds
BY DEF SessionsTyped, VisitKinds, NoVisit

\* A step that takes no session from those who refresh it, opens none and revives none.
LEMMA KeepSessions ==
  ASSUME SessionsInv, SessionsTyped',
         \A s \in SessionIds : sessions[s] # Unopened => sessions'[s] # Unopened,
         \A s \in SessionIds : sessions'[s] \in Session =>
            /\ sessions[s] \in Session /\ sessions'[s].login = sessions[s].login
            /\ sessions[s].revoked => sessions'[s].revoked,
         \A d \in Devices : Refreshing(d)'
  PROVE  SessionsInv'
<1>1. Chains'
  BY SessionRows DEF SessionsInv, Chains, Rows
<1>2. RefreshedOnce'
  BY DEF SessionsInv, RefreshedOnce, Rows
<1> QED
  BY <1>1, <1>2 DEF SessionsInv

\* A refresh that a step leaves alone still holds its session.
LEMMA KeepRefreshing ==
  ASSUME SessionsInv, NEW d \in Devices, visit'[d] = visit[d],
         visit[d].at \in {"owner", "renew"} =>
            LET s == visit[d].session
            IN  sessionLock'[s] = sessionLock[s]
                /\ (sessionLock[s] = d /\ s \in Rows /\ ~sessions[s].revoked =>
                      /\ sessions'[s] \in Session /\ sessions'[s].login = sessions[s].login
                      /\ sessions'[s].revoked = sessions[s].revoked)
  PROVE  Refreshing(d)'
<1> SUFFICES ASSUME visit[d].at \in {"owner", "renew"} PROVE Refreshing(d)'
  BY DEF Refreshing
<1>1. visit[d].session \in SessionIds /\ Refreshing(d)
  BY VisitTyped DEF SessionsInv
<1> QED
  BY <1>1 DEF Refreshing, Rows

\* What revoking one row leaves, and what time does to it.
LEMMA RevokedRow ==
  ASSUME NEW r \in Session
  PROVE  /\ [r EXCEPT !.revoked = TRUE] \in Session
         /\ [r EXCEPT !.revoked = TRUE].revoked
         /\ [r EXCEPT !.revoked = TRUE].login = r.login
         /\ [r EXCEPT !.expired = TRUE] \in Session
         /\ [r EXCEPT !.expired = TRUE].revoked = r.revoked
         /\ [r EXCEPT !.expired = TRUE].login = r.login
<1>1. [r EXCEPT !.revoked = TRUE] \in Session /\ [r EXCEPT !.expired = TRUE] \in Session
  BY DEF Session
<1>2. [r EXCEPT !.revoked = TRUE].login = r.login /\ [r EXCEPT !.expired = TRUE].login = r.login
  BY DEF Session
<1>3. [r EXCEPT !.revoked = TRUE].revoked
  BY DEF Session
<1>4. [r EXCEPT !.expired = TRUE].revoked = r.revoked
  BY DEF Session
<1> QED
  BY <1>1, <1>2, <1>3, <1>4

\* What revoking some rows leaves.
LEMMA RevokedRows ==
  ASSUME SessionsTyped, NEW chosen \in SUBSET Rows
  PROVE  /\ Revoked(chosen) \in [SessionIds -> Session \union {Unopened, Purged}]
         /\ \A s \in SessionIds \ chosen : Revoked(chosen)[s] = sessions[s]
         /\ \A s \in chosen : /\ Revoked(chosen)[s] \in Session /\ Revoked(chosen)[s].revoked
                              /\ Revoked(chosen)[s].login = sessions[s].login
<1>1. \A s \in chosen : /\ [sessions[s] EXCEPT !.revoked = TRUE] \in Session
                        /\ [sessions[s] EXCEPT !.revoked = TRUE].revoked
                        /\ [sessions[s] EXCEPT !.revoked = TRUE].login = sessions[s].login
  BY RevokedRow DEF Rows
<1>2. chosen \subseteq SessionIds
  BY DEF Rows
<1> QED
  BY <1>1, <1>2 DEF Revoked, SessionsTyped

\* Letting go of one's locks keeps those of the others.
LEMMA ReleasesTyped ==
  ASSUME SessionsTyped, NEW d \in Devices, Releases(d)
  PROVE  /\ sessionLock' \in [SessionIds -> Devices \union {NoDevice}]
         /\ \A s \in SessionIds : sessionLock[s] # d => sessionLock'[s] = sessionLock[s]
BY DEF SessionsTyped, Releases

\* A change of one's own visit.
LEMMA VisitsTyped ==
  ASSUME SessionsTyped, NEW d \in Devices, NEW next \in VisitKinds, Visits(d, next)
  PROVE  /\ visit' \in [Devices -> VisitKinds]
         /\ visit'[d] = next
         /\ \A e \in Devices \ {d} : visit'[e] = visit[e]
BY DEF SessionsTyped, Visits

\* Each kind of visit is one.
LEMMA Kinds ==
  /\ NoVisit \in VisitKinds
  /\ \A at \in {"owner", "renew"}, s, l \in SessionIds : [at |-> at, session |-> s, login |-> l] \in VisitKinds
  /\ \A chosen \in SUBSET SessionIds : [at |-> "logout", chosen |-> chosen] \in VisitKinds
BY DEF VisitKinds, NoVisit

\* A step that changes no row and takes no lock of another.
LEMMA RowsRest ==
  ASSUME SessionsInv, NEW d \in Devices, NEW next \in VisitKinds, Visits(d, next),
         UNCHANGED sessions, active' \in BOOLEAN,
         sessionLock' \in [SessionIds -> Devices \union {NoDevice}],
         \A s \in SessionIds, e \in Devices \ {d} : sessionLock[s] = e => sessionLock'[s] = e,
         next.at \in {"owner", "renew"} =>
            /\ sessionLock'[next.session] = d /\ next.session \in Rows
            /\ ~sessions[next.session].revoked /\ sessions[next.session].login = next.login
  PROVE  SessionsInv'
<1>1. SessionsTyped /\ SessionsTyped'
  BY VisitsTyped DEF SessionsInv, SessionsTyped
<1>2. visit'[d] = next /\ \A e \in Devices \ {d} : visit'[e] = visit[e]
  BY VisitsTyped, <1>1
<1>3. Refreshing(d)'
  BY <1>2 DEF Refreshing, Rows
<1>4. ASSUME NEW e \in Devices \ {d} PROVE Refreshing(e)'
  <2>1. visit[e].at \in {"owner", "renew"} => visit[e].session \in SessionIds
    BY VisitTyped, <1>1
  <2> QED
    BY <1>2, <2>1 DEF SessionsInv, Refreshing, Rows
<1> QED
  BY KeepSessions, <1>1, <1>3, <1>4

\* The steps that change no row.
LEMMA ExchangeInv == ASSUME SessionsInv, NEW d \in Devices, Exchange(d) PROVE SessionsInv'
<1>1. PICK s \in Live :
         /\ sessionLock[s] = NoDevice
         /\ sessionLock' = [sessionLock EXCEPT ![s] = d]
         /\ Visits(d, [at |-> "owner", session |-> s, login |-> sessions[s].login])
  BY DEF Exchange
<1> DEFINE next == [at |-> "owner", session |-> s, login |-> sessions[s].login]
<1>2. s \in SessionIds /\ s \in Rows /\ ~sessions[s].revoked /\ sessions[s].login \in SessionIds
  BY SessionRows DEF Live, Rows
<1>3. next \in VisitKinds /\ Visits(d, next)
  BY <1>1, <1>2, Kinds
<1>4. next.at = "owner" /\ next.session = s /\ next.login = sessions[s].login
  OBVIOUS
<1> HIDE DEF next
<1>5. /\ sessionLock' \in [SessionIds -> Devices \union {NoDevice}] /\ sessionLock'[s] = d
      /\ \A t \in SessionIds, e \in Devices \ {d} : sessionLock[t] = e => sessionLock'[t] = e
  BY <1>1, <1>2, DevicesAssumption DEF SessionsInv, SessionsTyped
<1>6. UNCHANGED <<sessions, active>> /\ active \in BOOLEAN
  BY DEF Exchange, SessionsInv, SessionsTyped
<1> QED
  BY <1>2, <1>3, <1>4, <1>5, <1>6, RowsRest

\* The owner is looked up and the refresh goes on, or is given up with its lock.
LEMMA CheckOwnerInv == ASSUME SessionsInv, NEW d \in Devices, CheckOwner(d) PROVE SessionsInv'
<1>1. visit[d].at = "owner" /\ UNCHANGED <<sessions, active>> /\ active \in BOOLEAN /\ SessionsTyped
  BY DEF CheckOwner, SessionsInv, SessionsTyped
<1>2. CASE active
  <2> DEFINE next == [visit[d] EXCEPT !.at = "renew"]
  <2>1. PICK v \in [at : {"owner", "renew"}, session : SessionIds, login : SessionIds] : visit[d] = v
    BY <1>1, VisitTyped
  <2>2. [v EXCEPT !.at = "renew"] = [at |-> "renew", session |-> v.session, login |-> v.login]
    OBVIOUS
  <2>3. next = [at |-> "renew", session |-> v.session, login |-> v.login]
    BY <2>1, <2>2
  <2>4. Visits(d, next) /\ UNCHANGED sessionLock
    BY <1>2 DEF CheckOwner
  <2> HIDE DEF next
  <2>5. next \in VisitKinds
    BY <2>3, Kinds
  <2>6. next.session = visit[d].session /\ next.login = visit[d].login
    BY <2>1, <2>3
  <2>7. Refreshing(d) /\ sessionLock \in [SessionIds -> Devices \union {NoDevice}]
    BY DEF SessionsInv, SessionsTyped
  <2> QED
    BY <1>1, <2>4, <2>5, <2>6, <2>7, RowsRest DEF Refreshing
<1>3. CASE ~active
  <2>1. Visits(d, NoVisit) /\ Releases(d)
    BY <1>3 DEF CheckOwner
  <2> QED
    BY <1>1, <2>1, Kinds, ReleasesTyped, RowsRest DEF NoVisit, SessionsTyped
<1> QED
  BY <1>2, <1>3

\* Loading what to log out changes nothing yet.
LEMMA LoadsInv ==
  ASSUME SessionsInv, NEW d \in Devices, LoadLogout(d) \/ LoadLogoutAll(d) PROVE SessionsInv'
<1>1. PICK chosen \in SUBSET SessionIds : Visits(d, [at |-> "logout", chosen |-> chosen])
  <2>1. CASE LoadLogout(d)
    <3>1. PICK s \in Rows : Visits(d, [at |-> "logout", chosen |-> {s}])
      BY <2>1 DEF LoadLogout
    <3> QED
      BY <3>1 DEF Rows
  <2>2. CASE LoadLogoutAll(d)
    BY <2>2 DEF LoadLogoutAll, Rows
  <2> QED
    BY <2>1, <2>2
<1>2. UNCHANGED <<sessions, active, sessionLock>>
  BY DEF LoadLogout, LoadLogoutAll
<1> QED
  BY <1>1, <1>2, Kinds, RowsRest DEF SessionsInv, SessionsTyped

\* A request that stops is rolled back.
LEMMA AbandonVisitInv == ASSUME SessionsInv, NEW d \in Devices, AbandonVisit(d) PROVE SessionsInv'
BY Kinds, ReleasesTyped, RowsRest DEF AbandonVisit, SessionsInv, SessionsTyped, NoVisit

\* The steps that change rows, of which nobody else holds one.
LEMMA LoginInv == ASSUME SessionsInv, NEW d \in Devices, Login(d) PROVE SessionsInv'
<1>1. PICK s \in SessionIds : sessions[s] = Unopened /\ sessions' = Opened(sessions, s, s)
  BY DEF Login
<1> DEFINE new == [revoked |-> FALSE, expired |-> FALSE, login |-> s]
<1>2. new \in Session /\ new.login = s
  BY DEF Session
<1>3. SessionsTyped /\ UNCHANGED <<active, sessionLock, visit>>
  BY DEF Login, SessionsInv
<1>4. sessions'[s] = new /\ \A t \in SessionIds \ {s} : sessions'[t] = sessions[t]
  BY <1>1, <1>3 DEF Opened, SessionsTyped
<1> HIDE DEF new
<1>5. SessionsTyped'
  BY <1>1, <1>2, <1>3, <1>4 DEF Opened, SessionsTyped, new
<1>6. s \notin Rows /\ s \in Rows' /\ new # Unopened /\ \A t \in SessionIds \ {s} : t \in Rows' => t \in Rows
  BY <1>1, <1>2, <1>4, SessionRows DEF Rows
<1>7. \A t \in Rows : sessions[t].login \in SessionIds /\ sessions[t].login # s
  BY <1>1, SessionRows DEF SessionsInv, Chains, Rows
<1>8. Chains'
  <2> SUFFICES ASSUME NEW t \in Rows' PROVE sessions'[sessions'[t].login] # Unopened
    BY DEF Chains
  <2>1. CASE t = s
    BY <2>1, <1>2, <1>4, <1>6
  <2>2. CASE t # s
    <3>1. t \in Rows /\ sessions'[t] = sessions[t]
      BY <2>2, <1>4, <1>6 DEF Rows
    <3> QED
      BY <3>1, <1>4, <1>7 DEF SessionsInv, Chains
  <2> QED
    BY <2>1, <2>2
<1>9. RefreshedOnce'
  <2> SUFFICES ASSUME NEW t \in Rows', NEW u \in Rows', sessions'[t].login = sessions'[u].login,
                      ~sessions'[t].revoked, ~sessions'[u].revoked
               PROVE  t = u
    BY DEF RefreshedOnce
  <2>1. \A x \in Rows' \ {s} : x \in Rows /\ sessions'[x] = sessions[x]
    BY <1>4, <1>6 DEF Rows
  <2>2. CASE t # s /\ u # s
    BY <2>1, <2>2 DEF SessionsInv, RefreshedOnce
  <2> QED
    BY <2>1, <2>2, <1>2, <1>4, <1>7
<1>10. ASSUME NEW e \in Devices PROVE Refreshing(e)'
  BY <1>3, <1>4, <1>6, KeepRefreshing DEF Rows
<1> QED
  BY <1>5, <1>8, <1>9, <1>10 DEF SessionsInv

\* A refresh revokes the session it has locked and inserts the one that replaces it.
LEMMA RenewInv == ASSUME SessionsInv, NEW d \in Devices, Renew(d) PROVE SessionsInv'
<1> DEFINE old == visit[d].session
           l == visit[d].login
           mid == Revoked({old})
<1>1. visit[d].at = "renew" /\ Releases(d) /\ Visits(d, NoVisit) /\ UNCHANGED active /\ SessionsTyped
  BY DEF Renew, SessionsInv
<1>2. old \in Rows /\ sessionLock[old] = d /\ ~sessions[old].revoked /\ sessions[old].login = l /\ l \in SessionIds
  BY <1>1, VisitTyped DEF SessionsInv, Refreshing
<1>3. PICK s \in SessionIds : sessions[s] = Unopened /\ sessions' = Opened(mid, s, l)
  <2>1. {old} \intersect Rows = {old}
    BY <1>2
  <2> QED
    BY <2>1 DEF Renew
<1> DEFINE new == [revoked |-> FALSE, expired |-> FALSE, login |-> l]
<1>4. new \in Session /\ new.login = l
  BY <1>2 DEF Session
<1>5. /\ mid \in [SessionIds -> Session \union {Unopened, Purged}]
      /\ \A t \in SessionIds \ {old} : mid[t] = sessions[t]
      /\ mid[old] \in Session /\ mid[old].revoked /\ mid[old].login = l
  BY <1>1, <1>2, RevokedRows
<1>6. s # old /\ s \notin Rows
  BY <1>2, <1>3, SessionRows DEF Rows
<1>7. /\ sessions'[s] = new
      /\ \A t \in SessionIds \ {s} : sessions'[t] = mid[t]
      /\ sessions' \in [SessionIds -> Session \union {Unopened, Purged}]
  BY <1>3, <1>4, <1>5 DEF Opened
<1> HIDE DEF new, mid
<1>8. SessionsTyped'
  BY <1>1, <1>7, Kinds, ReleasesTyped, VisitsTyped DEF SessionsTyped
<1>9. \A t \in Rows' \ {s, old} : t \in Rows /\ sessions'[t] = sessions[t]
  BY <1>5, <1>7 DEF Rows
<1>10. /\ sessions'[old] \in Session /\ sessions'[old].revoked /\ sessions'[old].login = l
       /\ \A t \in SessionIds : sessions[t] # Unopened => sessions'[t] # Unopened
  BY <1>2, <1>3, <1>5, <1>6, <1>7, SessionRows DEF Rows
<1>11. sessions[l] # Unopened
  BY <1>2 DEF SessionsInv, Chains
<1>12. Chains'
  <2> SUFFICES ASSUME NEW t \in Rows' PROVE sessions'[sessions'[t].login] # Unopened
    BY DEF Chains
  <2>1. CASE t \in {s, old}
    BY <2>1, <1>2, <1>4, <1>7, <1>10, <1>11
  <2>2. CASE t \notin {s, old}
    <3>1. t \in Rows /\ sessions'[t].login = sessions[t].login /\ sessions[t].login \in SessionIds
      BY <2>2, <1>9, SessionRows DEF Rows
    <3> QED
      BY <3>1, <1>10 DEF SessionsInv, Chains
  <2> QED
    BY <2>1, <2>2
<1>13. RefreshedOnce'
  <2> SUFFICES ASSUME NEW t \in Rows', NEW u \in Rows', sessions'[t].login = sessions'[u].login,
                      ~sessions'[t].revoked, ~sessions'[u].revoked
               PROVE  t = u
    BY DEF RefreshedOnce
  <2>1. t # old /\ u # old
    BY <1>10
  <2>2. \A x \in Rows' \ {s, old} : ~sessions'[x].revoked => sessions'[x].login # l
    BY <1>2, <1>9 DEF SessionsInv, RefreshedOnce
  <2>3. CASE t # s /\ u # s
    BY <2>1, <2>3, <1>9 DEF SessionsInv, RefreshedOnce
  <2> QED
    BY <2>1, <2>2, <2>3, <1>4, <1>7
<1>14. ASSUME NEW e \in Devices PROVE Refreshing(e)'
  <2>1. CASE e = d
    BY <2>1, <1>1, VisitsTyped, Kinds DEF Refreshing, NoVisit
  <2>2. CASE e # d
    <3>1. visit'[e] = visit[e]
      BY <2>2, <1>1, VisitsTyped, Kinds
    <3>2. visit[e].at \in {"owner", "renew"} =>
            /\ visit[e].session \in SessionIds /\ sessionLock[visit[e].session] = e
            /\ visit[e].session \in Rows /\ visit[e].session \notin {s, old}
      BY <2>2, <1>1, <1>2, <1>6, VisitTyped DEF SessionsInv, Refreshing
    <3>3. \A t \in Rows \ {s, old} : sessions'[t] = sessions[t] /\ sessions'[t] \in Session
      BY <1>5, <1>7 DEF Rows
    <3> QED
      BY <2>2, <3>1, <3>2, <3>3, <1>1, ReleasesTyped, KeepRefreshing
  <2> QED
    BY <2>1, <2>2
<1> QED
  BY <1>8, <1>12, <1>13, <1>14 DEF SessionsInv

\* Logging out revokes only what nobody refreshes meanwhile.
LEMMA LogoutInv == ASSUME SessionsInv, NEW d \in Devices, Logout(d) PROVE SessionsInv'
<1> DEFINE chosen == visit[d].chosen \intersect Rows
<1>1. /\ visit[d].at = "logout" /\ sessions' = Revoked(chosen) /\ SessionsTyped
      /\ Visits(d, NoVisit) /\ UNCHANGED <<active, sessionLock>>
      /\ \A s \in chosen : sessionLock[s] = NoDevice
  BY DEF Logout, SessionsInv
<1>2. chosen \in SUBSET Rows
  OBVIOUS
<1> HIDE DEF chosen
<1>3. /\ sessions' \in [SessionIds -> Session \union {Unopened, Purged}]
      /\ \A s \in SessionIds \ chosen : sessions'[s] = sessions[s]
      /\ \A s \in chosen : sessions'[s] \in Session /\ sessions'[s].revoked /\ sessions'[s].login = sessions[s].login
  BY <1>1, <1>2, RevokedRows
<1>4. SessionsTyped'
  BY <1>1, <1>3, VisitsTyped, Kinds DEF SessionsTyped
<1>5. /\ \A s \in SessionIds : sessions[s] # Unopened => sessions'[s] # Unopened
      /\ \A s \in SessionIds : sessions'[s] \in Session =>
            /\ sessions[s] \in Session /\ sessions'[s].login = sessions[s].login
            /\ sessions[s].revoked => sessions'[s].revoked
  BY <1>2, <1>3, SessionRows DEF Rows
<1>6. ASSUME NEW e \in Devices PROVE Refreshing(e)'
  <2>1. CASE e = d
    BY <2>1, <1>1, VisitsTyped, Kinds DEF Refreshing, NoVisit
  <2>2. CASE e # d
    <3>1. visit'[e] = visit[e]
      BY <2>2, <1>1, VisitsTyped, Kinds
    <3>2. visit[e].at \in {"owner", "renew"} =>
            visit[e].session \in SessionIds /\ visit[e].session \notin chosen
      BY <1>1, VisitTyped, DevicesAssumption DEF SessionsInv, Refreshing
    <3> QED
      BY <3>1, <3>2, <1>1, <1>3, KeepRefreshing DEF Rows
  <2> QED
    BY <2>1, <2>2
<1> QED
  BY <1>4, <1>5, <1>6, KeepSessions

\* A session that expires stays as revoked as it was.
LEMMA ExpireInv == ASSUME SessionsInv, Expire PROVE SessionsInv'
<1>1. PICK s \in Rows : sessions' = [sessions EXCEPT ![s].expired = TRUE]
  BY DEF Expire
<1>2. PICK r \in Session : sessions[s] = r /\ s \in SessionIds
  BY DEF Rows
<1>3. UNCHANGED <<active, sessionLock, visit>> /\ SessionsTyped
  BY DEF Expire, SessionsInv
<1>4. /\ sessions' \in [SessionIds -> Session \union {Unopened, Purged}]
      /\ \A t \in SessionIds \ {s} : sessions'[t] = sessions[t]
      /\ sessions'[s] = [r EXCEPT !.expired = TRUE]
  BY <1>1, <1>2, <1>3, RevokedRow DEF SessionsTyped
<1> DEFINE later == [r EXCEPT !.expired = TRUE]
<1>5. later \in Session /\ later.login = r.login /\ later.revoked = r.revoked /\ sessions'[s] = later
  BY <1>4, RevokedRow
<1> HIDE DEF later
<1>6. /\ \A t \in SessionIds : sessions[t] # Unopened => sessions'[t] # Unopened
      /\ \A t \in Rows : /\ sessions'[t] \in Session /\ sessions'[t].login = sessions[t].login
                         /\ sessions'[t].revoked = sessions[t].revoked
      /\ \A t \in SessionIds : sessions'[t] \in Session => t \in Rows
  BY <1>2, <1>4, <1>5, SessionRows DEF Rows
<1>7. SessionsTyped'
  BY <1>3, <1>4 DEF SessionsTyped
<1>8. ASSUME NEW e \in Devices PROVE Refreshing(e)'
  BY <1>3, <1>6, KeepRefreshing
<1> QED
  BY <1>6, <1>7, <1>8, KeepSessions DEF Rows

\* The purge deletes only what nobody refreshes meanwhile.
LEMMA CleanupInv == ASSUME SessionsInv, Cleanup PROVE SessionsInv'
<1>1. PICK s \in Rows : sessionLock[s] = NoDevice /\ sessions' = [sessions EXCEPT ![s] = Purged]
  BY DEF Cleanup
<1>2. UNCHANGED <<active, sessionLock, visit>> /\ SessionsTyped /\ s \in SessionIds
  BY DEF Cleanup, SessionsInv, Rows
<1>3. /\ sessions' \in [SessionIds -> Session \union {Unopened, Purged}]
      /\ \A t \in SessionIds \ {s} : sessions'[t] = sessions[t]
      /\ sessions'[s] = Purged
  BY <1>1, <1>2 DEF SessionsTyped
<1>4. /\ \A t \in SessionIds : sessions[t] # Unopened => sessions'[t] # Unopened
      /\ \A t \in SessionIds : sessions'[t] \in Session => sessions'[t] = sessions[t]
  BY <1>3, SessionRows
<1>5. SessionsTyped'
  BY <1>2, <1>3 DEF SessionsTyped
<1>6. ASSUME NEW e \in Devices PROVE Refreshing(e)'
  <2>1. visit[e].at \in {"owner", "renew"} => visit[e].session \in SessionIds /\ visit[e].session # s
    BY <1>1, <1>2, VisitTyped, DevicesAssumption DEF SessionsInv, Refreshing
  <2> QED
    BY <2>1, <1>2, <1>3, KeepRefreshing DEF Rows
<1> QED
  BY <1>4, <1>5, <1>6, KeepSessions

\* Whether the user is active changes no session.
LEMMA SetActiveInv == ASSUME SessionsInv, SetActive \/ UNCHANGED sessionVars PROVE SessionsInv'
<1>1. UNCHANGED <<sessions, sessionLock, visit>> /\ active' \in BOOLEAN
  BY DEF SetActive, sessionVars, SessionsInv, SessionsTyped
<1> QED
  BY <1>1 DEF SessionsInv, SessionsTyped, Chains, RefreshedOnce, Rows, Refreshing

\* Every step of the sessions preserves the invariant.
LEMMA SessionsStep == ASSUME SessionsInv, [SessionsNext]_sessionVars PROVE SessionsInv'
BY ExchangeInv, CheckOwnerInv, LoadsInv, AbandonVisitInv, LoginInv, RenewInv, LogoutInv, ExpireInv,
   CleanupInv, SetActiveInv DEF SessionsNext

\* It holds before the first login.
LEMMA SessionsBegin == ASSUME SessionsInit PROVE SessionsInv
BY SessionRows, Kinds DEF SessionsInit, SessionsInv, SessionsTyped, Chains, RefreshedOnce, Rows, Refreshing, NoVisit

\* The invariant includes the types of sessions.
LEMMA SessionsTypesHold == ASSUME SessionsInv PROVE SessionsTypeOK
<1>1. \A d \in Devices : visit[d].at \in {"idle", "owner", "renew", "logout"}
  BY DEF SessionsInv, SessionsTyped, VisitKinds, NoVisit
<1> QED
  BY <1>1 DEF SessionsInv, SessionsTyped, SessionsTypeOK

\* A refresh token is exchanged once, for any number of devices and sessions.
THEOREM ExchangedOnce == SessionsSpec => []RefreshedOnce
<1>1. SessionsInv => RefreshedOnce
  BY DEF SessionsInv
<1> QED
  BY <1>1, SessionsBegin, SessionsStep, PTL DEF SessionsSpec

-----------------------------------------------------------------------------
(* The enquiry desk *)

\* What a request holds between two statements
TradeKinds ==
    {AtDesk}
    \union [at : {"insert"}, about : EnquiryIds, bid : Bids, currency : BOOLEAN,
            submitted : Submissions, closed : BOOLEAN, master : Submissions]
    \union [at : {"log"}, about : EnquiryIds, bid : Bids]
    \union [at : {"save"}, about : EnquiryIds, row : Enquiry, status : {Kept, "PENDING", "CLOSED"},
            bid : Bids \union {Kept}, currency : BOOLEAN \union {Kept}, closed : BOOLEAN \union {Kept}]
    \union [at : {"partner"}, asked : Submissions, read : Submissions]
    \union [at : {"take"}, place : Places, seen : SUBSET Copies, empty : BOOLEAN, asked : Turnovers \union {Kept}]
    \union [at : {"put"}, place : Places, taken : SUBSET Copies, empty : BOOLEAN, asked : Turnovers \union {Kept}]

EnquiriesTyped ==
    /\ turnover \in Submissions
    /\ enquiries \in [EnquiryIds -> Enquiry \union {Unentered}]
    /\ priceLog \in [EnquiryIds -> Bids]
    /\ stands \in [Places -> SUBSET Copies]
    /\ edited \in BOOLEAN /\ filed \in BOOLEAN
    /\ trade \in [Traders -> TradeKinds]

\* A request changes an enquiry that is on file; one that inserts has locked the partner, whose
\* turnover is still as it read it; a list of another place names no turnover.
Dealing(t) ==
    /\ trade[t].at \in {"save", "log"} => trade[t].about \in OnFile
    /\ trade[t].at = "insert" => trade[t].master = turnover /\ \A u \in Traders : trade[u].at = "insert" => u = t
    /\ trade[t].at \in {"take", "put"} =>
         /\ trade[t].place = "reports" => ~trade[t].empty
         /\ trade[t].place # "reports" => trade[t].asked = Kept

EnquiriesInv == EnquiriesTyped /\ TurnoverSettled /\ ReportKept /\ \A t \in Traders : Dealing(t)

\* What a request holds is of its kind.
LEMMA TradeTyped ==
  ASSUME EnquiriesTyped, NEW t \in Traders
  PROVE  /\ trade[t].at = "insert" =>
              trade[t] \in [at : {"insert"}, about : EnquiryIds, bid : Bids, currency : BOOLEAN,
                            submitted : Submissions, closed : BOOLEAN, master : Submissions]
         /\ trade[t].at = "log" => trade[t] \in [at : {"log"}, about : EnquiryIds, bid : Bids]
         /\ trade[t].at = "save" =>
              trade[t] \in [at : {"save"}, about : EnquiryIds, row : Enquiry, status : {Kept, "PENDING", "CLOSED"},
                            bid : Bids \union {Kept}, currency : BOOLEAN \union {Kept}, closed : BOOLEAN \union {Kept}]
         /\ trade[t].at = "partner" => trade[t] \in [at : {"partner"}, asked : Submissions, read : Submissions]
         /\ trade[t].at = "take" =>
              trade[t] \in [at : {"take"}, place : Places, seen : SUBSET Copies, empty : BOOLEAN, asked : Turnovers \union {Kept}]
         /\ trade[t].at = "put" =>
              trade[t] \in [at : {"put"}, place : Places, taken : SUBSET Copies, empty : BOOLEAN, asked : Turnovers \union {Kept}]
<1>1. trade[t] \in TradeKinds
  BY DEF EnquiriesTyped
<1> QED
  BY <1>1 DEF TradeKinds, AtDesk

\* A step of one request to what it holds next.
LEMMA OneDeals ==
  ASSUME EnquiriesTyped, NEW t \in Traders, NEW next \in TradeKinds, Deals(t, next)
  PROVE  /\ trade' \in [Traders -> TradeKinds]
         /\ trade'[t] = next
         /\ \A u \in Traders \ {t} : trade'[u] = trade[u]
BY DEF EnquiriesTyped, Deals

\* Being idle is one of the kinds.
LEMMA AtDeskKind == AtDesk \in TradeKinds /\ AtDesk.at = "idle"
BY DEF TradeKinds, AtDesk

\* A row is not the absence of one.
LEMMA EnquiryRows ==
  /\ Unentered \notin Enquiry
  /\ \A r \in Enquiry : /\ r.status \in {"NEW", "PENDING", "CLOSED"} /\ r.closed \in BOOLEAN
                        /\ r.bid \in Bids /\ r.currency \in BOOLEAN /\ r.snapshot \in Submissions
<1>1. \A r \in Enquiry : r.status \in {"NEW", "PENDING", "CLOSED"}
  BY DEF Enquiry
<1>2. Unentered.status = "unentered"
  BY DEF Unentered
<1> QED
  BY <1>1, <1>2 DEF Enquiry

\* What is written over a column or an amount.
LEMMA Overwritten ==
  ASSUME NEW S, NEW asked \in S \union {Kept}, NEW before, NEW current \in S
  PROVE  Column(asked, before, current) \in S /\ Amount(asked, before, current) \in S
<1>1. asked = Kept \/ asked \in S
  OBVIOUS
<1>2. Column(asked, before, current) \in S
  BY <1>1 DEF Column
<1>3. Amount(asked, before, current) \in S
  BY <1>1 DEF Amount
<1> QED
  BY <1>2, <1>3

\* A step that leaves the rows alone.
LEMMA KeepEnquiries ==
  ASSUME EnquiriesInv, NEW t \in Traders, NEW next \in TradeKinds, Deals(t, next),
         UNCHANGED <<turnover, enquiries, stands, edited, filed>>, priceLog' \in [EnquiryIds -> Bids],
         Dealing(t)', next.at = "insert" => trade[t].at = "insert" \/ PartnerFree
  PROVE  EnquiriesInv'
<1>1. trade' \in [Traders -> TradeKinds] /\ trade'[t] = next /\ \A u \in Traders \ {t} : trade'[u] = trade[u]
  BY OneDeals DEF EnquiriesInv
<1>2. EnquiriesTyped' /\ TurnoverSettled' /\ ReportKept' /\ OnFile' = OnFile
  BY <1>1 DEF EnquiriesInv, EnquiriesTyped, TurnoverSettled, ReportKept, OnFile
<1>3. ASSUME NEW u \in Traders PROVE Dealing(u)'
  <2>1. CASE u = t
    BY <2>1
  <2>2. CASE u # t
    <3>1. trade'[u] = trade[u] /\ Dealing(u)
      BY <1>1, <2>2 DEF EnquiriesInv
    <3>2. trade[u].at = "insert" => next.at # "insert"
      BY <2>2, <3>1 DEF Dealing, PartnerFree
    <3> QED
      BY <1>1, <1>2, <2>2, <3>1, <3>2 DEF Dealing
  <2> QED
    BY <2>1, <2>2
<1> QED
  BY <1>2, <1>3 DEF EnquiriesInv

\* A request locks the partner.
LEMMA LockPartnerInv ==
  ASSUME EnquiriesInv, NEW t \in Traders, LockPartner(t)
  PROVE  EnquiriesInv'
<1>1. PICK e \in EnquiryIds \ OnFile, bid \in Bids, currency \in BOOLEAN, submitted \in Submissions, closed \in BOOLEAN :
         Deals(t, [at |-> "insert", about |-> e, bid |-> bid, currency |-> currency,
                   submitted |-> submitted, closed |-> closed, master |-> turnover])
  BY DEF LockPartner
<1> DEFINE next == [at |-> "insert", about |-> e, bid |-> bid, currency |-> currency,
                    submitted |-> submitted, closed |-> closed, master |-> turnover]
<1>2. next \in TradeKinds /\ next.at = "insert" /\ next.master = turnover
  BY DEF TradeKinds, EnquiriesInv, EnquiriesTyped
<1>3. Deals(t, next) /\ PartnerFree /\ UNCHANGED <<turnover, enquiries, priceLog, stands, edited, filed>>
  BY <1>1 DEF LockPartner
<1> HIDE DEF next
<1>4. trade'[t] = next /\ \A u \in Traders \ {t} : trade'[u] = trade[u]
  BY <1>2, <1>3, OneDeals DEF EnquiriesInv
<1>5. Dealing(t)'
  BY <1>2, <1>3, <1>4 DEF Dealing, PartnerFree
<1> QED
  BY <1>2, <1>3, <1>5, KeepEnquiries DEF EnquiriesInv, EnquiriesTyped

\* A request that reads, or leaves.
LEMMA ReadEnquiries ==
  ASSUME EnquiriesInv, NEW t \in Traders, NEW next \in TradeKinds, Deals(t, next), next.at # "insert",
         UNCHANGED <<turnover, enquiries, stands, edited, filed>>, priceLog' \in [EnquiryIds -> Bids],
         next.at \in {"save", "log"} => next.about \in OnFile,
         next.at \in {"take", "put"} => /\ next.place = "reports" => ~next.empty
                                        /\ next.place # "reports" => next.asked = Kept
  PROVE  EnquiriesInv'
<1>1. trade'[t] = next /\ OnFile' = OnFile
  BY OneDeals DEF EnquiriesInv, OnFile
<1>2. Dealing(t)'
  BY <1>1 DEF Dealing
<1> QED
  BY <1>2, KeepEnquiries

\* A request that reads, takes a list, logs or breaks off,
LEMMA ApproachInv ==
  ASSUME EnquiriesInv, NEW t \in Traders, LoadEnquiry(t) \/ LoadPartner(t) \/ BeginList(t) \/ TakeList(t) \/ LogPrice(t) \/ BreakOff(t)
  PROVE  EnquiriesInv'
<1>1. priceLog \in [EnquiryIds -> Bids]
  BY DEF EnquiriesInv, EnquiriesTyped
<1>2. CASE LoadEnquiry(t)
  <2>1. PICK e \in OnFile, status \in {Kept, "PENDING", "CLOSED"}, bid \in Bids \union {Kept}, currency \in BOOLEAN \union {Kept}, closed \in BOOLEAN \union {Kept} :
           Deals(t, [at |-> "save", about |-> e, row |-> enquiries[e], status |-> status, bid |-> bid, currency |-> currency, closed |-> closed])
    BY <1>2 DEF LoadEnquiry
  <2> DEFINE next == [at |-> "save", about |-> e, row |-> enquiries[e], status |-> status, bid |-> bid, currency |-> currency, closed |-> closed]
  <2>2. e \in EnquiryIds /\ enquiries[e] \in Enquiry
    BY DEF OnFile, EnquiriesInv, EnquiriesTyped
  <2>3. next \in TradeKinds /\ next.at = "save" /\ next.about = e
    BY <2>2 DEF TradeKinds
  <2>4. Deals(t, next)
    BY <2>1
  <2> HIDE DEF next
  <2> QED
    BY <1>1, <1>2, <2>3, <2>4, ReadEnquiries DEF LoadEnquiry
<1>3. CASE LoadPartner(t)
  <2>1. PICK asked \in Submissions : Deals(t, [at |-> "partner", asked |-> asked, read |-> turnover])
    BY <1>3 DEF LoadPartner
  <2> DEFINE next == [at |-> "partner", asked |-> asked, read |-> turnover]
  <2>2. next \in TradeKinds /\ next.at = "partner"
    BY DEF TradeKinds, EnquiriesInv, EnquiriesTyped
  <2>3. Deals(t, next)
    BY <2>1
  <2> HIDE DEF next
  <2> QED
    BY <1>1, <1>3, <2>2, <2>3, ReadEnquiries DEF LoadPartner
<1>4. CASE BeginList(t)
  <2>1. PICK place \in Places, empty \in BOOLEAN, asked \in Turnovers \union {Kept} :
           /\ place = "reports" => ~empty
           /\ place # "reports" => asked = Kept
           /\ Deals(t, [at |-> "take", place |-> place, seen |-> stands[place], empty |-> empty, asked |-> asked])
    BY <1>4 DEF BeginList
  <2> DEFINE next == [at |-> "take", place |-> place, seen |-> stands[place], empty |-> empty, asked |-> asked]
  <2>2. next \in TradeKinds /\ next.at = "take" /\ next.place = place /\ (next.empty <=> empty) /\ next.asked = asked
    BY DEF TradeKinds, EnquiriesInv, EnquiriesTyped
  <2>3. Deals(t, next)
    BY <2>1
  <2> HIDE DEF next
  <2> QED
    BY <1>1, <1>4, <2>1, <2>2, <2>3, ReadEnquiries DEF BeginList
<1>5. CASE TakeList(t)
  <2>1. PICK d \in [at : {"take"}, place : Places, seen : SUBSET Copies, empty : BOOLEAN, asked : Turnovers \union {Kept}] : trade[t] = d
    BY <1>5, TradeTyped DEF TakeList, EnquiriesInv
  <2> DEFINE next == [at |-> "put", place |-> d.place, taken |-> d.seen \intersect stands[d.place], empty |-> d.empty, asked |-> d.asked]
  <2>2. next \in TradeKinds /\ next.at = "put" /\ next.place = d.place /\ (next.empty <=> d.empty) /\ next.asked = d.asked
    BY DEF TradeKinds, EnquiriesInv, EnquiriesTyped
  <2>3. Deals(t, next)
    BY <1>5, <2>1 DEF TakeList
  <2> HIDE DEF next
  <2>4. Dealing(t)
    BY DEF EnquiriesInv
  <2> QED
    BY <1>1, <1>5, <2>1, <2>2, <2>3, <2>4, ReadEnquiries DEF TakeList, Dealing
<1>6. CASE LogPrice(t)
  <2>1. trade[t] \in [at : {"log"}, about : EnquiryIds, bid : Bids]
    BY <1>6, TradeTyped DEF LogPrice, EnquiriesInv
  <2>2. priceLog' \in [EnquiryIds -> Bids]
    BY <1>1, <1>6, <2>1 DEF LogPrice
  <2> QED
    BY <1>6, <2>2, ReadEnquiries, AtDeskKind DEF LogPrice, Leaves
<1>7. CASE BreakOff(t)
  BY <1>1, <1>7, ReadEnquiries, AtDeskKind DEF BreakOff, Leaves
<1> QED
  BY <1>2, <1>3, <1>4, <1>5, <1>6, <1>7

\* A request that writes.
LEMMA WriteEnquiries ==
  ASSUME EnquiriesInv, NEW t \in Traders, NEW next \in TradeKinds, Deals(t, next),
         next.at \in {"idle", "log"}, next.at = "log" => next.about \in OnFile',
         turnover' \in Submissions, enquiries' \in [EnquiryIds -> Enquiry \union {Unentered}],
         stands' \in [Places -> SUBSET Copies], edited' \in BOOLEAN, filed' \in BOOLEAN, UNCHANGED priceLog,
         OnFile \subseteq OnFile', turnover' = turnover \/ \A u \in Traders \ {t} : trade[u].at # "insert",
         TurnoverSettled', ReportKept'
  PROVE  EnquiriesInv'
<1>1. trade' \in [Traders -> TradeKinds] /\ trade'[t] = next /\ \A u \in Traders \ {t} : trade'[u] = trade[u]
  BY OneDeals DEF EnquiriesInv
<1>2. EnquiriesTyped'
  BY <1>1 DEF EnquiriesInv, EnquiriesTyped
<1>3. ASSUME NEW u \in Traders PROVE Dealing(u)'
  <2>1. CASE u = t
    BY <1>1, <2>1 DEF Dealing
  <2>2. CASE u # t
    <3>1. trade'[u] = trade[u] /\ Dealing(u)
      BY <1>1, <2>2 DEF EnquiriesInv
    <3> QED
      BY <1>1, <2>2, <3>1 DEF Dealing
  <2> QED
    BY <2>1, <2>2
<1> QED
  BY <1>2, <1>3 DEF EnquiriesInv

\* The partner stays locked while an enquiry is inserted.
LEMMA OneInserts ==
  ASSUME EnquiriesInv, NEW t \in Traders, trade[t].at = "insert" \/ PartnerFree
  PROVE  \A u \in Traders \ {t} : trade[u].at # "insert"
BY DEF EnquiriesInv, Dealing, PartnerFree

\* What an insertion writes.
LEMMA InsertedRow ==
  ASSUME EnquiriesInv, NEW t \in Traders, InsertEnquiry(t)
  PROVE  \E e \in EnquiryIds, r \in Enquiry :
           /\ enquiries' = [enquiries EXCEPT ![e] = r]
           /\ r.status = "NEW" /\ r.bid = trade[t].bid /\ r.currency = trade[t].currency
           /\ dated' = IF r.closed THEN dated \union {e} ELSE dated
           /\ \/ turnover # Blank /\ turnover > 0 /\ r.snapshot = turnover /\ turnover' = turnover
              \/ /\ ~(turnover # Blank /\ turnover > 0) /\ r.snapshot \in Submissions
                 /\ turnover' = IF r.snapshot # Blank THEN r.snapshot ELSE turnover
           /\ Deals(t, [at |-> "log", about |-> e, bid |-> r.bid])
<1>1. PICK d \in [at : {"insert"}, about : EnquiryIds, bid : Bids, currency : BOOLEAN,
                  submitted : Submissions, closed : BOOLEAN, master : Submissions] : trade[t] = d
  BY TradeTyped DEF InsertEnquiry, EnquiriesInv
<1>2. d.master = turnover
  BY <1>1 DEF EnquiriesInv, Dealing, InsertEnquiry
<1> DEFINE known == turnover # Blank /\ turnover > 0
<1>3. PICK r : r = [status |-> "NEW", closed |-> d.closed, bid |-> d.bid, currency |-> d.currency,
                    snapshot |-> IF known THEN turnover ELSE d.submitted]
  OBVIOUS
<1>4. turnover \in Submissions /\ d.about \in EnquiryIds
  BY DEF EnquiriesInv, EnquiriesTyped
<1>5. /\ r \in Enquiry /\ r.status = "NEW" /\ r.closed = d.closed /\ r.bid = d.bid /\ r.currency = d.currency
      /\ r.snapshot = IF known THEN turnover ELSE d.submitted
  BY <1>3, <1>4 DEF Enquiry
<1>9. dated' = IF r.closed THEN dated \union {d.about} ELSE dated
  BY <1>1, <1>5 DEF InsertEnquiry
<1>6. /\ turnover' = IF ~known /\ d.submitted # Blank THEN d.submitted ELSE turnover
      /\ enquiries' = [enquiries EXCEPT ![d.about] = r]
      /\ Deals(t, [at |-> "log", about |-> d.about, bid |-> d.bid])
  BY <1>1, <1>2, <1>3 DEF InsertEnquiry
<1>7. d.submitted \in Submissions
  OBVIOUS
<1> HIDE DEF known
<1>8. \/ known /\ r.snapshot = turnover /\ turnover' = turnover
      \/ /\ ~known /\ r.snapshot \in Submissions
         /\ turnover' = IF r.snapshot # Blank THEN r.snapshot ELSE turnover
  BY <1>5, <1>6, <1>7
<1> QED
  BY <1>1, <1>4, <1>5, <1>6, <1>8, <1>9 DEF known

\* one that inserts an enquiry,
LEMMA InsertInv ==
  ASSUME EnquiriesInv, NEW t \in Traders, InsertEnquiry(t)
  PROVE  EnquiriesInv'
<1>1. PICK e \in EnquiryIds, r \in Enquiry :
           /\ enquiries' = [enquiries EXCEPT ![e] = r]
           /\ \/ turnover # Blank /\ turnover > 0 /\ r.snapshot = turnover /\ turnover' = turnover
              \/ /\ ~(turnover # Blank /\ turnover > 0) /\ r.snapshot \in Submissions
                 /\ turnover' = IF r.snapshot # Blank THEN r.snapshot ELSE turnover
           /\ Deals(t, [at |-> "log", about |-> e, bid |-> r.bid])
  BY InsertedRow
<1> DEFINE next == [at |-> "log", about |-> e, bid |-> r.bid]
<1>2. next \in TradeKinds /\ next.at = "log" /\ next.about = e
  BY EnquiryRows DEF TradeKinds
<1>3. Deals(t, next) /\ UNCHANGED <<priceLog, stands, edited, filed>> /\ trade[t].at = "insert"
  BY <1>1 DEF InsertEnquiry
<1> HIDE DEF next
<1>4. enquiries \in [EnquiryIds -> Enquiry \union {Unentered}] /\ turnover \in Submissions
  BY DEF EnquiriesInv, EnquiriesTyped
<1>5. /\ enquiries' \in [EnquiryIds -> Enquiry \union {Unentered}] /\ enquiries'[e] = r
      /\ \A f \in EnquiryIds \ {e} : enquiries'[f] = enquiries[f]
  BY <1>1, <1>4
<1>6. OnFile' = OnFile \union {e}
  BY <1>5, EnquiryRows DEF OnFile
<1>7. turnover' \in Submissions
  BY <1>1, <1>4
<1>8. TurnoverSettled'
  <2> SUFFICES ASSUME ~edited, NEW f \in OnFile', enquiries'[f].snapshot # Blank, enquiries'[f].snapshot > 0
               PROVE  enquiries'[f].snapshot = turnover'
    BY <1>3 DEF TurnoverSettled
  <2>1. CASE f = e
    BY <1>1, <1>5, <2>1
  <2>2. CASE f # e
    <3>1. f \in OnFile /\ enquiries'[f] = enquiries[f]
      BY <1>5, <1>6, <2>2 DEF OnFile
    <3>2. enquiries[f].snapshot = turnover
      BY <3>1 DEF EnquiriesInv, TurnoverSettled
    <3> QED
      BY <1>1, <3>1, <3>2
  <2> QED
    BY <2>1, <2>2
<1>9. ReportKept'
  BY <1>3 DEF EnquiriesInv, ReportKept
<1> QED
  BY <1>2, <1>3, <1>5, <1>6, <1>7, <1>8, <1>9, OneInserts, WriteEnquiries DEF EnquiriesInv, EnquiriesTyped

\* What an update writes.
LEMMA SavedOver ==
  ASSUME EnquiriesInv, NEW t \in Traders, SaveEnquiry(t)
  PROVE  \E e \in OnFile, r \in Enquiry, next \in TradeKinds :
           /\ e = trade[t].about /\ enquiries' = [enquiries EXCEPT ![e] = r]
           /\ r.snapshot = enquiries[e].snapshot
           /\ r.status = Column(trade[t].status, trade[t].row.status, enquiries[e].status)
           /\ r.closed = Closure(trade[t], enquiries[e].closed)
           /\ r.bid = Amount(trade[t].bid, trade[t].row.bid, enquiries[e].bid)
           /\ r.currency = Column(trade[t].currency, trade[t].row.currency, enquiries[e].currency)
           /\ Deals(t, next)
           /\ \/ next = AtDesk /\ trade[t].bid \in {Kept, trade[t].row.bid}
              \/ /\ trade[t].bid \notin {Kept, trade[t].row.bid}
                 /\ next.at = "log" /\ next.about = e /\ next.bid = trade[t].bid
           /\ trade[t].status # Kept => dated' = dated \ {e}
           /\ trade[t].status = Kept /\ trade[t].closed # Kept => dated' = dated \union {e}
           /\ trade[t].status = Kept /\ trade[t].closed = Kept => dated' = dated
<1>1. PICK d \in [at : {"save"}, about : EnquiryIds, row : Enquiry, status : {Kept, "PENDING", "CLOSED"},
                  bid : Bids \union {Kept}, currency : BOOLEAN \union {Kept}, closed : BOOLEAN \union {Kept}] : trade[t] = d
  BY TradeTyped DEF SaveEnquiry, EnquiriesInv
<1>2. d.about \in OnFile /\ d.about \in EnquiryIds
  BY <1>1 DEF EnquiriesInv, Dealing, SaveEnquiry
<1>3. PICK now0 \in Enquiry : now0 = enquiries[d.about]
  BY <1>2 DEF OnFile, EnquiriesInv, EnquiriesTyped
<1> DEFINE status == Column(d.status, d.row.status, now0.status)
           closed == Closure(d, now0.closed)
           bid == Amount(d.bid, d.row.bid, now0.bid)
           currency == Column(d.currency, d.row.currency, now0.currency)
<1>4. status \in {"NEW", "PENDING", "CLOSED"}
  <2>1. now0.status \in {"NEW", "PENDING", "CLOSED"} /\ d.status \in {"NEW", "PENDING", "CLOSED"} \union {Kept}
    BY EnquiryRows
  <2> QED
    BY <2>1, Overwritten
<1>5. closed \in BOOLEAN
  <2>1. now0.closed \in BOOLEAN
    BY EnquiryRows
  <2>2. Column(FALSE, d.row.closed, now0.closed) \in BOOLEAN
    BY <2>1, Overwritten
  <2>3. closed \in {TRUE, now0.closed, Column(FALSE, d.row.closed, now0.closed)}
    BY DEF Closure
  <2> QED
    BY <2>1, <2>2, <2>3
<1>6. bid \in Bids
  BY EnquiryRows, Overwritten
<1>7. currency \in BOOLEAN
  BY EnquiryRows, Overwritten
<1>8. PICK r : r = [status |-> status, closed |-> closed, bid |-> bid, currency |-> currency, snapshot |-> now0.snapshot]
  OBVIOUS
<1>9. enquiries' = [enquiries EXCEPT ![d.about] = r]
  BY <1>1, <1>3, <1>8 DEF SaveEnquiry
<1>10. Deals(t, IF d.bid \in {Kept, d.row.bid} THEN AtDesk ELSE [at |-> "log", about |-> d.about, bid |-> d.bid])
  BY <1>1 DEF SaveEnquiry, Leaves
<1>14. /\ d.status # Kept => dated' = dated \ {d.about}
       /\ d.status = Kept /\ d.closed # Kept => dated' = dated \union {d.about}
       /\ d.status = Kept /\ d.closed = Kept => dated' = dated
  <2>1. dated' = IF d.status # Kept THEN dated \ {d.about}
                 ELSE IF d.closed # Kept THEN dated \union {d.about} ELSE dated
    BY <1>1 DEF SaveEnquiry
  <2> QED
    BY <2>1
<1> HIDE DEF status, closed, bid, currency
<1>11. /\ r \in Enquiry /\ r.snapshot = now0.snapshot /\ r.status = status /\ r.closed = closed
       /\ r.bid = bid /\ r.currency = currency
  BY <1>4, <1>5, <1>6, <1>7, <1>8, EnquiryRows DEF Enquiry
<1>12. PICK next : next = IF d.bid \in {Kept, d.row.bid} THEN AtDesk ELSE [at |-> "log", about |-> d.about, bid |-> d.bid]
  OBVIOUS
<1>13. /\ next \in TradeKinds
       /\ \/ next = AtDesk /\ d.bid \in {Kept, d.row.bid}
          \/ d.bid \notin {Kept, d.row.bid} /\ next.at = "log" /\ next.about = d.about /\ next.bid = d.bid
  <2>1. CASE d.bid \in {Kept, d.row.bid}
    BY <1>12, <2>1, AtDeskKind
  <2>2. CASE d.bid \notin {Kept, d.row.bid}
    <3>1. next = [at |-> "log", about |-> d.about, bid |-> d.bid] /\ d.bid \in Bids
      BY <1>12, <2>2
    <3> QED
      BY <1>2, <2>2, <3>1 DEF TradeKinds
  <2> QED
    BY <2>1, <2>2
<1> QED
  BY <1>1, <1>2, <1>3, <1>9, <1>10, <1>11, <1>12, <1>13, <1>14 DEF status, closed, bid, currency

\* one that saves one,
LEMMA SaveInv ==
  ASSUME EnquiriesInv, NEW t \in Traders, SaveEnquiry(t)
  PROVE  EnquiriesInv'
<1>1. PICK e \in OnFile, r \in Enquiry, next \in TradeKinds :
           /\ enquiries' = [enquiries EXCEPT ![e] = r]
           /\ r.snapshot = enquiries[e].snapshot
           /\ Deals(t, next)
           /\ next = AtDesk \/ (next.at = "log" /\ next.about = e)
  BY SavedOver
<1>2. enquiries \in [EnquiryIds -> Enquiry \union {Unentered}] /\ e \in EnquiryIds
  BY DEF EnquiriesInv, EnquiriesTyped, OnFile
<1>3. /\ enquiries' \in [EnquiryIds -> Enquiry \union {Unentered}] /\ enquiries'[e] = r
      /\ \A f \in EnquiryIds \ {e} : enquiries'[f] = enquiries[f]
  BY <1>1, <1>2
<1>4. OnFile' = OnFile
  BY <1>1, <1>3, EnquiryRows DEF OnFile
<1>5. UNCHANGED <<turnover, priceLog, stands, edited, filed>>
  BY DEF SaveEnquiry
<1>6. TurnoverSettled' /\ ReportKept'
  BY <1>1, <1>3, <1>4, <1>5 DEF EnquiriesInv, TurnoverSettled, ReportKept
<1> QED
  BY <1>1, <1>3, <1>4, <1>5, <1>6, AtDeskKind, WriteEnquiries DEF EnquiriesInv, EnquiriesTyped

\* What a follow-up writes.
LEMMA SyncedRow ==
  ASSUME EnquiriesInv, SyncStatus
  PROVE  \E e \in OnFile, r \in Enquiry :
           /\ enquiries' = [enquiries EXCEPT ![e] = r]
           /\ r.closed <=> r.status = "CLOSED"
           /\ r.bid = enquiries[e].bid /\ (r.currency <=> enquiries[e].currency) /\ r.snapshot = enquiries[e].snapshot
           /\ dated' = dated \ {e}
<1>1. PICK e \in OnFile, status \in {"PENDING", "CLOSED"} :
         /\ enquiries' = [enquiries EXCEPT ![e].status = status, ![e].closed = (status = "CLOSED")]
         /\ dated' = dated \ {e}
  BY DEF SyncStatus
<1>2. e \in EnquiryIds /\ enquiries \in [EnquiryIds -> Enquiry \union {Unentered}] /\ enquiries[e] \in Enquiry
  BY DEF OnFile, EnquiriesInv, EnquiriesTyped
<1>3. PICK q \in Enquiry : q = enquiries[e]
  BY <1>2
<1>4. PICK r : r = [[q EXCEPT !.status = status] EXCEPT !.closed = (status = "CLOSED")]
  OBVIOUS
<1>5. /\ r \in Enquiry /\ r.status = status /\ r.bid = q.bid /\ r.snapshot = q.snapshot
  BY <1>4 DEF Enquiry
<1>6. r.closed <=> status = "CLOSED"
  BY <1>4 DEF Enquiry
<1>7. r.currency <=> q.currency
  BY <1>4 DEF Enquiry
<1>8. enquiries' = [enquiries EXCEPT ![e] = r]
  BY <1>1, <1>2, <1>3, <1>4
<1> QED
  BY <1>1, <1>3, <1>5, <1>6, <1>7, <1>8

\* a follow-up that closes or reopens one,
LEMMA SyncInv == ASSUME EnquiriesInv, SyncStatus PROVE EnquiriesInv'
<1>1. PICK e \in OnFile, r \in Enquiry :
         enquiries' = [enquiries EXCEPT ![e] = r] /\ r.snapshot = enquiries[e].snapshot
  BY SyncedRow
<1>2. enquiries \in [EnquiryIds -> Enquiry \union {Unentered}] /\ e \in EnquiryIds
  BY DEF EnquiriesInv, EnquiriesTyped, OnFile
<1>3. /\ enquiries' \in [EnquiryIds -> Enquiry \union {Unentered}] /\ enquiries'[e] = r
      /\ \A f \in EnquiryIds \ {e} : enquiries'[f] = enquiries[f]
  BY <1>1, <1>2
<1>4. OnFile' = OnFile
  BY <1>1, <1>3, EnquiryRows DEF OnFile
<1>5. UNCHANGED <<turnover, priceLog, stands, edited, filed, trade>>
  BY DEF SyncStatus
<1>6. TurnoverSettled' /\ ReportKept'
  BY <1>1, <1>3, <1>4, <1>5 DEF EnquiriesInv, TurnoverSettled, ReportKept
<1> QED
  BY <1>3, <1>4, <1>5, <1>6 DEF EnquiriesInv, EnquiriesTyped, Dealing

\* an entry in the log,
LEMMA PostInv == ASSUME EnquiriesInv, PostActivity PROVE EnquiriesInv'
<1>1. PICK e \in OnFile, bid \in Bids : priceLog' = [priceLog EXCEPT ![e] = bid]
  BY DEF PostActivity
<1>2. priceLog' \in [EnquiryIds -> Bids] /\ UNCHANGED <<turnover, enquiries, stands, edited, filed, trade>>
  BY <1>1 DEF PostActivity, EnquiriesInv, EnquiriesTyped, OnFile
<1> QED
  BY <1>2 DEF EnquiriesInv, EnquiriesTyped, TurnoverSettled, ReportKept, OnFile, Dealing

\* one that saves the partner,
LEMMA SavePartnerInv == ASSUME EnquiriesInv, NEW t \in Traders, SavePartner(t) PROVE EnquiriesInv'
<1>1. trade[t] \in [at : {"partner"}, asked : Submissions, read : Submissions]
  BY TradeTyped DEF SavePartner, EnquiriesInv
<1>2. turnover' \in Submissions
  BY <1>1, Overwritten DEF SavePartner, EnquiriesInv, EnquiriesTyped
<1>3. /\ UNCHANGED <<enquiries, priceLog, stands, filed>> /\ edited' = TRUE /\ Deals(t, AtDesk)
      /\ \A u \in Traders \ {t} : trade[u].at # "insert"
  BY OneInserts DEF SavePartner, Leaves
<1>4. TurnoverSettled' /\ ReportKept' /\ OnFile' = OnFile
  BY <1>3 DEF EnquiriesInv, TurnoverSettled, ReportKept, OnFile
<1> QED
  BY <1>2, <1>3, <1>4, AtDeskKind, WriteEnquiries DEF EnquiriesInv, EnquiriesTyped

\* What the replacement of a list leaves.
LEMMA ListPut ==
  ASSUME EnquiriesInv, NEW t \in Traders, PutList(t)
  PROVE  \E place \in Places, new \in SUBSET Copies :
           /\ place = trade[t].place
           /\ stands' = [stands EXCEPT ![place] = new]
           /\ place = "reports" => new # {}
           /\ new = stands[place] \ trade[t].taken \/ \E copy : new = (stands[place] \ trade[t].taken) \union {copy}
<1>1. PICK d \in [at : {"put"}, place : Places, taken : SUBSET Copies, empty : BOOLEAN, asked : Turnovers \union {Kept}] : trade[t] = d
  BY TradeTyped DEF PutList, EnquiriesInv
<1>2. PICK left \in SUBSET Copies : left = stands[d.place] \ d.taken
  BY DEF EnquiriesInv, EnquiriesTyped
<1>3. d.place = "reports" => ~d.empty
  BY <1>1 DEF EnquiriesInv, Dealing, PutList
<1>4. CASE d.empty
  BY <1>1, <1>2, <1>3, <1>4 DEF PutList
<1>5. CASE ~d.empty
  <2>1. PICK copy \in Copies : stands' = [stands EXCEPT ![d.place] = left \union {copy}]
    BY <1>1, <1>2, <1>5 DEF PutList, Spare
  <2>2. PICK new \in SUBSET Copies : new = left \union {copy}
    OBVIOUS
  <2>3. new # {} /\ new = (stands[d.place] \ d.taken) \union {copy} /\ stands' = [stands EXCEPT ![d.place] = new]
    BY <1>2, <2>1, <2>2
  <2> QED
    BY <1>1, <2>3
<1> QED
  BY <1>4, <1>5

\* and one that replaces a list keep what holds whoever races.
LEMMA PutListInv == ASSUME EnquiriesInv, NEW t \in Traders, PutList(t) PROVE EnquiriesInv'
<1>1. PICK d \in [at : {"put"}, place : Places, taken : SUBSET Copies, empty : BOOLEAN, asked : Turnovers \union {Kept}] : trade[t] = d
  BY TradeTyped DEF PutList, EnquiriesInv
<1>2. PICK new \in SUBSET Copies : stands' = [stands EXCEPT ![d.place] = new] /\ (d.place = "reports" => new # {})
  BY <1>1, ListPut
<1>3. stands \in [Places -> SUBSET Copies]
  BY DEF EnquiriesInv, EnquiriesTyped
<1>4. stands' \in [Places -> SUBSET Copies] /\ (d.place # "reports" => stands'["reports"] = stands["reports"])
      /\ (d.place = "reports" => stands'["reports"] # {})
  BY <1>2, <1>3 DEF Places
<1>5. /\ turnover' = Amount(d.asked, Blank, turnover)
      /\ edited' = (edited \/ d.asked # Kept)
      /\ filed' = (filed \/ d.place = "reports")
      /\ UNCHANGED <<enquiries, priceLog>> /\ Deals(t, AtDesk)
      /\ d.place = "reports" => PartnerFree
  BY <1>1 DEF PutList, Leaves
<1>6. CASE d.asked = Kept
  <2>1. turnover' = turnover
    BY <1>5, <1>6 DEF Amount
  <2>2. edited' = edited
    BY <1>5, <1>6 DEF EnquiriesInv, EnquiriesTyped
  <2>3. TurnoverSettled' /\ OnFile' = OnFile
    BY <1>5, <2>1, <2>2 DEF EnquiriesInv, TurnoverSettled, OnFile
  <2>4. ReportKept' /\ filed' \in BOOLEAN
    BY <1>4, <1>5 DEF EnquiriesInv, ReportKept, EnquiriesTyped
  <2> QED
    BY <1>4, <1>5, <2>1, <2>2, <2>3, <2>4, AtDeskKind, WriteEnquiries DEF EnquiriesInv, EnquiriesTyped
<1>7. CASE d.asked # Kept
  <2>1. d.place = "reports" /\ d.asked \in Submissions
    BY <1>1, <1>7 DEF EnquiriesInv, Dealing, PutList, Submissions
  <2>2. turnover' \in Submissions
    BY <1>5, <2>1, Overwritten DEF EnquiriesInv, EnquiriesTyped
  <2>3. edited' /\ edited' \in BOOLEAN /\ filed' \in BOOLEAN
    BY <1>5, <1>7
  <2>4. TurnoverSettled' /\ ReportKept' /\ OnFile' = OnFile
    BY <1>4, <1>5, <2>1, <2>3 DEF TurnoverSettled, ReportKept, OnFile
  <2>5. \A u \in Traders \ {t} : trade[u].at # "insert"
    BY <1>5, <2>1, OneInserts
  <2> QED
    BY <1>4, <1>5, <2>2, <2>3, <2>4, <2>5, AtDeskKind, WriteEnquiries DEF EnquiriesInv, EnquiriesTyped
<1> QED
  BY <1>6, <1>7

\* Every step does,
LEMMA EnquiriesStep == ASSUME EnquiriesInv, [EnquiriesNext]_enquiryVars PROVE EnquiriesInv'
<1>1. CASE UNCHANGED enquiryVars
  <2>1. UNCHANGED <<turnover, enquiries, priceLog, stands, trade, edited, filed>>
    BY <1>1 DEF enquiryVars
  <2> QED
    BY <2>1 DEF EnquiriesInv, EnquiriesTyped, TurnoverSettled, ReportKept, Dealing, OnFile
<1> QED
  BY <1>1, LockPartnerInv, ApproachInv, InsertInv, SaveInv, SyncInv, PostInv, SavePartnerInv, PutListInv
     DEF EnquiriesNext, Approach, Deal

\* and the desk opens with it.
LEMMA EnquiriesBegin == ASSUME EnquiriesInit PROVE EnquiriesInv
<1>1. \A t \in Traders : trade[t] = AtDesk /\ trade[t].at = "idle"
  BY AtDeskKind DEF EnquiriesInit
<1>2. EnquiriesTyped
  BY AtDeskKind DEF EnquiriesInit, EnquiriesTyped, Submissions, Bids
<1>3. TurnoverSettled /\ ReportKept
  BY DEF EnquiriesInit, TurnoverSettled, ReportKept, OnFile
<1> QED
  BY <1>1, <1>2, <1>3 DEF EnquiriesInv, Dealing

\* At most one request is in progress.
OneTrade == \A t, u \in Traders : trade[t] # AtDesk /\ trade[u] # AtDesk => t = u

\* Serially an enquiry is as the request in progress has read it, and what it asks for has a
\* currency where the amount will need one.
Asking(dto, own) == IF dto = Kept THEN own ELSE dto
AsFiled(t) ==
    /\ trade[t].at = "insert" => Priced(trade[t].bid, trade[t].currency)
    /\ trade[t].at = "save" =>
         LET d == trade[t]
         IN  /\ d.row = enquiries[d.about]
             /\ Priced(Asking(d.bid, d.row.bid), Asking(d.currency, d.row.currency))
    /\ trade[t].at = "log" => trade[t].bid = enquiries[trade[t].about].bid

\* The last price is in the history, or about to be, or was lost or written over.
Noting == \A e \in OnFile \ (unlogged \union annotated) :
    priceLog[e] = enquiries[e].bid \/ \E t \in Traders : trade[t].at = "log" /\ trade[t].about = e

SerialEnquiriesInv ==
    OneTrade /\ ClosedIsDated /\ BidHasCurrency /\ Noting /\ \A t \in Traders : AsFiled(t)

\* Serially a request takes the whole of a list away.
AsListed(t) ==
    /\ trade[t].at = "take" => trade[t].seen = stands[trade[t].place]
    /\ trade[t].at = "put" => trade[t].taken = stands[trade[t].place]
OneList == \A p \in Places, a, b \in Copies : a \in stands[p] /\ b \in stands[p] => a = b
SerialListsInv == OneTrade /\ OneList /\ \A t \in Traders : AsListed(t)

\* While a request is in progress, or begins with none in progress, the others are idle.
LEMMA OthersIdle ==
  ASSUME EnquiriesTyped, OneTrade, NEW t \in Traders, NoDeal \/ trade[t] # AtDesk,
         NEW next \in TradeKinds, Deals(t, next)
  PROVE  /\ trade'[t] = next /\ \A u \in Traders \ {t} : trade'[u] = AtDesk /\ trade[u] = AtDesk
         /\ OneTrade'
<1>1. trade'[t] = next /\ \A u \in Traders \ {t} : trade'[u] = trade[u]
  BY OneDeals
<1>2. \A u \in Traders \ {t} : trade[u] = AtDesk
  BY DEF NoDeal, OneTrade
<1> QED
  BY <1>1, <1>2 DEF OneTrade

\* One list replaced at a time, one stands in each place.
LEMMA SerialListStep ==
  ASSUME EnquiriesInv, SerialListsInv, SerialLists
  PROVE  SerialListsInv'
<1>1. PICK t \in Traders : (NoDeal /\ BeginList(t)) \/ TakeList(t) \/ PutList(t) \/ BreakOff(t)
  BY DEF SerialLists
<1>2. NoDeal \/ trade[t] # AtDesk
  BY <1>1, AtDeskKind DEF TakeList, PutList, BreakOff
<1>3. stands \in [Places -> SUBSET Copies]
  BY DEF EnquiriesInv, EnquiriesTyped
<1>4. ASSUME NEW next \in TradeKinds, Deals(t, next), UNCHANGED stands,
             next.at = "take" => next.seen = stands[next.place],
             next.at = "put" => next.taken = stands[next.place]
      PROVE  SerialListsInv'
  <2>1. trade'[t] = next /\ (\A u \in Traders \ {t} : trade'[u] = AtDesk) /\ OneTrade'
    BY <1>2, <1>4, OthersIdle DEF EnquiriesInv, SerialListsInv
  <2>2. \A u \in Traders : AsListed(u)'
    BY <1>4, <2>1, AtDeskKind DEF AsListed
  <2> QED
    BY <1>4, <2>1, <2>2 DEF SerialListsInv, OneList
<1>5. CASE BeginList(t)
  <2>1. PICK place \in Places, empty \in BOOLEAN, asked \in Turnovers \union {Kept} :
           Deals(t, [at |-> "take", place |-> place, seen |-> stands[place], empty |-> empty, asked |-> asked])
    BY <1>5 DEF BeginList
  <2> DEFINE next == [at |-> "take", place |-> place, seen |-> stands[place], empty |-> empty, asked |-> asked]
  <2>2. next \in TradeKinds /\ next.at = "take" /\ next.place = place /\ next.seen = stands[place]
    BY <1>3 DEF TradeKinds
  <2>3. Deals(t, next) /\ UNCHANGED stands
    BY <1>5, <2>1 DEF BeginList
  <2> HIDE DEF next
  <2> QED
    BY <1>4, <2>2, <2>3
<1>6. CASE TakeList(t)
  <2>1. PICK d \in [at : {"take"}, place : Places, seen : SUBSET Copies, empty : BOOLEAN, asked : Turnovers \union {Kept}] : trade[t] = d
    BY <1>6, TradeTyped DEF TakeList, EnquiriesInv
  <2> DEFINE next == [at |-> "put", place |-> d.place, taken |-> d.seen \intersect stands[d.place], empty |-> d.empty, asked |-> d.asked]
  <2>2. d.seen = stands[d.place]
    BY <1>6, <2>1 DEF TakeList, SerialListsInv, AsListed
  <2>3. next \in TradeKinds /\ next.at = "put" /\ next.place = d.place /\ next.taken = stands[d.place]
    BY <2>2 DEF TradeKinds
  <2>4. Deals(t, next) /\ UNCHANGED stands
    BY <1>6, <2>1 DEF TakeList
  <2> HIDE DEF next
  <2> QED
    BY <1>4, <2>3, <2>4
<1>7. CASE PutList(t)
  <2>1. PICK place \in Places, new \in SUBSET Copies :
           /\ place = trade[t].place
           /\ stands' = [stands EXCEPT ![place] = new]
           /\ new = stands[place] \ trade[t].taken \/ \E copy : new = (stands[place] \ trade[t].taken) \union {copy}
    BY <1>7, ListPut
  <2>2. trade[t].taken = stands[place]
    BY <1>7, <2>1 DEF PutList, SerialListsInv, AsListed
  <2>3. \A a, b \in new : a = b
    BY <2>1, <2>2
  <2>4. OneList'
    BY <1>3, <2>1, <2>3 DEF OneList, SerialListsInv
  <2>5. Deals(t, AtDesk)
    BY <1>7 DEF PutList, Leaves
  <2>6. (\A u \in Traders : trade'[u] = AtDesk) /\ OneTrade'
    BY <1>2, <2>5, OthersIdle, AtDeskKind DEF EnquiriesInv, SerialListsInv
  <2>7. \A u \in Traders : AsListed(u)'
    BY <2>6, AtDeskKind DEF AsListed
  <2> QED
    BY <2>4, <2>6, <2>7 DEF SerialListsInv
<1>8. CASE BreakOff(t)
  BY <1>4, <1>8, AtDeskKind DEF BreakOff, Leaves
<1> QED
  BY <1>1, <1>5, <1>6, <1>7, <1>8

\* One list in a place.
LEMMA ListsAreOne == ASSUME EnquiriesInv, OneList PROVE OneStands
<1> SUFFICES ASSUME NEW p \in Places PROVE Cardinality(stands[p]) <= 1
  BY DEF OneStands
<1>1. stands[p] \in SUBSET Copies
  BY DEF EnquiriesInv, EnquiriesTyped
<1>2. CASE stands[p] = {}
  BY <1>2, FS_EmptySet
<1>3. CASE stands[p] # {}
  <2>1. PICK a : a \in stands[p]
    BY <1>3
  <2>2. stands[p] = {a}
    BY <1>1, <2>1 DEF OneList
  <2> QED
    BY <2>2, FS_Singleton
<1> QED
  BY <1>2, <1>3

\* A row is dated closed exactly when it is closed.
DatedRight(r) == r.closed <=> r.status = "CLOSED"

\* What an update serially leaves of a row.
LEMMA SerialSave ==
  ASSUME NEW d \in [at : {"save"}, about : EnquiryIds, row : Enquiry, status : {Kept, "PENDING", "CLOSED"},
                    bid : Bids \union {Kept}, currency : BOOLEAN \union {Kept}, closed : BOOLEAN \union {Kept}],
         Priced(Asking(d.bid, d.row.bid), Asking(d.currency, d.row.currency)),
         NEW r \in Enquiry,
         r.status = Column(d.status, d.row.status, d.row.status),
         r.closed = Closure(d, d.row.closed),
         r.bid = Amount(d.bid, d.row.bid, d.row.bid),
         r.currency = Column(d.currency, d.row.currency, d.row.currency)
  PROVE  /\ Priced(r.bid, r.currency) /\ r.bid = Asking(d.bid, d.row.bid)
         /\ d.status # Kept => DatedRight(r)
         /\ d.status = Kept /\ d.closed = Kept /\ DatedRight(d.row) => DatedRight(r)
<1>1. r.bid = Asking(d.bid, d.row.bid)
  BY DEF Amount, Asking
<1>2. r.currency = Asking(d.currency, d.row.currency)
  BY DEF Column, Asking
<1>3. r.status = IF d.status = Kept THEN d.row.status ELSE d.status
  BY DEF Column
<1>4. d.row.closed \in BOOLEAN /\ r.closed \in BOOLEAN /\ Kept \notin BOOLEAN /\ Kept \notin {"PENDING", "CLOSED"}
  BY EnquiryRows, EnquiryAssumption
<1>5. Column(FALSE, d.row.closed, d.row.closed) = FALSE
  BY <1>4 DEF Column
<1>6. CASE d.status = Kept
  <2>1. d.closed = Kept => Closure(d, d.row.closed) = d.row.closed
    BY <1>4, <1>6 DEF Closure
  <2>2. d.closed = Kept => r.closed = d.row.closed /\ r.status = d.row.status
    BY <1>3, <1>6, <2>1
  <2> QED
    BY <1>1, <1>2, <1>6, <2>2 DEF DatedRight
<1>7. CASE d.status = "CLOSED"
  BY <1>1, <1>2, <1>3, <1>4, <1>7 DEF Closure, DatedRight
<1>8. CASE d.status = "PENDING"
  BY <1>1, <1>2, <1>3, <1>4, <1>5, <1>8 DEF Closure, DatedRight
<1> QED
  BY <1>6, <1>7, <1>8

\* One row is written.
LEMMA SoundWrite ==
  ASSUME EnquiriesInv, SerialEnquiriesInv, NEW e \in EnquiryIds, NEW r \in Enquiry, Priced(r.bid, r.currency),
         enquiries' = [enquiries EXCEPT ![e] = r], dated \ {e} \subseteq dated', e \in dated' \/ DatedRight(r)
  PROVE  /\ ClosedIsDated' /\ BidHasCurrency' /\ OnFile' = OnFile \union {e}
         /\ enquiries'[e] = r /\ \A f \in OnFile' \ {e} : enquiries'[f] = enquiries[f] /\ f \in OnFile
<1>1. enquiries \in [EnquiryIds -> Enquiry \union {Unentered}]
  BY DEF EnquiriesInv, EnquiriesTyped
<1>2. enquiries'[e] = r /\ \A f \in EnquiryIds \ {e} : enquiries'[f] = enquiries[f]
  BY <1>1
<1>3. OnFile' = OnFile \union {e}
  BY <1>2, EnquiryRows DEF OnFile
<1>4. \A f \in OnFile' \ {e} : enquiries'[f] = enquiries[f] /\ f \in OnFile
  BY <1>2, <1>3 DEF OnFile
<1>5. \A f \in OnFile' \ dated' : DatedRight(enquiries'[f])
  <2> SUFFICES ASSUME NEW f \in OnFile' \ dated' PROVE DatedRight(enquiries'[f])
    OBVIOUS
  <2>1. CASE f = e
    BY <1>2, <2>1
  <2>2. CASE f # e
    <3>1. f \in OnFile \ dated /\ enquiries'[f] = enquiries[f]
      BY <1>4, <2>2
    <3> QED
      BY <3>1 DEF DatedRight, SerialEnquiriesInv, ClosedIsDated
  <2> QED
    BY <2>1, <2>2
<1>6. \A f \in OnFile' : Priced(enquiries'[f].bid, enquiries'[f].currency)
  BY <1>2, <1>4 DEF SerialEnquiriesInv, BidHasCurrency
<1>7. ClosedIsDated' /\ BidHasCurrency'
  BY <1>5, <1>6 DEF DatedRight, ClosedIsDated, BidHasCurrency
<1> QED
  BY <1>2, <1>3, <1>4, <1>7

\* One request about enquiries at a time, what holds of them serially is kept.
LEMMA SerialEnquiryStep ==
  ASSUME EnquiriesInv, SerialEnquiriesInv, SerialEnquiries
  PROVE  SerialEnquiriesInv'
<1> DEFINE Acts(t) == InsertEnquiry(t) \/ LogPrice(t) \/ SaveEnquiry(t) \/ BreakOff(t)
<1>1. \/ NoDeal /\ (SyncStatus \/ PostActivity)
      \/ \E t \in Traders : (NoDeal /\ (LockPartner(t) \/ LoadEnquiry(t))) \/ Acts(t)
  BY DEF SerialEnquiries
<1>2. \A t \in Traders : Acts(t) => trade[t] # AtDesk
  BY AtDeskKind DEF InsertEnquiry, LogPrice, SaveEnquiry, BreakOff
<1> HIDE DEF Acts
<1>3. ASSUME NEW t \in Traders, NEW next \in TradeKinds, Deals(t, next), NoDeal \/ trade[t] # AtDesk,
             UNCHANGED <<enquiries, priceLog, unlogged, dated, annotated>>, trade[t].at # "log",
             next.at = "insert" => Priced(next.bid, next.currency),
             next.at = "save" => /\ next.row = enquiries[next.about]
                                 /\ Priced(Asking(next.bid, next.row.bid), Asking(next.currency, next.row.currency)),
             next.at # "log"
      PROVE  SerialEnquiriesInv'
  <2>1. /\ trade'[t] = next /\ (\A u \in Traders \ {t} : trade'[u] = AtDesk /\ trade[u] = AtDesk) /\ OneTrade'
    BY <1>3, OthersIdle DEF EnquiriesInv, SerialEnquiriesInv
  <2>2. OnFile' = OnFile /\ ClosedIsDated' /\ BidHasCurrency'
    BY <1>3 DEF SerialEnquiriesInv, OnFile, ClosedIsDated, BidHasCurrency
  <2>3. \A u \in Traders : AsFiled(u)'
    BY <1>3, <2>1, AtDeskKind DEF AsFiled
  <2>4. \A u \in Traders : trade[u].at # "log"
    BY <1>3, <2>1, AtDeskKind
  <2>5. Noting'
    BY <1>3, <2>2, <2>4 DEF SerialEnquiriesInv, Noting
  <2> QED
    BY <2>1, <2>2, <2>3, <2>5 DEF SerialEnquiriesInv
<1>4. CASE NoDeal /\ SyncStatus
  <2>1. PICK e \in OnFile, r \in Enquiry :
           /\ enquiries' = [enquiries EXCEPT ![e] = r]
           /\ r.closed <=> r.status = "CLOSED"
           /\ r.bid = enquiries[e].bid /\ (r.currency <=> enquiries[e].currency)
           /\ dated' = dated \ {e}
    BY <1>4, SyncedRow
  <2>2. Priced(r.bid, r.currency) /\ DatedRight(r) /\ e \in EnquiryIds
    BY <2>1 DEF DatedRight, Priced, OnFile, SerialEnquiriesInv, BidHasCurrency
  <2>3. UNCHANGED <<trade, priceLog, unlogged, annotated>>
    BY <1>4 DEF SyncStatus
  <2>4. /\ ClosedIsDated' /\ BidHasCurrency' /\ OnFile' = OnFile \union {e}
        /\ enquiries'[e] = r /\ \A f \in OnFile' \ {e} : enquiries'[f] = enquiries[f] /\ f \in OnFile
    BY <2>1, <2>2, SoundWrite
  <2>5. Noting'
    BY <2>1, <2>3, <2>4 DEF SerialEnquiriesInv, Noting
  <2>6. OneTrade' /\ \A t \in Traders : AsFiled(t)'
    BY <1>4, <2>3, AtDeskKind DEF SerialEnquiriesInv, OneTrade, NoDeal, AsFiled
  <2> QED
    BY <2>4, <2>5, <2>6 DEF SerialEnquiriesInv
<1>5. ASSUME NEW t \in Traders, NoDeal, LockPartner(t) PROVE SerialEnquiriesInv'
  <2>1. PICK e \in EnquiryIds \ OnFile, bid \in Bids, currency \in BOOLEAN, submitted \in Submissions, closed \in BOOLEAN :
           /\ Priced(bid, currency)
           /\ Deals(t, [at |-> "insert", about |-> e, bid |-> bid, currency |-> currency,
                        submitted |-> submitted, closed |-> closed, master |-> turnover])
    BY <1>5 DEF LockPartner
  <2> DEFINE next == [at |-> "insert", about |-> e, bid |-> bid, currency |-> currency,
                      submitted |-> submitted, closed |-> closed, master |-> turnover]
  <2>2. next \in TradeKinds /\ next.at = "insert" /\ next.bid = bid /\ next.currency = currency
    BY DEF TradeKinds, EnquiriesInv, EnquiriesTyped
  <2>3. Deals(t, next) /\ Priced(next.bid, next.currency) /\ UNCHANGED <<enquiries, priceLog, unlogged, dated, annotated>>
    BY <1>5, <2>1, <2>2 DEF LockPartner
  <2> HIDE DEF next
  <2>4. trade[t].at # "log"
    BY <1>5, AtDeskKind DEF NoDeal
  <2> QED
    BY <1>3, <1>5, <2>2, <2>3, <2>4
<1>6. ASSUME NEW t \in Traders, NoDeal, LoadEnquiry(t) PROVE SerialEnquiriesInv'
  <2>1. PICK e \in OnFile, status \in {Kept, "PENDING", "CLOSED"}, bid \in Bids \union {Kept}, currency \in BOOLEAN \union {Kept}, closed \in BOOLEAN \union {Kept} :
           /\ Priced(Asking(bid, enquiries[e].bid), Asking(currency, enquiries[e].currency))
           /\ Deals(t, [at |-> "save", about |-> e, row |-> enquiries[e], status |-> status, bid |-> bid, currency |-> currency, closed |-> closed])
    BY <1>6 DEF LoadEnquiry, Asking
  <2> DEFINE next == [at |-> "save", about |-> e, row |-> enquiries[e], status |-> status, bid |-> bid, currency |-> currency, closed |-> closed]
  <2>2. e \in EnquiryIds /\ enquiries[e] \in Enquiry
    BY DEF OnFile, EnquiriesInv, EnquiriesTyped
  <2>3. /\ next \in TradeKinds /\ next.at = "save" /\ next.about = e /\ next.row = enquiries[e]
        /\ next.bid = bid /\ next.currency = currency
    BY <2>2 DEF TradeKinds
  <2>4. Deals(t, next) /\ UNCHANGED <<enquiries, priceLog, unlogged, dated, annotated>>
    BY <1>6, <2>1 DEF LoadEnquiry
  <2>5. Priced(Asking(next.bid, next.row.bid), Asking(next.currency, next.row.currency))
    BY <2>1, <2>3
  <2> HIDE DEF next
  <2>6. trade[t].at # "log"
    BY <1>6, AtDeskKind DEF NoDeal
  <2> QED
    BY <1>3, <1>6, <2>3, <2>4, <2>5, <2>6
<1>7. CASE NoDeal /\ PostActivity
  <2>1. PICK e \in OnFile, bid \in Bids :
           priceLog' = [priceLog EXCEPT ![e] = bid] /\ annotated' = annotated \union {e}
    BY <1>7 DEF PostActivity
  <2>2. UNCHANGED <<trade, enquiries, unlogged, dated>>
    BY <1>7 DEF PostActivity
  <2>3. \A f \in OnFile \ annotated' : f \notin annotated /\ priceLog'[f] = priceLog[f]
    BY <2>1 DEF EnquiriesInv, EnquiriesTyped, OnFile
  <2>4. Noting'
    BY <2>2, <2>3 DEF SerialEnquiriesInv, Noting, OnFile
  <2>5. OneTrade' /\ ClosedIsDated' /\ BidHasCurrency' /\ \A t \in Traders : AsFiled(t)'
    BY <2>2 DEF SerialEnquiriesInv, OneTrade, ClosedIsDated, BidHasCurrency, AsFiled, OnFile
  <2> QED
    BY <2>4, <2>5 DEF SerialEnquiriesInv
<1>9. ASSUME NEW t \in Traders, trade[t] # AtDesk, NEW next \in TradeKinds, Deals(t, next),
             NEW e \in EnquiryIds, NEW r \in Enquiry, Priced(r.bid, r.currency), enquiries' = [enquiries EXCEPT ![e] = r],
             dated \ {e} \subseteq dated', e \in dated' \/ DatedRight(r), UNCHANGED <<priceLog, unlogged, annotated>>, trade[t].at # "log",
             \/ next.at = "log" /\ next.about = e /\ next.bid = r.bid
             \/ next = AtDesk /\ e \in OnFile /\ r.bid = enquiries[e].bid
      PROVE  SerialEnquiriesInv'
  <2>1. trade'[t] = next /\ (\A u \in Traders \ {t} : trade'[u] = AtDesk /\ trade[u] = AtDesk) /\ OneTrade'
    BY <1>9, OthersIdle DEF EnquiriesInv, SerialEnquiriesInv
  <2>2. /\ ClosedIsDated' /\ BidHasCurrency' /\ OnFile' = OnFile \union {e}
        /\ enquiries'[e] = r /\ \A f \in OnFile' \ {e} : enquiries'[f] = enquiries[f] /\ f \in OnFile
    BY <1>9, SoundWrite
  <2>3. \A u \in Traders : AsFiled(u)'
    BY <1>9, <2>1, <2>2, AtDeskKind DEF AsFiled
  <2>4. \A u \in Traders : trade[u].at # "log"
    BY <1>9, <2>1, AtDeskKind
  <2>5. \A f \in OnFile \ (unlogged \union annotated) : priceLog[f] = enquiries[f].bid
    BY <2>4 DEF SerialEnquiriesInv, Noting
  <2>6. Noting'
    <3> SUFFICES ASSUME NEW f \in OnFile' \ (unlogged \union annotated)
                 PROVE  priceLog[f] = enquiries'[f].bid \/ \E u \in Traders : trade'[u].at = "log" /\ trade'[u].about = f
      BY <1>9 DEF Noting
    <3>1. CASE f # e
      BY <2>2, <2>5, <3>1
    <3>2. CASE f = e
      BY <1>9, <2>1, <2>2, <2>5, <3>2
    <3> QED
      BY <3>1, <3>2
  <2> QED
    BY <2>1, <2>2, <2>3, <2>6 DEF SerialEnquiriesInv
<1>10. ASSUME NEW t \in Traders, InsertEnquiry(t) PROVE SerialEnquiriesInv'
  <2>1. PICK e \in EnquiryIds, r \in Enquiry :
           /\ enquiries' = [enquiries EXCEPT ![e] = r]
           /\ r.status = "NEW" /\ r.bid = trade[t].bid /\ r.currency = trade[t].currency
           /\ dated' = IF r.closed THEN dated \union {e} ELSE dated
           /\ Deals(t, [at |-> "log", about |-> e, bid |-> r.bid])
    BY <1>10, InsertedRow
  <2> DEFINE next == [at |-> "log", about |-> e, bid |-> r.bid]
  <2>2. next \in TradeKinds /\ next.at = "log" /\ next.about = e /\ next.bid = r.bid
    BY EnquiryRows DEF TradeKinds
  <2>3. Deals(t, next) /\ UNCHANGED <<priceLog, unlogged, annotated>> /\ trade[t].at = "insert" /\ trade[t] # AtDesk
    BY <1>10, <2>1, AtDeskKind DEF InsertEnquiry
  <2> HIDE DEF next
  <2>4. Priced(r.bid, r.currency)
    BY <2>1, <2>3 DEF SerialEnquiriesInv, AsFiled
  <2>5. dated \ {e} \subseteq dated' /\ (e \in dated' \/ DatedRight(r))
    BY <2>1 DEF DatedRight
  <2> QED
    BY <1>9, <2>1, <2>2, <2>3, <2>4, <2>5
<1>11. ASSUME NEW t \in Traders, SaveEnquiry(t) PROVE SerialEnquiriesInv'
  <2>1. PICK d \in [at : {"save"}, about : EnquiryIds, row : Enquiry, status : {Kept, "PENDING", "CLOSED"},
                    bid : Bids \union {Kept}, currency : BOOLEAN \union {Kept}, closed : BOOLEAN \union {Kept}] : trade[t] = d
    BY <1>11, TradeTyped DEF SaveEnquiry, EnquiriesInv
  <2>2. PICK e \in OnFile, r \in Enquiry, next \in TradeKinds :
           /\ e = d.about /\ enquiries' = [enquiries EXCEPT ![e] = r]
           /\ r.status = Column(d.status, d.row.status, enquiries[e].status)
           /\ r.closed = Closure(d, enquiries[e].closed)
           /\ r.bid = Amount(d.bid, d.row.bid, enquiries[e].bid)
           /\ r.currency = Column(d.currency, d.row.currency, enquiries[e].currency)
           /\ Deals(t, next)
           /\ \/ next = AtDesk /\ d.bid \in {Kept, d.row.bid}
              \/ /\ d.bid \notin {Kept, d.row.bid}
                 /\ next.at = "log" /\ next.about = e /\ next.bid = d.bid
           /\ d.status # Kept => dated' = dated \ {e}
           /\ d.status = Kept /\ d.closed # Kept => dated' = dated \union {e}
           /\ d.status = Kept /\ d.closed = Kept => dated' = dated
    BY <1>11, <2>1, SavedOver
  <2>3. /\ d.row = enquiries[e] /\ Priced(Asking(d.bid, d.row.bid), Asking(d.currency, d.row.currency))
        /\ trade[t].at = "save" /\ UNCHANGED <<priceLog, unlogged, annotated>> /\ trade[t] # AtDesk
    BY <1>11, <2>1, <2>2, AtDeskKind DEF SaveEnquiry, SerialEnquiriesInv, AsFiled
  <2>4. e \in dated \/ DatedRight(d.row)
    BY <2>2, <2>3 DEF DatedRight, SerialEnquiriesInv, ClosedIsDated
  <2>5. /\ Priced(r.bid, r.currency) /\ r.bid = Asking(d.bid, d.row.bid)
        /\ d.status # Kept => DatedRight(r)
        /\ d.status = Kept /\ d.closed = Kept /\ DatedRight(d.row) => DatedRight(r)
    BY <2>2, <2>3, SerialSave
  <2>8. dated \ {e} \subseteq dated' /\ (e \in dated' \/ DatedRight(r))
    <3>1. CASE d.status # Kept
      <4>1. DatedRight(r) /\ dated' = dated \ {e}
        BY <2>2, <2>5, <3>1
      <4> QED
        BY <4>1
    <3>2. CASE d.status = Kept /\ d.closed # Kept
      <4>1. dated' = dated \union {e}
        BY <2>2, <3>2
      <4> QED
        BY <4>1
    <3>3. CASE d.status = Kept /\ d.closed = Kept
      <4>1. dated' = dated /\ (DatedRight(d.row) => DatedRight(r))
        BY <2>2, <2>5, <3>3
      <4> QED
        BY <2>4, <4>1
    <3> QED
      BY <3>1, <3>2, <3>3
  <2>6. \/ next.at = "log" /\ next.about = e /\ next.bid = r.bid
        \/ next = AtDesk /\ e \in OnFile /\ r.bid = enquiries[e].bid
    BY <2>2, <2>3, <2>5 DEF Asking
  <2>7. e \in EnquiryIds
    BY DEF OnFile
  <2> QED
    <3>1. /\ trade[t] # AtDesk /\ next \in TradeKinds /\ Deals(t, next)
          /\ enquiries' = [enquiries EXCEPT ![e] = r] /\ UNCHANGED <<priceLog, unlogged, annotated>>
      BY <2>2, <2>3
    <3>2. trade[t].at # "log" /\ Priced(r.bid, r.currency)
      BY <2>3, <2>5
    <3> QED
      BY Zenon, <1>9, <2>6, <2>7, <2>8, <3>1, <3>2
<1>12. ASSUME NEW t \in Traders, trade[t] # AtDesk, Deals(t, AtDesk), UNCHANGED <<enquiries, dated>>,
              \A e \in OnFile \ (unlogged' \union annotated') :
                 \/ priceLog'[e] = enquiries[e].bid
                 \/ /\ e \notin unlogged \union annotated /\ priceLog'[e] = priceLog[e]
                    /\ ~(trade[t].at = "log" /\ trade[t].about = e)
       PROVE  SerialEnquiriesInv'
  <2>1. trade'[t] = AtDesk /\ (\A u \in Traders \ {t} : trade'[u] = AtDesk /\ trade[u] = AtDesk) /\ OneTrade'
    BY <1>12, OthersIdle, AtDeskKind DEF EnquiriesInv, SerialEnquiriesInv
  <2>2. OnFile' = OnFile /\ ClosedIsDated' /\ BidHasCurrency'
    BY <1>12 DEF SerialEnquiriesInv, OnFile, ClosedIsDated, BidHasCurrency
  <2>3. \A u \in Traders : AsFiled(u)'
    BY <2>1, AtDeskKind DEF AsFiled
  <2>4. Noting'
    <3> SUFFICES ASSUME NEW e \in OnFile \ (unlogged' \union annotated') PROVE priceLog'[e] = enquiries[e].bid
      BY <1>12, <2>2 DEF Noting
    <3>0. CASE priceLog'[e] = enquiries[e].bid
      BY <3>0
    <3> SUFFICES ASSUME /\ e \notin unlogged \union annotated /\ priceLog'[e] = priceLog[e]
                        /\ ~(trade[t].at = "log" /\ trade[t].about = e)
                 PROVE  priceLog'[e] = enquiries[e].bid
      BY <1>12, <3>0
    <3>1. priceLog[e] = enquiries[e].bid \/ \E u \in Traders : trade[u].at = "log" /\ trade[u].about = e
      BY <1>12 DEF SerialEnquiriesInv, Noting
    <3>2. priceLog[e] = enquiries[e].bid \/ (trade[t].at = "log" /\ trade[t].about = e)
      BY <2>1, <3>1, AtDeskKind
    <3> QED
      BY <3>2
  <2> QED
    BY <2>1, <2>2, <2>3, <2>4 DEF SerialEnquiriesInv
<1>13. ASSUME NEW t \in Traders, LogPrice(t) PROVE SerialEnquiriesInv'
  <2>1. trade[t].bid = enquiries[trade[t].about].bid /\ trade[t].at = "log"
    BY <1>13 DEF LogPrice, SerialEnquiriesInv, AsFiled
  <2>2. PICK about, bid : about = trade[t].about /\ bid = trade[t].bid
    OBVIOUS
  <2>3. /\ priceLog' = [priceLog EXCEPT ![about] = bid] /\ Deals(t, AtDesk) /\ UNCHANGED <<enquiries, unlogged, dated>>
        /\ annotated' = annotated \ {about}
    BY <1>13, <2>2 DEF LogPrice, Leaves
  <2>4. \A e \in OnFile \ (unlogged' \union annotated') :
           \/ priceLog'[e] = enquiries[e].bid
           \/ e \notin unlogged \union annotated /\ priceLog'[e] = priceLog[e] /\ about # e
    BY <2>1, <2>2, <2>3 DEF EnquiriesInv, EnquiriesTyped, OnFile
  <2> QED
    BY <1>12, <2>1, <2>2, <2>3, <2>4, AtDeskKind
<1>14. ASSUME NEW t \in Traders, BreakOff(t) PROVE SerialEnquiriesInv'
  <2>1. /\ trade[t] # AtDesk /\ Deals(t, AtDesk) /\ UNCHANGED <<enquiries, priceLog, dated, annotated>>
        /\ unlogged' = IF trade[t].at = "log" THEN unlogged \union {trade[t].about} ELSE unlogged
    BY <1>14 DEF BreakOff, Leaves
  <2> QED
    BY <1>12, <2>1
<1> QED
  BY <1>1, <1>4, <1>5, <1>6, <1>7, <1>10, <1>11, <1>13, <1>14 DEF Acts

\* The desk opens with what holds serially.
LEMMA SerialEnquiriesBegin == ASSUME EnquiriesInit PROVE SerialEnquiriesInv /\ SerialListsInv
<1>1. \A t \in Traders : trade[t] = AtDesk /\ trade[t].at = "idle"
  BY AtDeskKind DEF EnquiriesInit
<1>2. OnFile = {}
  BY DEF EnquiriesInit, OnFile
<1>3. OneTrade /\ \A t \in Traders : AsFiled(t) /\ AsListed(t)
  BY <1>1 DEF OneTrade, AsFiled, AsListed
<1>4. ClosedIsDated /\ BidHasCurrency /\ Noting
  BY <1>2 DEF ClosedIsDated, BidHasCurrency, Noting
<1>5. OneList
  BY DEF EnquiriesInit, OneList
<1> QED
  BY <1>3, <1>4, <1>5 DEF SerialEnquiriesInv, SerialListsInv

\* Whoever races, the enquiries of a partner agree on the turnover nobody entered elsewhere, and
\* a partner for whom a report was filed has a latest one.
THEOREM TurnoversAgree == EnquiriesSpec => [](TurnoverSettled /\ ReportKept)
<1>1. EnquiriesInv => TurnoverSettled /\ ReportKept
  BY DEF EnquiriesInv
<1> QED
  BY EnquiriesBegin, EnquiriesStep, <1>1, PTL DEF EnquiriesSpec

-----------------------------------------------------------------------------
(* The components side by side *)

\* A step takes one step of the conversation's content or none, one request at a time where the
\* part says so.
LEMMA ContentSteps ==
  ASSUME Next
  PROVE  /\ UNCHANGED part
         /\ ContentNext \/ UNCHANGED contentVars
         /\ In({"messages serial"}) => SerialMessages \/ UNCHANGED contentVars
         /\ In({"polls serial"}) => SerialPolls \/ UNCHANGED contentVars
<1>1. SerialMessages \/ RacingClears \/ SerialPolls \/ RacingPolls => ContentNext
  BY DEF SerialMessages, RacingClears, SerialPolls, RacingPolls, ContentNext
<1> QED
  BY <1>1 DEF Next, In, Notify, Chat, Gateway, Conversing, Meeting, Reminding, LoggingIn, Logging,
     Enquiring, Ends, messagingVars

\* A step takes one step of the conversations or none, one request at a time where the part says
\* so.
LEMMA RoomsSteps ==
  ASSUME Next
  PROVE  /\ UNCHANGED part
         /\ RoomsNext \/ UNCHANGED roomVars
         /\ In({"group serial", "pairs serial"}) =>
              (\E c \in Talkers : (Quiet /\ Opening(c)) \/ Going(c)) \/ UNCHANGED roomVars
<1>1. SerialGroup \/ SerialPairs => \E c \in Talkers : (Quiet /\ Opening(c)) \/ Going(c)
  BY DEF SerialGroup, SerialPairs, Opening
<1>2. SerialGroup \/ SerialPairs \/ RacingDirects => RoomsNext
  BY <1>1 DEF RacingDirects, RoomsNext, Opening, Going
<1> QED
  BY <1>1, <1>2 DEF Next, In, Notify, Chat, Gateway, Conversing, Meeting, Reminding, LoggingIn, Logging,
     Enquiring, Ends, messagingVars

\* A step takes one step about reminders and sessions or none, one call at a time where the part
\* says so.
LEMMA LoginSteps ==
  ASSUME Next
  PROVE  /\ UNCHANGED part
         /\ RemindersNext \/ UNCHANGED reminderVars
         /\ SessionsNext \/ UNCHANGED sessionVars
         /\ In({"reminders serial"}) => SerialReminders \/ UNCHANGED reminderVars
<1>1. SerialReminders \/ RacingReminders => RemindersNext
  BY DEF SerialReminders, RacingReminders, RemindersNext
<1> QED
  BY <1>1 DEF Next, In, Notify, Chat, Gateway, Conversing, Meeting, Reminding, LoggingIn, Logging, LoginsRest,
     Enquiring, Ends, messagingVars

\* The invariant includes the types of enquiries.
LEMMA EnquiriesTypesHold == ASSUME EnquiriesInv PROVE EnquiriesTypeOK
<1>1. \A t \in Traders : trade[t].at \in {"idle", "insert", "log", "save", "partner", "take", "put"}
  BY DEF EnquiriesInv, EnquiriesTyped, TradeKinds, AtDesk
<1> QED
  BY <1>1 DEF EnquiriesInv, EnquiriesTyped, EnquiriesTypeOK

\* A step takes one step at the desk or none, one request at a time where the part says so.
LEMMA EnquirySteps ==
  ASSUME Next
  PROVE  /\ UNCHANGED part
         /\ EnquiriesNext \/ UNCHANGED enquiryVars
         /\ In({"enquiries serial"}) => SerialEnquiries \/ UNCHANGED enquiryVars
         /\ In({"lists serial"}) => SerialLists \/ UNCHANGED enquiryVars
<1>1. SerialEnquiries \/ RacingTurnovers \/ SerialLists \/ RacingLists => EnquiriesNext
  BY DEF SerialEnquiries, RacingTurnovers, SerialLists, RacingLists, EnquiriesNext, Approach, Deal
<1> QED
  BY <1>1 DEF Next, In, Notify, Chat, Gateway, Conversing, Meeting, Reminding, LoggingIn, Logging, LoginsRest,
     Enquiring, Ends, messagingVars

AllInv == ChatInv /\ DeliveryInv /\ GatewayInv /\ ContentInv /\ RoomsInv
          /\ RemindersInv /\ today \in Days /\ SessionsInv /\ EnquiriesInv

\* Every step of the instance is a step of one component and stutters for the others.
LEMMA Steps ==
  ASSUME [Next]_messagingVars
  PROVE  /\ [ChatNext]_chatVars /\ [DeliveryNext]_deliveryVars /\ [PresenceNext]_gatewayVars
         /\ [ContentNext]_contentVars /\ [RoomsNext]_roomVars
         /\ [RemindersNext]_reminderVars /\ [SessionsNext]_sessionVars /\ [EnquiriesNext]_enquiryVars
BY ContentSteps, RoomsSteps, LoginSteps, EnquirySteps DEF Next, Notify, Chat, Gateway, Conversing, Meeting,
     Reminding, LoggingIn, Enquiring, Logging, Ends, messagingVars

\* The invariants of the components together are inductive.
LEMMA AllNextInv == AllInv /\ [Next]_messagingVars => AllInv'
BY Steps, ChatNextInv, DeliveryNextInv, GatewayNextInv, ContentStep, RoomsStep,
   RemindersStep, DaysPass, SessionsStep, EnquiriesStep DEF AllInv

\* The instance starts as its components do.
LEMMA AllInitInv == Init => AllInv
<1>1. RemindersInit => today \in Days
  BY DaysAssumption DEF RemindersInit
<1> QED
  BY <1>1, ChatInitInv, DeliveryInitInv, GatewayInitInv, ContentBegins, RoomsBegin,
   RemindersBegin, SessionsBegin, EnquiriesBegin DEF Init, AllInv

\* Nobody's unread counter loses or invents a message, whatever the others do.
THEOREM UnreadSound == Spec => []UnreadCounted
<1>1. AllInv => UnreadCounted
  BY DEF AllInv, ChatInv
<1> QED
  BY <1>1, AllInitInv, AllNextInv, PTL DEF Spec

\* No scheduled message is posted twice unless its posting could not be recorded.
THEOREM ScheduledSound == Spec => []ScheduledOnce
<1>1. AllInv => ScheduledOnce
  BY DEF AllInv, ChatInv, AllOnce, Once, ScheduledOnce
<1> QED
  BY <1>1, AllInitInv, AllNextInv, PTL DEF Spec

\* The type invariants of the components, the bounds on attempts and deliveries, and
\* the truth of what the gateway shows.
THEOREM Sound == Spec => []DeliverySound
<1>1. AllInv => DeliverySound
  <2>1. ContentInv /\ RoomsInv => ContentTypeOK /\ RoomsTypeOK
    BY DEF ContentInv, ContentTyped, RoomsInv, RoomsTyped
  <2>2. RemindersInv /\ today \in Days /\ SessionsInv => RemindersTypeOK /\ SessionsTypeOK
    BY RemindersTypesHold, SessionsTypesHold
  <2>3. EnquiriesInv => EnquiriesTypeOK
    BY EnquiriesTypesHold
  <2> QED
    BY <2>1, <2>2, <2>3, ChatTypes, DeliveryCounts, GatewayShows DEF AllInv, DeliverySound
<1> QED
  BY <1>1, AllInitInv, AllNextInv, PTL DEF Spec

\* Whoever races, what was hidden stays hidden and who voted has a vote; one request at a time,
\* every earlier version is kept, what is erased says nothing, each has one vote in a poll for
\* one choice and a closed poll keeps its votes.
THEOREM MessagesKept == Spec => []ContentKept
<1> DEFINE Inv == /\ ContentInv
                  /\ In({"messages serial"}) => MessageInv
                  /\ In({"polls serial"}) => PollInv
<1>1. Init => Inv
  BY ContentBegins, SerialContentBegins DEF Init
<1>2. Inv /\ [Next]_messagingVars => Inv'
  <2>1. ASSUME UNCHANGED contentVars, UNCHANGED part, Inv PROVE Inv'
    <3>1. UNCHANGED <<post, snapshots, poll, votes, typing, wordings, tallied>>
      BY <2>1 DEF contentVars
    <3>2. MessageInv => MessageInv'
      BY <3>1 DEF MessageInv, OneTyping, AsRead, VersionsComplete, ErasedSaysNothing
    <3>3. PollInv => PollInv'
      BY <3>1 DEF PollInv, OneTyping, OneVoteEach, ClosedIsFinal, AsPolled, VotesOf
    <3> QED
      BY <2>1, <3>2, <3>3, ContentStep DEF In
  <2>2. CASE UNCHANGED messagingVars
    BY <2>1, <2>2 DEF messagingVars
  <2>3. CASE Next
    BY <2>1, <2>3, ContentSteps, ContentStep, SerialMessageStep, SerialPollStep DEF In
  <2> QED
    BY <2>2, <2>3
<1>3. Inv => ContentKept
  BY DEF ContentKept, ContentInv, MessageInv, PollInv
<1> QED
  BY <1>1, <1>2, <1>3, PTL DEF Spec

\* Whoever races, the repair destroys only direct messages that lost a member; one request at a
\* time, a conversation keeps an owner unless the rules or he himself took him out, two people
\* have one direct message and a document one discussion.
THEOREM MembersKept == Spec => []ConversationsKept
<1> DEFINE Inv == RoomsInv /\ (In({"group serial", "pairs serial"}) => SerialRoomsInv)
<1>1. Init => Inv
  BY RoomsBegin DEF Init
<1>2. Inv /\ [Next]_messagingVars => Inv'
  <2>1. ASSUME UNCHANGED roomVars, UNCHANGED part, Inv PROVE Inv'
    <3>1. UNCHANGED <<rooms, roles, talk, widened, disowned>>
      BY <2>1 DEF roomVars
    <3>2. SerialRoomsInv => SerialRoomsInv'
      <4> SUFFICES ASSUME SerialRoomsInv PROVE SerialRoomsInv'
        OBVIOUS
      <4>1. HasOwner' /\ PairOnce' /\ AtMostOne(OpenOf("discussion"))'
        BY <3>1, RolesRead
      <4>2. \A c \in Talkers : StillSo(talk[c])'
        BY <3>1 DEF SerialRoomsInv, StillSo, LeavesOwner, OpenOf, Open, Standing, Members
      <4> QED
        BY <3>1, <4>1, <4>2 DEF SerialRoomsInv, OneAtATime
    <3> QED
      BY <2>1, <3>2, RoomsStep DEF In
  <2>2. CASE UNCHANGED messagingVars
    BY <2>1, <2>2 DEF messagingVars
  <2>3. CASE Next
    BY <2>1, <2>3, RoomsSteps, RoomsStep, SerialRoomsStep DEF In
  <2> QED
    BY <2>2, <2>3
<1>3. Inv => ConversationsKept
  BY PairsAndOnes DEF ConversationsKept, RoomsInv, SerialRoomsInv
<1> QED
  BY <1>1, <1>2, <1>3, PTL DEF Spec

\* Whatever else goes on, a refresh token is exchanged once and what is due has a reminder; with
\* calls one at a time it has one.
THEOREM LoginsDoneOnce == Spec => []DoneOnce
<1> DEFINE Inv == RemindersInv /\ SessionsInv /\ (In({"reminders serial"}) => OneCall)
<1>1. Init => Inv
  BY RemindersBegin, SessionsBegin DEF Init
<1>2. Inv /\ [Next]_messagingVars => Inv'
  <2>1. ASSUME UNCHANGED reminderVars, UNCHANGED part, RemindersInv PROVE RemindersInv' /\ (OneCall => OneCall')
    <3>1. UNCHANGED <<call, reminders>>
      BY <2>1 DEF reminderVars
    <3> QED
      BY <2>1, <3>1, RemindersStep DEF OneCall, OneReminder
  <2>2. CASE UNCHANGED messagingVars
    BY <2>1, <2>2, SessionsStep DEF messagingVars, In
  <2>3. CASE Next
    BY <2>1, <2>3, LoginSteps, RemindersStep, SessionsStep, SerialRemindersStep DEF In
  <2> QED
    BY <2>2, <2>3
<1>3. Inv => DoneOnce
  BY OwedReminded DEF DoneOnce, SessionsInv, OneCall
<1> QED
  BY <1>1, <1>2, <1>3, PTL DEF Spec

\* Whoever races, the enquiries of a partner agree on its turnover and a filed report stands; one
\* request at a time, one list stands in each place, an enquiry is closed when it is dated
\* closed, a bid has a currency, and the history ends with the price unless its entry was lost.
THEOREM EnquiriesSettled == Spec => []EnquiriesAgree
<1> DEFINE Inv == /\ EnquiriesInv
                  /\ In({"enquiries serial"}) => SerialEnquiriesInv
                  /\ In({"lists serial"}) => SerialListsInv
<1>1. Init => Inv
  BY EnquiriesBegin, SerialEnquiriesBegin DEF Init
<1>2. Inv /\ [Next]_messagingVars => Inv'
  <2>1. ASSUME UNCHANGED enquiryVars, UNCHANGED part, Inv PROVE Inv'
    <3>1. UNCHANGED <<enquiries, priceLog, stands, trade, unlogged, dated, annotated>>
      BY <2>1 DEF enquiryVars
    <3>2. SerialEnquiriesInv => SerialEnquiriesInv'
      BY <3>1 DEF SerialEnquiriesInv, OneTrade, ClosedIsDated, BidHasCurrency, Noting, AsFiled, OnFile
    <3>3. SerialListsInv => SerialListsInv'
      BY <3>1 DEF SerialListsInv, OneTrade, OneList, AsListed
    <3> QED
      BY <2>1, <3>2, <3>3, EnquiriesStep DEF In
  <2>2. CASE UNCHANGED messagingVars
    BY <2>1, <2>2 DEF messagingVars
  <2>3. CASE Next
    BY <2>1, <2>3, EnquirySteps, EnquiriesStep, SerialEnquiryStep, SerialListStep DEF In
  <2> QED
    BY <2>2, <2>3
<1>3. Inv => EnquiriesAgree
  <2>1. ASSUME SerialEnquiriesInv PROVE HistoryIsCurrent
    <3> SUFFICES ASSUME NEW e \in OnFile \ (unlogged \union annotated), \A t \in Traders : trade[t] = AtDesk
                 PROVE  priceLog[e] = enquiries[e].bid
      BY DEF HistoryIsCurrent
    <3> QED
      BY <2>1, AtDeskKind DEF SerialEnquiriesInv, Noting
  <2> QED
    BY <2>1, ListsAreOne DEF EnquiriesAgree, EnquiriesInv, SerialEnquiriesInv, SerialListsInv
<1> QED
  BY <1>1, <1>2, <1>3, PTL DEF Spec
=============================================================================
