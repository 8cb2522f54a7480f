------------------------------- MODULE MCMessaging -------------------------------
(***************************************************************************)
(* Instance for TLC: the notification log with its retry worker, the       *)
(* reminders it is given to deliver, a chat conversation with its timer,   *)
(* what it keeps of messages and polls, the conversations of people with   *)
(* their members, the sessions people log in with, the enquiries of a      *)
(* partner, and what the gateway shows of people.  They share no row and   *)
(* no memory, so a behaviour exercises one of them while the others rest;  *)
(* the states are the sum, not the product.  The gateway is exercised in   *)
(* three ways, presence, typing and receipts; where what holds depends on  *)
(* it, a behaviour has its requests one at a time ("serial") or lets them  *)
(* race.                                                                   *)
(***************************************************************************)
EXTENDS NotificationDelivery, ChatConversation, ChatPresence, ChatContent, ChatRooms,
        FollowUpReminders, AuthSessions, EnquiryDesk

VARIABLE part

messagingVars == <<deliveryVars, chatVars, gatewayVars, contentVars, roomVars, reminderVars, sessionVars,
                  enquiryVars, part>>

Parts == {"notifications", "chat", "timer", "presence", "typing", "receipts",
          "messages serial", "clears racing", "polls serial", "polls racing",
          "group serial", "pairs serial", "directs racing",
          "reminders serial", "reminders racing", "sessions",
          "enquiries serial", "turnovers racing", "lists serial", "lists racing"}

Init ==
    /\ part \in Parts
    /\ DeliveryInit
    /\ ChatInit
    /\ PresenceInit
    /\ ContentInit /\ post.content = CHOOSE content \in Contents : TRUE
    /\ part \notin {"polls serial", "polls racing"} => ~poll.multiple
    /\ RoomsInit
    /\ RemindersInit
    /\ SessionsInit
    /\ EnquiriesInit

First(S) == CHOOSE x \in S : TRUE

LoginsRest == UNCHANGED <<reminderVars, sessionVars, enquiryVars>>
Notify(A) == part = "notifications" /\ A /\ LoginsRest /\ UNCHANGED <<chatVars, gatewayVars, contentVars, roomVars, part>>

\* Sends, posts and one scheduled message of somebody whom the lock refuses; and the timer with
\* several messages of one sender, while anything but the lock may refuse them.
Conversation ==
    /\ UNCHANGED conditions
    /\ \A s \in Scheduled : scheduled'[s] # Nobody => s = First(Scheduled) /\ scheduled'[s].sender \notin Privileged
Timer ==
    /\ UNCHANGED <<isLocked, restarts>> /\ barred' \subseteq {First(Users)}
    /\ \A r \in Requests : proc'[r].at \in {"begin", "destroy", "end"}
    /\ \A s \in Scheduled : scheduled'[s] # Nobody => scheduled'[s].sender = First(Users)
Chat(A) ==
    /\ part \in {"chat", "timer"}
    /\ A /\ LoginsRest
    /\ IF part = "chat" THEN Conversation ELSE Timer
    /\ UNCHANGED <<deliveryVars, gatewayVars, contentVars, roomVars, part>>
Conversing(A) == A /\ LoginsRest /\ UNCHANGED <<deliveryVars, chatVars, gatewayVars, roomVars, part>>

\* Rows get their ids in the order in which they are inserted.
IdsInOrder(ids, given) == \A i \in ids, j \in given : i < j => i \in given
Meeting(A) ==
    /\ A /\ LoginsRest
    /\ UNCHANGED <<deliveryVars, chatVars, gatewayVars, contentVars, part>>
    /\ IdsInOrder(Rooms, {r \in Rooms : rooms'[r] # Unbuilt})
Logging(A) == A /\ UNCHANGED <<deliveryVars, chatVars, gatewayVars, contentVars, roomVars, part>>
Reminding(A) == Logging(A) /\ UNCHANGED <<sessionVars, enquiryVars>> /\ IdsInOrder(FollowUps, Known')
LoggingIn(A) == Logging(A) /\ UNCHANGED <<reminderVars, enquiryVars>>
                  /\ IdsInOrder(SessionIds, {s \in SessionIds : sessions'[s] # Unopened})
Enquiring(A) == Logging(A) /\ UNCHANGED <<reminderVars, sessionVars>> /\ IdsInOrder(EnquiryIds, OnFile')

\* Where presence is exercised, one person; elsewhere the other has one tab, and there
\* is one company and no chosen status.
Others == {s \in Sockets : s[1] # First(People)}
Unused(S) == \A s \in S : sockets'[s] = "unused"
OnePerson == Unused(Others)
OneCompany ==
    /\ \A s \in Sockets : sockets'[s] \in {"unused", "closed", First(Companies)}
    /\ Unused({s \in Others : s[2] # First(Tabs)})
    /\ presence' # presence => sockets' # sockets

Gateway(A) ==
    /\ part \in {"presence", "typing", "receipts"}
    /\ A /\ LoginsRest
    /\ IF part = "presence" THEN OnePerson ELSE OneCompany
    /\ part # "typing" => UNCHANGED <<room, asking>>
    /\ part # "receipts" => UNCHANGED reads
    /\ part = "receipts" => UNCHANGED sockets
    /\ UNCHANGED <<deliveryVars, chatVars, contentVars, roomVars, part>>

\* One message, what a member hides of several, and one poll.
NoTyping == \A t \in Typists : typing[t] = Still
SerialMessages == \E t \in Typists : (NoTyping /\ LoadMessage(t)) \/ SaveMessage(t) \/ StopWriting(t)
RacingClears == \/ \E m \in Messages : MarkRead(m) \/ DeleteForMe(m)
                \/ \E t \in Typists : Clearing(t) \/ StopWriting(t)
SerialPolls == \E t \in Typists : (NoTyping /\ LoadForPoll(t)) \/ Voting(t) \/ StopWriting(t)
RacingPolls == \E t \in Typists : LoadForPoll(t) \/ Voting(t) \/ StopWriting(t)

\* One conversation with all that happens to it; two for the same people, whose roles stay, the
\* first of them opened by the first person, or two of the document; and direct messages
\* created, changed and repaired at once.
OneRoom == \A r, s \in Rooms : rooms'[r] # Unbuilt /\ rooms'[s] # Unbuilt => r = s
RolesStay ==
    \A c \in Talkers : /\ talk'[c].at = "join" => talk'[c].role = "MEMBER"
                       /\ talk'[c].at = "save" => Range(talk'[c].rows) \subseteq {Outside}
OneTalker == \A c \in Talkers : talk'[c] # Silent => c = CHOOSE d \in Talkers : TRUE
Quiet == \A c \in Talkers : talk[c] = Silent
SerialGroup == /\ \E c \in Talkers : (Quiet /\ Opening(c)) \/ Going(c)
               /\ OneRoom /\ OneTalker
               /\ \A r \in Rooms : rooms'[r].given => rooms'[r].kind = "direct"
SerialPairs ==
    /\ \E c \in Talkers :
         \/ /\ Quiet
            /\ \/ CreateGroup(c) \/ FindDirect(c) \/ FindDiscussion(c) \/ LoadToAdd(c)
               \/ LoadToChange(c) \/ Trash(c) \/ FindBroken(c)
         \/ Going(c)
    /\ \A r, s \in Rooms : rooms'[r].kind = "direct" => rooms'[s].kind \notin {"group", "discussion"}
    /\ \A r \in Rooms : rooms'[r].kind = "group" <=> rooms'[r].given
    /\ \A r \in Rooms : rooms'[r].given => \A p \in Persons : roles'[r][p] # Outside => p = First(Persons)
    /\ RolesStay /\ OneTalker
    /\ \A p \in Persons : roles'[1][p] = "OWNER" => p = First(Persons)
RacingDirects ==
    /\ \E c \in Talkers : \/ FindDirect(c) \/ LoadToAdd(c) \/ LoadToChange(c) \/ FindBroken(c)
                           \/ MakeDirect(c) \/ Join(c) \/ SaveRoles(c) \/ DestroyBroken(c) \/ DropTalk(c)
    /\ RolesStay /\ OneRoom /\ \A r \in Rooms : ~rooms'[r].given

\* Calls about reminders one at a time, which change the first follow-up, or about one
\* follow-up on one day at once.
OneCaller == \A c \in Calls : call'[c] # NoCall => c = CHOOSE d \in Calls : TRUE
SerialReminders ==
    /\ \/ (\A c \in Calls : call[c] = NoCall) /\ RemindersNext
       \/ \E c \in Calls : Carry(c) \/ AbandonCall(c)
    /\ OneCaller /\ \A c \in Calls : call'[c].at = "save" => call'[c].about = {1}
RacingReminders == RemindersNext /\ UNCHANGED today /\ \A f, g \in FollowUps : f \in Known' /\ g \in Known' => f = g

\* One enquiry serially, its date closed by a client named apart from its price; the turnover of
\* the partner between several; and the lists.
NoDeal == \A t \in Traders : trade[t] = AtDesk
OneTrader == \A t \in Traders : trade'[t] # AtDesk => t = CHOOSE u \in Traders : TRUE
SerialEnquiries ==
    /\ \/ NoDeal /\ (SyncStatus \/ PostActivity \/ \E t \in Traders : LockPartner(t) \/ LoadEnquiry(t))
       \/ \E t \in Traders : InsertEnquiry(t) \/ LogPrice(t) \/ SaveEnquiry(t) \/ BreakOff(t)
    /\ \A t \in Traders :
         /\ (trade'[t].at = "insert" /\ trade'[t].closed) => trade'[t].bid = Blank
         /\ (trade'[t].at = "save" /\ trade'[t].closed # Kept)
               => trade'[t].bid = Kept /\ trade'[t].currency = Kept
    /\ \A e, f \in EnquiryIds : enquiries'[e] # Unentered /\ enquiries'[f] # Unentered => e = f
    /\ OneTrader
RacingTurnovers ==
    /\ \E t \in Traders : \/ LockPartner(t) \/ InsertEnquiry(t) \/ LogPrice(t)
                         \/ LoadPartner(t) \/ SavePartner(t) \/ BreakOff(t)
    /\ \A t \in Traders : trade'[t].at = "insert" => trade'[t].bid = Blank /\ ~trade'[t].currency /\ ~trade'[t].closed
SerialLists ==
    /\ \/ NoDeal /\ \E t \in Traders : BeginList(t)
       \/ \E t \in Traders : TakeList(t) \/ PutList(t) \/ BreakOff(t)
    /\ OneTrader
RacingLists ==
    /\ \E t \in Traders : BeginList(t) \/ TakeList(t) \/ PutList(t) \/ BreakOff(t)
    /\ \A t \in Traders : trade'[t].at = "take" => trade'[t].place = "reports"

\* These may end: the message is erased, the poll closed, there is no id for another room, the
\* last session is over, and enquiries and lists run out.
Ends ==
    /\ part \notin {"notifications", "chat", "timer", "presence", "typing", "receipts"}
    /\ UNCHANGED messagingVars

Next ==
    \/ Notify(DeliveryNext)
    \/ Chat(ChatNext)
    \/ Gateway(PresenceNext)
    \/ part = "messages serial" /\ Conversing(SerialMessages)
    \/ part = "clears racing" /\ Conversing(RacingClears)
    \/ part = "polls serial" /\ Conversing(SerialPolls)
    \/ part = "polls racing" /\ Conversing(RacingPolls)
    \/ part = "group serial" /\ Meeting(SerialGroup)
    \/ part = "pairs serial" /\ Meeting(SerialPairs)
    \/ part = "directs racing" /\ Meeting(RacingDirects)
    \/ part = "reminders serial" /\ Reminding(SerialReminders)
    \/ part = "reminders racing" /\ Reminding(RacingReminders)
    \/ part = "sessions" /\ LoggingIn(SessionsNext)
    \/ part = "enquiries serial" /\ Enquiring(SerialEnquiries)
    \/ part = "turnovers racing" /\ Enquiring(RacingTurnovers)
    \/ part = "lists serial" /\ Enquiring(SerialLists)
    \/ part = "lists racing" /\ Enquiring(RacingLists)
    \/ Ends

Spec == Init /\ [][Next]_messagingVars

\* The fairness of each component.  A behaviour exercises one of them, so weak fairness
\* of a disjunction of steps of different components is that of each.
fairVars == <<deliveryVars, chatVars, gatewayVars>>
FairSpec ==
    /\ Spec
    /\ WF_fairVars(\/ Notify(\E n \in Notifications : Step(n))
                   \/ Chat(\E r \in Requests : RequestStep(r))
                   \/ Gateway(\E s \in Sockets : TypingStep(s)))
    /\ WF_fairVars(\/ Notify(\E n \in Notifications : RetryFallsDue(n))
                   \/ Chat(\E s \in Scheduled : FallDue(s))
                   \/ Gateway(\E p \in People : ReadStep(p)))
    /\ WF_fairVars(\/ Notify(\E t \in Ticks : TickStep(t))
                   \/ Gateway(FlushReadReceipts))
    /\ \A q \in Polls : WF_fairVars(Chat(PollStep(q)))

\* The type invariants; a notification is attempted no more often than the worker may
\* retry, and is sent twice only when a success could not be saved.  What the gateway
\* shows of people is true: presence, typing and read receipts.
DeliverySound ==
    /\ DeliveryTypeOK /\ ChatTypeOK /\ PresenceTypeOK /\ ContentTypeOK /\ RoomsTypeOK
    /\ RemindersTypeOK /\ SessionsTypeOK /\ EnquiriesTypeOK
    /\ AttemptsBounded /\ DeliveredOnce
    /\ PresenceTrue /\ TypingBacked /\ ReceiptsAgree

\* Every scheduled message that is due is posted, nobody is shown typing for ever, and
\* what a user has read reaches the others.
ChatSettles == ScheduledPosted /\ TypingEnds /\ ReceiptsReach

In(parts) == part \in parts

\* Whoever races, what was hidden stays hidden and a member who voted has a vote; serially every
\* earlier version is kept, what is erased says nothing, a poll for one choice has one vote of
\* each, and a closed poll keeps its votes.
ContentKept ==
    /\ In({"clears racing"}) => HiddenStays
    /\ In({"polls serial", "polls racing"}) => VotersCount
    /\ In({"messages serial"}) => VersionsComplete /\ ErasedSaysNothing
    /\ In({"polls serial"}) => OneVoteEach /\ ClosedIsFinal

\* Whoever races, the repair destroys only direct messages that lost a member; serially a
\* conversation has an owner, two people one direct message and a document one discussion beside
\* the conversations whose clients named it.
ConversationsKept ==
    /\ In({"group serial", "pairs serial", "directs racing"}) => RepairsOnlyBroken
    /\ In({"group serial", "pairs serial"}) => HasOwner /\ OneDirect /\ OneDiscussion

\* Whoever races, a refresh token is exchanged once and what is due has a reminder; serially it
\* has one.
DoneOnce ==
    /\ In({"sessions"}) => RefreshedOnce
    /\ In({"reminders serial", "reminders racing"}) => DueIsReminded
    /\ In({"reminders serial"}) => OneReminder

\* Whoever races, the enquiries of a partner agree on its turnover and a report is the latest;
\* serially one report and one list stand, and a bid has a currency; what is closed is dated and
\* the history ends with the price while no client writes either.
EnquiriesAgree ==
    /\ In({"turnovers racing", "enquiries serial"}) => TurnoverSettled
    /\ In({"lists racing", "lists serial"}) => ReportKept
    /\ In({"lists serial"}) => OneStands
    /\ In({"enquiries serial"}) => ClosedIsDated /\ BidHasCurrency /\ HistoryIsCurrent
=============================================================================
