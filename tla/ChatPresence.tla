------------------------------- MODULE ChatPresence -------------------------------
(***************************************************************************)
(* What the chat shows of people: who is online, who is typing in one      *)
(* conversation, and how far each has read it.  All of it is kept in the   *)
(* memory of the gateway and of the listener that batches read receipts.   *)
(*                                                                         *)
(* A handler that awaits is two actions: typing_start and typing_stop      *)
(* check the access to the conversation before they touch the timers, and  *)
(* markRead saves the member row before it emits its event.  Requests that *)
(* are refused change nothing and are left out.  Equal messages of one     *)
(* socket that wait at the same time count as one.  A socket that is gone  *)
(* shows nothing, and one that leaves the conversation forgets who typed.  *)
(***************************************************************************)
EXTENDS Naturals, FiniteSets

CONSTANTS
    Noone,       \* no socket
    People,      \* users of the chat
    Tabs,        \* ids of the sockets each opens while the server runs
    Companies,   \* workspaces a tab may be connected for
    Statuses,    \* what a user may choose beside ONLINE and OFFLINE
    MaxTyped,    \* bound on the typing messages of a behaviour
    MaxRead      \* the newest message, and the bound on requests to mark as read

ASSUME TypedAssumption == MaxTyped \in Nat /\ MaxRead \in Nat

VARIABLES
    sockets,     \* the company a connected socket was opened for, "unused" or "closed"
    presence,    \* presenceStates; a user without an entry is OFFLINE
    told,        \* the presence last broadcast in a company, OFFLINE before any
    joined,      \* (history) companies a user has had sockets in
    said,        \* (history) the status a tab of the user last asked for
    room,        \* sockets subscribed to the conversation
    asking,      \* typing messages that wait for their access check
    key,         \* typingTimers: the socket whose timer the map holds for a user
    pending,     \* the timers that run, as the sockets that started them
    shown,       \* <<s, p>>: socket s shows p typing
    typed,       \* typing messages so far
    lastRead,    \* lastReadMessageId of the member rows, 0 before any
    marking,     \* <<m, n>>: a request to read up to m has loaded a member row that says n
    saved,       \* requests that have saved the row and not yet emitted their event
    batched,     \* readReceiptBatch, 0 for no entry
    armed,       \* batchFlushTimer is set
    receipt,     \* the read receipt last broadcast
    reads,       \* requests to mark as read so far
    overlapped   \* (history) users with two such requests in flight at once

presenceVars == <<sockets, presence, told, joined, said>>
typingVars == <<room, asking, key, pending, shown, typed>>
receiptVars == <<lastRead, marking, saved, batched, armed, receipt, reads, overlapped>>
gatewayVars == <<presenceVars, typingVars, receiptVars>>

Sockets == People \X Tabs

ASSUME SocketsAssumption == Noone \notin Sockets /\ {"unused", "closed"} \cap Companies = {}

PresenceStatus == Statuses \cup {"ONLINE", "OFFLINE"}

Connected == {s \in Sockets : sockets[s] \in Companies}
SocketsOf(p) == {s \in Connected : s[1] = p}

PresenceTypeOK ==
    /\ sockets \in [Sockets -> Companies \cup {"unused", "closed"}]
    /\ presence \in [People -> PresenceStatus]
    /\ told \in [Companies -> [People -> PresenceStatus]]
    /\ joined \in [People -> SUBSET Companies]
    /\ room \subseteq Connected
    /\ asking \subseteq Sockets \X {"start", "stop"}
    /\ key \in [People -> Sockets \cup {Noone}]
    /\ pending \subseteq Sockets
    /\ shown \subseteq Connected \X People
    /\ lastRead \in [People -> 0 .. MaxRead]
    /\ marking \in [People -> SUBSET ((1 .. MaxRead) \X (0 .. MaxRead))]
    /\ saved \in [People -> SUBSET (1 .. MaxRead)]
    /\ batched \in [People -> 0 .. MaxRead]
    /\ receipt \in [People -> 0 .. MaxRead]
    /\ armed \in BOOLEAN

PresenceInit ==
    /\ sockets = [s \in Sockets |-> "unused"]
    /\ presence = [p \in People |-> "OFFLINE"]
    /\ told = [c \in Companies |-> presence]
    /\ joined = [p \in People |-> {}] /\ said = presence
    /\ room = {} /\ asking = {} /\ pending = {} /\ shown = {} /\ typed = 0
    /\ key = [p \in People |-> Noone]
    /\ lastRead = [p \in People |-> 0]
    /\ batched = lastRead /\ receipt = lastRead
    /\ marking = [p \in People |-> {}] /\ saved = marking
    /\ armed = FALSE /\ reads = 0 /\ overlapped = {}

-----------------------------------------------------------------------------
(* Connections and presence.                                                 *)

\* presence_changed is broadcast in the company of the socket.
Announce(p, c, status) ==
    /\ presence' = [presence EXCEPT ![p] = status]
    /\ told' = [told EXCEPT ![c][p] = status]

\* handleConnection: whatever the user had chosen, a new tab says ONLINE.
Connect(s, c) ==
    /\ sockets[s] = "unused"
    /\ sockets' = [sockets EXCEPT ![s] = c]
    /\ joined' = [joined EXCEPT ![s[1]] = @ \cup {c}]
    /\ said' = [said EXCEPT ![s[1]] = "ONLINE"]
    /\ Announce(s[1], c, "ONLINE")
    /\ UNCHANGED <<typingVars, receiptVars>>

TimersOf(p) == {s \in pending : s[1] = p /\ key[p] = s}
HideTyping(p, viewers) == shown \ (viewers \X {p})

\* handleDisconnect: the last tab makes the user OFFLINE, in the company of that tab,
\* and cleanupUserTyping stops the timer the map holds.
Disconnect(s) ==
    /\ s \in Connected
    /\ sockets' = [sockets EXCEPT ![s] = "closed"]
    /\ room' = room \ {s}
    /\ IF SocketsOf(s[1]) = {s}
       THEN /\ Announce(s[1], sockets[s], "OFFLINE")
            /\ key' = [key EXCEPT ![s[1]] = Noone]
            /\ pending' = pending \ TimersOf(s[1])
            /\ shown' = HideTyping(s[1], IF key[s[1]] = Noone THEN {} ELSE room) \ ({s} \X People)
       ELSE /\ shown' = shown \ ({s} \X People)
            /\ UNCHANGED <<presence, told, key, pending>>
    /\ UNCHANGED <<joined, said, asking, typed, receiptVars>>

\* handlePresenceUpdate: any status, OFFLINE included.
SetPresence(s, status) ==
    /\ s \in Connected
    /\ said' = [said EXCEPT ![s[1]] = status]
    /\ Announce(s[1], sockets[s], status)
    /\ UNCHANGED <<sockets, joined, typingVars, receiptVars>>

-----------------------------------------------------------------------------
(* Typing.                                                                   *)

Subscribe(s) ==
    /\ s \in Connected \ room
    /\ room' = room \cup {s}
    /\ UNCHANGED <<presenceVars, asking, key, pending, shown, typed, receiptVars>>

Unsubscribe(s) ==
    /\ s \in room
    /\ room' = room \ {s}
    /\ shown' = shown \ ({s} \X People)
    /\ UNCHANGED <<presenceVars, asking, key, pending, typed, receiptVars>>

AskTyping(s, what) ==
    /\ s \in Connected
    /\ typed < MaxTyped
    /\ typed' = typed + 1
    /\ <<s, what>> \notin asking
    /\ asking' = asking \cup {<<s, what>>}
    /\ UNCHANGED <<presenceVars, room, key, pending, shown, receiptVars>>

\* handleTypingStart after its checks: one timer for a user, whichever tab types; every
\* socket of the room but this one is told.
StartTyping(s) ==
    /\ <<s, "start">> \in asking
    /\ asking' = asking \ {<<s, "start">>}
    /\ pending' = (pending \ TimersOf(s[1])) \cup {s}
    /\ key' = [key EXCEPT ![s[1]] = s]
    /\ shown' = shown \cup ((room \ {s}) \X {s[1]})
    /\ UNCHANGED <<presenceVars, room, typed, receiptVars>>

StopTyping(s) ==
    /\ <<s, "stop">> \in asking
    /\ asking' = asking \ {<<s, "stop">>}
    /\ pending' = pending \ TimersOf(s[1])
    /\ key' = [key EXCEPT ![s[1]] = Noone]
    /\ shown' = HideTyping(s[1], room \ {s})
    /\ UNCHANGED <<presenceVars, room, typed, receiptVars>>

\* Four seconds later; the key is deleted whichever timer it holds.
TypingTimeout(s) ==
    /\ s \in pending
    /\ pending' = pending \ {s}
    /\ key' = [key EXCEPT ![s[1]] = Noone]
    /\ shown' = HideTyping(s[1], room \ {s})
    /\ UNCHANGED <<presenceVars, room, asking, typed, receiptVars>>

-----------------------------------------------------------------------------
(* Read receipts.                                                            *)

\* markRead: any message may be named, older ones too.
LoadReader(p, m) ==
    /\ reads < MaxRead
    /\ reads' = reads + 1
    /\ marking' = [marking EXCEPT ![p] = @ \cup {<<m, lastRead[p]>>}]
    /\ overlapped' = IF marking[p] = {} /\ saved[p] = {} THEN overlapped ELSE overlapped \cup {p}
    /\ UNCHANGED <<presenceVars, typingVars, lastRead, saved, batched, armed, receipt>>

\* The column is written only when it differs from what was loaded.
SaveLastRead(p) ==
    /\ \E mark \in marking[p] :
         /\ marking' = [marking EXCEPT ![p] = @ \ {mark}]
         /\ lastRead' = IF mark[1] = mark[2] THEN lastRead ELSE [lastRead EXCEPT ![p] = mark[1]]
         /\ saved' = [saved EXCEPT ![p] = @ \cup {mark[1]}]
    /\ UNCHANGED <<presenceVars, typingVars, batched, armed, receipt, reads, overlapped>>

\* The event of markRead, and handleMessageRead.
BatchReceipt(p) ==
    /\ \E m \in saved[p] :
         /\ saved' = [saved EXCEPT ![p] = @ \ {m}]
         /\ batched' = [batched EXCEPT ![p] = m]
    /\ armed' = TRUE
    /\ UNCHANGED <<presenceVars, typingVars, lastRead, marking, receipt, reads, overlapped>>

FlushReadReceipts ==
    /\ armed
    /\ armed' = FALSE
    /\ receipt' = [p \in People |-> IF batched[p] = 0 THEN receipt[p] ELSE batched[p]]
    /\ batched' = [p \in People |-> 0]
    /\ UNCHANGED <<presenceVars, typingVars, lastRead, marking, saved, reads, overlapped>>

-----------------------------------------------------------------------------
\* The server stops and starts again: the clients connect anew and load what was read.
RestartGateway ==
    /\ sockets' = [s \in Sockets |-> "unused"]
    /\ presence' = [p \in People |-> "OFFLINE"]
    /\ told' = [c \in Companies |-> presence']
    /\ joined' = [p \in People |-> {}] /\ said' = presence'
    /\ room' = {} /\ asking' = {} /\ pending' = {} /\ shown' = {}
    /\ key' = [p \in People |-> Noone]
    /\ marking' = [p \in People |-> {}] /\ saved' = marking'
    /\ batched' = [p \in People |-> 0]
    /\ armed' = FALSE
    /\ receipt' = lastRead
    /\ overlapped' = {}
    /\ UNCHANGED <<typed, lastRead, reads>>

TypingStep(s) == StartTyping(s) \/ StopTyping(s) \/ TypingTimeout(s)
ReadStep(p) == SaveLastRead(p) \/ BatchReceipt(p)

PresenceNext ==
    \/ \E s \in Sockets :
         \/ \E c \in Companies : Connect(s, c)
         \/ Disconnect(s)
         \/ \E status \in PresenceStatus : SetPresence(s, status)
         \/ Subscribe(s) \/ Unsubscribe(s)
         \/ \E what \in {"start", "stop"} : AskTyping(s, what)
         \/ TypingStep(s)
    \/ \E p \in People :
         \/ \E m \in 1 .. MaxRead : LoadReader(p, m)
         \/ ReadStep(p)
    \/ FlushReadReceipts
    \/ RestartGateway

\* While the server runs, checks are answered and timers run out.
PresenceFairness ==
    /\ WF_gatewayVars(\E s \in Sockets : TypingStep(s))
    /\ WF_gatewayVars(\E p \in People : ReadStep(p))
    /\ WF_gatewayVars(FlushReadReceipts)

PresenceSpec == PresenceInit /\ [][PresenceNext]_gatewayVars

FairPresenceSpec == PresenceSpec /\ PresenceFairness

-----------------------------------------------------------------------------
(* Properties.                                                               *)

\* However tabs open, close and set a status, a user has the status last asked for while
\* a tab is open and is OFFLINE after the last one; and a company has been told it,
\* unless the user had tabs in others.
PresenceTrue ==
    \A p \in People :
        /\ presence[p] = IF SocketsOf(p) = {} THEN "OFFLINE" ELSE said[p]
        /\ \A c \in Companies : joined[p] \subseteq {c} => told[c][p] = presence[p]

\* The only timers that run are those the map holds, one for a user, and others are shown
\* a user typing only while that timer runs: a start that was checked longer than the
\* stop after it, or than the disconnect, shows its user for four seconds more.
TypingBacked ==
    /\ pending = {key[p] : p \in People} \ {Noone}
    /\ \A view \in shown : view[1][1] # view[2] => key[view[2]] # Noone

\* What is batched waits for a timer that is set; and unless two requests of a user were
\* in flight at once, what is batched last, or else broadcast last, is what the member
\* row says.
ReceiptsAgree ==
    /\ armed <=> batched # [p \in People |-> 0]
    /\ \A p \in People \ overlapped :
         marking[p] = {} /\ saved[p] = {} =>
            lastRead[p] = IF batched[p] = 0 THEN receipt[p] ELSE batched[p]

\* Nobody is shown another typing for ever.
TypingEnds == []<>(\A view \in shown : view[1][1] = view[2])

\* What a user has read last reaches the conversation, unless two requests overlapped.
ReceiptsReach == []<>(\A p \in People \ overlapped : receipt[p] = lastRead[p])
=============================================================================
