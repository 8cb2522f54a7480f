------------------------------- MODULE ChatContent -------------------------------
(***************************************************************************)
(* What a conversation keeps of its messages: a message with its earlier   *)
(* versions until it is erased for everyone, what one member has read and  *)
(* hidden, and the votes of a poll.                                        *)
(*                                                                         *)
(* A message is edited or erased as it was loaded before, and its former   *)
(* content is kept in the transaction of the edit.  Clearing the chat is   *)
(* four statements without a transaction.  A ballot withdraws the member's *)
(* votes and casts new ones in one transaction; withdrawing sees the votes *)
(* committed before it began, waits for those another ballot withdraws,    *)
(* and never sees what that one casts.                                     *)
(*                                                                         *)
(* Left out: sending, unread counters and schedules (ChatConversation),    *)
(* reactions, stars and pins, attachments, and who may do what.            *)
(***************************************************************************)
EXTENDS Naturals, Sequences, FiniteSets

CONSTANTS Typists,     \* requests that may overlap
          Contents,    \* what a message can say
          Erased,      \* NULL
          MaxVersion,  \* bound on the edits
          Messages,    \* what one member reads and hides
          Voters, Choices

ASSUME ContentAssumption == MaxVersion \in Nat \ {0} /\ Erased \notin Contents /\ IsFiniteSet(Choices)

VARIABLES post,      \* the message that is edited
          snapshots, \* message_versions: pairs of version and content
          states,    \* message_read_states of the member
          poll,      \* allowMultiple and isClosed
          votes,     \* message_poll_votes: pairs of voter and choice
          typing,    \* per request: its next statement and what it has read
          wordings,  \* history: what the message has said, in order
          hidden,    \* history: the messages that clearing, or deleting for oneself, was to hide
          voted,     \* history: who has voted
          tallied    \* history: the votes when the poll was closed

contentVars == <<post, snapshots, states, poll, votes, typing, wordings, hidden, voted, tallied>>
messageVars == <<post, snapshots, wordings>>
readingVars == <<states, hidden>>
pollVars == <<poll, votes, voted, tallied>>

Still == [at |-> "still"]
Types(t, next) == typing' = [typing EXCEPT ![t] = next]
Sits(t) == Types(t, Still)

Ballots == Voters \X Choices
Post == [content : Contents \union {Erased}, version : 1..MaxVersion + 1, deleted : BOOLEAN]

-----------------------------------------------------------------------------
\* MessageService.edit: the message is loaded; one transaction keeps what it said and saves it.

LoadToReword(t) ==
  /\ typing[t] = Still /\ ~post.deleted /\ post.version <= MaxVersion
  /\ \E content \in Contents : Types(t, [at |-> "edit", row |-> post, content |-> content])
  /\ UNCHANGED <<messageVars, readingVars, pollVars>>

SaveEdit(t) ==
  /\ typing[t].at = "edit"
  /\ LET d == typing[t]
     IN /\ snapshots' = snapshots \union {<<d.row.version, d.row.content>>}
        /\ post' = [post EXCEPT !.content = IF d.content = d.row.content THEN @ ELSE d.content,
                                !.version = d.row.version + 1]
  /\ wordings' = Append(wordings, post'.content)
  /\ Sits(t)
  /\ UNCHANGED <<readingVars, pollVars>>

\* MessageService.delete for everyone.
LoadToErase(t) ==
  /\ typing[t] = Still /\ ~post.deleted
  /\ Types(t, [at |-> "erase"])
  /\ UNCHANGED <<messageVars, readingVars, pollVars>>

SaveErase(t) ==
  /\ typing[t].at = "erase"
  /\ post' = [post EXCEPT !.content = Erased, !.deleted = TRUE]
  /\ Sits(t)
  /\ UNCHANGED <<snapshots, wordings, readingVars, pollVars>>

-----------------------------------------------------------------------------
\* MessageService.markRead and delete for oneself: upserts, the first of which leaves deletedAt.

MarkRead(m) ==
  /\ states' = [states EXCEPT ![m] = IF @ = "none" THEN "read" ELSE @]
  /\ UNCHANGED <<messageVars, hidden, pollVars, typing>>

DeleteForMe(m) ==
  /\ states' = [states EXCEPT ![m] = "hidden"]
  /\ hidden' = hidden \union {m}
  /\ UNCHANGED <<messageVars, pollVars, typing>>

\* MessageService.clearChat: which messages have a state, hide those, and create the others.
BeginClear(t) ==
  /\ typing[t] = Still
  /\ Types(t, [at |-> "hide", known |-> {m \in Messages : states[m] # "none"}])
  /\ UNCHANGED <<messageVars, readingVars, pollVars>>

HideKnown(t) ==
  /\ typing[t].at = "hide"
  /\ states' = [m \in Messages |-> IF m \in typing[t].known THEN "hidden" ELSE states[m]]
  /\ Types(t, [typing[t] EXCEPT !.at = "create"])
  /\ UNCHANGED <<messageVars, hidden, pollVars>>

\* (mutant) A state that came meanwhile is skipped.
HideOthersSkipping(t) ==
  /\ typing[t].at = "create"
  /\ states' = [m \in Messages |-> IF states[m] = "none" THEN "hidden" ELSE states[m]]
  /\ hidden' = Messages
  /\ Sits(t)
  /\ UNCHANGED <<messageVars, pollVars>>

\* A state that came meanwhile makes the insertion fail: UNIQUE (userId, messageId).
HideOthers(t) ==
  /\ typing[t].at = "create"
  /\ IF \E m \in Messages \ typing[t].known : states[m] # "none"
     THEN UNCHANGED readingVars
     ELSE /\ states' = [m \in Messages |-> IF m \in typing[t].known THEN states[m] ELSE "hidden"]
          /\ hidden' = Messages
  /\ Sits(t)
  /\ UNCHANGED <<messageVars, pollVars>>

-----------------------------------------------------------------------------
\* PollService.vote and closePoll: the poll is loaded before the transaction.

LoadPoll(t) ==
  /\ typing[t] = Still /\ ~poll.closed
  /\ \E v \in Voters, chosen \in (SUBSET Choices) \ {{}} :
       /\ poll.multiple \/ Cardinality(chosen) = 1
       /\ Types(t, [at |-> "begin", voter |-> v, cast |-> {v} \X chosen])
  /\ UNCHANGED <<messageVars, readingVars, pollVars>>

\* What the withdrawal sees.
BeginBallot(t) ==
  /\ typing[t].at = "begin"
  /\ Types(t, [at |-> "withdraw", cast |-> typing[t].cast, seen |-> votes \intersect ({typing[t].voter} \X Choices)])
  /\ UNCHANGED <<messageVars, readingVars, pollVars>>

Withdrawn == UNION {typing[t].taken : t \in {u \in Typists : typing[u].at = "cast"}}

Withdraw(t) ==
  /\ typing[t].at = "withdraw"
  /\ typing[t].seen \intersect Withdrawn = {}
  /\ Types(t, [at |-> "cast", cast |-> typing[t].cast, taken |-> typing[t].seen])
  /\ UNCHANGED <<messageVars, readingVars, pollVars>>

\* Rows that are gone are no longer found by a withdrawal that waits for them.
RowsGone(t, rows) ==
  typing' = [u \in Typists |-> IF u = t THEN Still
                               ELSE IF typing[u].at = "withdraw" THEN [typing[u] EXCEPT !.seen = @ \ rows]
                               ELSE typing[u]]

\* The same vote twice undoes the ballot: UNIQUE (pollId, optionId, userId).
Cast(t) ==
  /\ typing[t].at = "cast"
  /\ LET kept == votes \ typing[t].taken
     IN IF kept \intersect typing[t].cast # {}
        THEN Sits(t) /\ UNCHANGED <<votes, voted>>
        ELSE /\ votes' = kept \union typing[t].cast
             /\ voted' = voted \union {b[1] : b \in typing[t].cast}
             /\ RowsGone(t, typing[t].taken)
  /\ UNCHANGED <<messageVars, readingVars, poll, tallied>>

LoadToClose(t) ==
  /\ typing[t] = Still /\ ~poll.closed
  /\ Types(t, [at |-> "close"])
  /\ UNCHANGED <<messageVars, readingVars, pollVars>>

SaveClosed(t) ==
  /\ typing[t].at = "close"
  /\ poll' = [poll EXCEPT !.closed = TRUE]
  /\ tallied' = IF poll.closed THEN tallied ELSE votes
  /\ Sits(t)
  /\ UNCHANGED <<messageVars, readingVars, votes, voted>>

\* An error or a stopped process: a transaction is undone.
StopWriting(t) ==
  /\ typing[t] # Still
  /\ Sits(t)
  /\ UNCHANGED <<messageVars, readingVars, pollVars>>

-----------------------------------------------------------------------------
LoadMessage(t) == LoadToReword(t) \/ LoadToErase(t)
SaveMessage(t) == SaveEdit(t) \/ SaveErase(t)
Clearing(t) == BeginClear(t) \/ HideKnown(t) \/ HideOthers(t)
LoadForPoll(t) == LoadPoll(t) \/ LoadToClose(t)
Voting(t) == BeginBallot(t) \/ Withdraw(t) \/ Cast(t) \/ SaveClosed(t)

ContentInit ==
  /\ \E content \in Contents :
       /\ post = [content |-> content, version |-> 1, deleted |-> FALSE]
       /\ wordings = <<content>>
  /\ poll \in [multiple : BOOLEAN, closed : {FALSE}]
  /\ snapshots = {} /\ votes = {} /\ voted = {} /\ tallied = {} /\ hidden = {}
  /\ states = [m \in Messages |-> "none"]
  /\ typing = [t \in Typists |-> Still]

ContentNext ==
  \/ \E m \in Messages : MarkRead(m) \/ DeleteForMe(m)
  \/ \E t \in Typists : \/ LoadMessage(t) \/ SaveMessage(t) \/ Clearing(t)
                        \/ LoadForPoll(t) \/ Voting(t) \/ StopWriting(t)

ContentSpec == ContentInit /\ [][ContentNext]_contentVars

-----------------------------------------------------------------------------
(* Properties *)

ContentTypeOK ==
  /\ post \in Post
  /\ snapshots \subseteq (1..MaxVersion) \X (Contents \union {Erased})
  /\ states \in [Messages -> {"none", "read", "hidden"}]
  /\ poll \in [multiple : BOOLEAN, closed : BOOLEAN]
  /\ votes \subseteq Ballots /\ tallied \subseteq Ballots
  /\ voted \subseteq Voters /\ hidden \subseteq Messages

\* "Snapshot previous version for audit and compliance": serially the versions are what the
\* message said before, each once.
VersionsComplete == snapshots = {<<v, wordings[v]>> : v \in 1..Len(wordings) - 1}

\* Serially a message that was erased says nothing.
ErasedSaysNothing == post.deleted => post.content = Erased

\* Whoever races, what a member hid stays hidden.
HiddenStays == \A m \in hidden : states[m] = "hidden"

\* Whoever races, a ballot never loses the member's vote.
VotersCount == \A v \in voted : \E c \in Choices : <<v, c>> \in votes

\* Serially a poll for one choice has one vote of each, and a closed poll keeps its votes.
OneVoteEach == poll.multiple \/ \A b1, b2 \in votes : b1[1] = b2[1] => b1 = b2
ClosedIsFinal == poll.closed => votes = tallied
=============================================================================
