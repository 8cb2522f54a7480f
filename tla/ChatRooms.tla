-------------------------------- MODULE ChatRooms --------------------------------
(***************************************************************************)
(* Conversations and their members: groups, direct messages of two, and    *)
(* the discussion of one document.                                         *)
(*                                                                         *)
(* A direct message and a discussion are looked for and then created; but  *)
(* whoever creates a conversation may name the document himself, and       *)
(* nothing is looked for.                                                  *)
(* Memberships are loaded and then saved or destroyed, each row on its     *)
(* own; the rules of a conversation add and remove members one statement   *)
(* after the other.  When a process starts it looks for direct messages    *)
(* of fewer than two members and destroys them.                            *)
(*                                                                         *)
(* A row that is gone takes no save any more.  Left out: visibility,       *)
(* policies and who may do what, settings, overrides, labels and freezing. *)
(***************************************************************************)
EXTENDS Naturals, FiniteSets, Functions

CONSTANTS Talkers,  \* requests that may overlap
          Rooms, Persons

ASSUME RoomsAssumption == IsFiniteSet(Persons)

VARIABLES rooms,    \* conversations: kind, whether it is soft-deleted, and whether who
                    \* created it named the document
          roles,    \* conversation_members: room to person to role
          talk,     \* per request: its next statement and what it has read
          bereft,   \* history: direct messages that lost a member
          widened,  \* history: direct messages somebody was added to
          disowned  \* history: rooms whose owner the rules removed, or named himself as successor

roomVars == <<rooms, roles, talk, bereft, widened, disowned>>

\* The other roles of the code behave like MEMBER here.
Roles == {"OWNER", "ADMIN", "MEMBER"}
Outside == "none"
Unbuilt == [kind |-> "unbuilt", given |-> FALSE, trashed |-> FALSE]
Destroyed == [kind |-> "destroyed", given |-> FALSE, trashed |-> FALSE]
Room == [kind : {"group", "direct", "discussion"}, given : BOOLEAN, trashed : BOOLEAN] \union {Unbuilt, Destroyed}

Standing(r) == rooms[r] \notin {Unbuilt, Destroyed}
Open(r) == Standing(r) /\ ~rooms[r].trashed
Members(r) == {p \in Persons : roles[r][p] # Outside}
OpenOf(kind) == {r \in Rooms : Open(r) /\ rooms[r].kind = kind}

\* The open conversations of the document, whatever their type
Discussions == {r \in Rooms : Open(r) /\ (rooms[r].kind = "discussion" \/ rooms[r].given)}

Silent == [at |-> "silent"]
Says(c, next) == talk' = [talk EXCEPT ![c] = next]
FallsSilent(c) == Says(c, Silent)

\* Rows destroyed by c take no save of another request; a row created later is another row.
Voids(c, r, gone) ==
  talk' = [d \in Talkers |->
             IF d = c THEN Silent
             ELSE IF talk[d].at = "save" /\ talk[d].room = r
                  THEN [talk[d] EXCEPT !.rows = Restrict(@, DOMAIN @ \ gone)]
             ELSE talk[d]]

-----------------------------------------------------------------------------
\* A conversation and its first members are created in one transaction.
Founded(r, kind, given, owner, others) ==
  /\ rooms[r] = Unbuilt
  /\ rooms' = [rooms EXCEPT ![r] = [kind |-> kind, given |-> given, trashed |-> FALSE]]
  /\ roles' = [roles EXCEPT ![r] = [p \in Persons |-> IF p = owner THEN "OWNER"
                                                     ELSE IF p \in others THEN "MEMBER" ELSE Outside]]
  /\ UNCHANGED <<bereft, widened, disowned>>

\* ConversationService.create; with rules, these are applied after the transaction.  The
\* document is the one that the request names.
CreateGroup(c) ==
  /\ talk[c] = Silent
  /\ \E r \in Rooms, p \in Persons, given \in BOOLEAN : \E others \in SUBSET (Persons \ {p}) :
       /\ Founded(r, "group", given, p, others)
       /\ FallsSilent(c) \/ Says(c, [at |-> "rules", room |-> r])

FindDirect(c) ==
  /\ talk[c] = Silent
  /\ \E p, q \in Persons :
       /\ p # q /\ \A r \in OpenOf("direct") : Members(r) # {p, q}
       /\ Says(c, [at |-> "direct", owner |-> p, other |-> q])
  /\ UNCHANGED <<rooms, roles, bereft, widened, disowned>>

\* (mutant) The recipient is added after the conversation is committed.
MakeDirectByHalves(c) ==
  \/ /\ talk[c].at = "direct"
     /\ \E r \in Rooms : /\ Founded(r, "direct", FALSE, talk[c].owner, {})
                         /\ Says(c, [at |-> "half", room |-> r, other |-> talk[c].other])
  \/ /\ talk[c].at = "half" /\ Standing(talk[c].room)
     /\ roles' = [roles EXCEPT ![talk[c].room][talk[c].other] = "MEMBER"]
     /\ FallsSilent(c)
     /\ UNCHANGED <<rooms, bereft, widened, disowned>>

MakeDirect(c) ==
  /\ talk[c].at = "direct"
  /\ \E r \in Rooms, given \in BOOLEAN : Founded(r, "direct", given, talk[c].owner, {talk[c].other})
  /\ FallsSilent(c)

\* ErpDiscussionService.getOrCreateDiscussion: who asks joins the discussion that is found.
FindDiscussion(c) ==
  /\ talk[c] = Silent
  /\ \E p \in Persons :
       IF Discussions = {}
       THEN Says(c, [at |-> "discussion", owner |-> p])
       ELSE \E r \in Discussions :
              p \notin Members(r) /\ Says(c, [at |-> "join", room |-> r, who |-> {p}, role |-> "MEMBER"])
  /\ UNCHANGED <<rooms, roles, bereft, widened, disowned>>

MakeDiscussion(c) ==
  /\ talk[c].at = "discussion"
  /\ \E r \in Rooms : \E others \in SUBSET (Persons \ {talk[c].owner}) :
       Founded(r, "discussion", FALSE, talk[c].owner, others)
  /\ FallsSilent(c)

-----------------------------------------------------------------------------
\* addMember, and bulkAddMembers, which gives any role: who is no member yet is inserted; so is a
\* viewer who is none when he marks a message as read.
LoadToAdd(c) ==
  /\ talk[c] = Silent
  /\ \E r \in Rooms : \E who \in SUBSET (Persons \ Members(r)), role \in Roles :
       /\ Open(r) /\ who # {}
       /\ Says(c, [at |-> "join", room |-> r, who |-> who, role |-> role])
  /\ UNCHANGED <<rooms, roles, bereft, widened, disowned>>

\* One INSERT: UNIQUE (conversationId, userId), and the conversation must exist.
Join(c) ==
  /\ talk[c].at = "join"
  /\ LET d == talk[c]
     IN IF Standing(d.room) /\ d.who \intersect Members(d.room) = {}
        THEN /\ roles' = [roles EXCEPT ![d.room] = [p \in Persons |-> IF p \in d.who THEN d.role ELSE @[p]]]
             /\ widened' = widened \union {d.room}
        ELSE UNCHANGED <<roles, widened>>
  /\ FallsSilent(c)
  /\ UNCHANGED <<rooms, bereft, disowned>>

\* removeMember, also to leave, and updateRole: the owner keeps his role.
LoadToChange(c) ==
  /\ talk[c] = Silent
  /\ \E r \in Rooms : \E p \in Members(r), role \in Roles \union {Outside} :
       /\ Open(r) /\ roles[r][p] \notin {"OWNER", role}
       /\ Says(c, [at |-> "save", room |-> r, rows |-> [x \in {p} |-> role]])
  /\ UNCHANGED <<rooms, roles, bereft, widened, disowned>>

\* transferOwnership, whose saves share a transaction: who is an owner already is not written.
LoadToTransfer(c) ==
  /\ talk[c] = Silent
  /\ \E r \in Rooms : \E owner, heir \in Members(r) :
       /\ Open(r) /\ roles[r][owner] = "OWNER"
       /\ LET written == {owner} \union {p \in {heir} : roles[r][p] # "OWNER"}
          IN Says(c, [at |-> "save", room |-> r, rows |-> [x \in written |-> IF x = owner THEN "ADMIN" ELSE "OWNER"]])
       /\ disowned' = disowned \union {x \in {r} : owner = heir}
  /\ UNCHANGED <<rooms, roles, bereft, widened>>

\* Members removed from a room leave it bereft when it is a direct message.
Loses(r, gone) ==
  /\ roles' = [roles EXCEPT ![r] = [p \in Persons |-> IF p \in gone THEN Outside ELSE @[p]]]
  /\ bereft' = bereft \union {x \in {r} : rooms[x].kind = "direct" /\ gone # {}}

SaveRoles(c) ==
  /\ talk[c].at = "save"
  /\ LET d == talk[c]
         gone == {p \in DOMAIN d.rows : d.rows[p] = Outside}
     IN IF gone # {}
        THEN Loses(d.room, gone) /\ Voids(c, d.room, gone)
        ELSE /\ roles' = [roles EXCEPT ![d.room] = [p \in Persons |-> IF p \in DOMAIN d.rows THEN d.rows[p] ELSE @[p]]]
             /\ FallsSilent(c) /\ UNCHANGED bereft
  /\ UNCHANGED <<rooms, widened, disowned>>

\* bulkRemoveMembers: one statement, which spares owners.
BulkRemove(c) ==
  /\ talk[c] = Silent
  /\ \E r \in Rooms : \E who \in SUBSET Members(r) :
       /\ Open(r)
       /\ LET gone == {p \in who : roles[r][p] # "OWNER"} IN Loses(r, gone) /\ Voids(c, r, gone)
  /\ UNCHANGED <<rooms, widened, disowned>>

-----------------------------------------------------------------------------
\* ConversationService.update with rules, and syncDynamicMemberships.
SetRules(c) ==
  /\ talk[c] = Silent
  /\ \E r \in Rooms : Open(r) /\ Says(c, [at |-> "rules", room |-> r])
  /\ UNCHANGED <<rooms, roles, bereft, widened, disowned>>

\* Whom the rules add and whom they remove; inactive users are not added.
ReadRules(c) ==
  /\ talk[c].at = "rules"
  /\ LET r == talk[c].room
     IN IF Open(r)
        THEN \E add \in SUBSET (Persons \ Members(r)), drop \in SUBSET Members(r) :
               Says(c, [at |-> "sync", room |-> r, add |-> add, drop |-> drop])
        ELSE FallsSilent(c)
  /\ UNCHANGED <<rooms, roles, bereft, widened, disowned>>

\* One INSERT after the other; the first that fails ends it, and nobody is removed.
SyncOne(c) ==
  /\ talk[c].at = "sync"
  /\ LET d == talk[c]
     IN \E p \in d.add :
          IF Standing(d.room) /\ p \notin Members(d.room)
          THEN /\ roles' = [roles EXCEPT ![d.room][p] = "MEMBER"]
               /\ widened' = widened \union {d.room}
               /\ Says(c, [d EXCEPT !.add = @ \ {p}])
          ELSE FallsSilent(c) /\ UNCHANGED <<roles, widened>>
  /\ UNCHANGED <<rooms, bereft, disowned>>

\* One DELETE by userId, whatever the role.
SyncRest(c) ==
  /\ talk[c].at = "sync" /\ talk[c].add = {}
  /\ LET r == talk[c].room
         gone == talk[c].drop \intersect Members(r)
     IN /\ Loses(r, gone) /\ Voids(c, r, gone)
        /\ disowned' = disowned \union {x \in {r} : \E p \in gone : roles[x][p] = "OWNER"}
  /\ UNCHANGED <<rooms, widened>>

\* archive and delete: both set deletedAt, and nothing finds the conversation again.
Trash(c) ==
  /\ talk[c] = Silent
  /\ \E r \in Rooms : Open(r) /\ rooms' = [rooms EXCEPT ![r].trashed = TRUE]
  /\ UNCHANGED <<roles, talk, bereft, widened, disowned>>

-----------------------------------------------------------------------------
\* ConversationService.repairInvalidDMs, when a process starts.
FindBroken(c) ==
  /\ talk[c] = Silent
  /\ LET found == {r \in OpenOf("direct") : Cardinality(Members(r)) < 2}
     IN found # {} /\ Says(c, [at |-> "repair", found |-> found])
  /\ UNCHANGED <<rooms, roles, bereft, widened, disowned>>

\* Destroyed for good, with its members.
DestroyBroken(c) ==
  /\ talk[c].at = "repair"
  /\ \E r \in talk[c].found :
       /\ rooms' = [rooms EXCEPT ![r] = Destroyed]
       /\ roles' = [roles EXCEPT ![r] = [p \in Persons |-> Outside]]
       /\ talk' = [d \in Talkers |->
                     IF d = c /\ talk[c].found = {r} THEN Silent
                     ELSE IF d = c THEN [talk[c] EXCEPT !.found = @ \ {r}]
                     ELSE IF talk[d].at = "save" /\ talk[d].room = r THEN Silent
                     ELSE talk[d]]
  /\ UNCHANGED <<bereft, widened, disowned>>

\* An error or a stopped process; a transaction is undone.
DropTalk(c) ==
  /\ talk[c] # Silent
  /\ FallsSilent(c)
  /\ UNCHANGED <<rooms, roles, bereft, widened, disowned>>

-----------------------------------------------------------------------------
Opening(c) == \/ CreateGroup(c) \/ FindDirect(c) \/ FindDiscussion(c) \/ LoadToAdd(c)
              \/ LoadToChange(c) \/ LoadToTransfer(c)
              \/ BulkRemove(c) \/ SetRules(c) \/ Trash(c) \/ FindBroken(c)
Going(c) == \/ MakeDirect(c) \/ MakeDiscussion(c) \/ Join(c) \/ SaveRoles(c) \/ ReadRules(c)
            \/ SyncOne(c) \/ SyncRest(c) \/ DestroyBroken(c) \/ DropTalk(c)

RoomsInit ==
  /\ rooms = [r \in Rooms |-> Unbuilt]
  /\ roles = [r \in Rooms |-> [p \in Persons |-> Outside]]
  /\ talk = [c \in Talkers |-> Silent]
  /\ bereft = {} /\ widened = {} /\ disowned = {}

RoomsNext == \E c \in Talkers : Opening(c) \/ Going(c)

RoomsSpec == RoomsInit /\ [][RoomsNext]_roomVars

-----------------------------------------------------------------------------
(* Properties *)

\* Memberships have a role and belong to conversations.
RoomsTypeOK ==
  /\ rooms \in [Rooms -> Room]
  /\ roles \in [Rooms -> [Persons -> Roles \union {Outside}]]
  /\ \A r \in Rooms : Standing(r) \/ Members(r) = {}
  /\ bereft \subseteq Rooms /\ widened \subseteq Rooms /\ disowned \subseteq Rooms

\* "Cannot remove the owner of the conversation": serially only the rules, and an owner who
\* names himself as successor, leave a conversation
\* without one.
HasOwner == \A r \in Rooms : Open(r) /\ r \notin disowned => \E p \in Persons : roles[r][p] = "OWNER"

\* Serially two people have one direct message, as long as nobody was added to it.
OneDirect ==
  \A r, s \in OpenOf("direct") \ widened : Members(r) = Members(s) /\ Cardinality(Members(r)) = 2 => r = s

\* Serially a document has one discussion, beside the conversations of those who named the
\* document when they created them: what was found is joined, never doubled.
OneDiscussion == Cardinality(OpenOf("discussion")) <= 1

\* Whoever races, the repair destroys only direct messages that lost a member.
RepairsOnlyBroken == \A r \in Rooms : rooms[r] = Destroyed => r \in bereft
=============================================================================
