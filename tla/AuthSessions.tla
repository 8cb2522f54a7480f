-------------------------------- MODULE AuthSessions --------------------------------
(***************************************************************************)
(* The sessions of one user: a refresh token is exchanged for a new        *)
(* session in one transaction that locks the old one, while the user logs  *)
(* out, is deactivated, and old sessions expire and are purged.            *)
(*                                                                         *)
(* A session and its refresh token are one: both are random and fresh.     *)
(* Access tokens, passwords, roles and what login returns are left out.    *)
(***************************************************************************)
EXTENDS Naturals, FiniteSets

CONSTANTS Devices,     \* requests that may overlap
          SessionIds,    \* sessions ever opened
          NoDevice

ASSUME DevicesAssumption == NoDevice \notin Devices

VARIABLES sessions,    \* user_sessions: committed rows
          active,      \* users.isActive
          sessionLock, \* per session: the transaction that has its row FOR UPDATE, or NoDevice
          visit        \* per request: its next statement and what it has read

sessionVars == <<sessions, active, sessionLock, visit>>

NoVisit == [at |-> "idle"]
Unopened == [state |-> "unopened"]
Purged == [state |-> "purged"]
\* login is the first session of the chain this one descends from.
Session == [revoked : BOOLEAN, expired : BOOLEAN, login : SessionIds]

Rows == {s \in SessionIds : sessions[s] \in Session}
Live == {s \in Rows : ~sessions[s].revoked /\ ~sessions[s].expired}

Visits(d, next) == visit' = [visit EXCEPT ![d] = next]
Releases(d) == sessionLock' = [s \in SessionIds |-> IF sessionLock[s] = d THEN NoDevice ELSE sessionLock[s]]
Revoked(chosen) == [s \in SessionIds |-> IF s \in chosen THEN [sessions[s] EXCEPT !.revoked = TRUE] ELSE sessions[s]]
Opened(rows, s, login) == [rows EXCEPT ![s] = [revoked |-> FALSE, expired |-> FALSE, login |-> login]]

-----------------------------------------------------------------------------
\* login: one autocommitted INSERT.
Login(d) ==
  /\ visit[d] = NoVisit
  /\ active
  /\ \E s \in SessionIds : sessions[s] = Unopened /\ sessions' = Opened(sessions, s, s)
  /\ UNCHANGED <<active, sessionLock, visit>>

\* (mutant) the row is read without a lock
ExchangeUnlocked(d) ==
  /\ visit[d] = NoVisit
  /\ \E s \in Live : Visits(d, [at |-> "owner", session |-> s, login |-> sessions[s].login])
  /\ UNCHANGED <<sessions, active, sessionLock>>

\* refresh: SELECT ... FOR UPDATE by the token's hash waits for whoever has the row, and sees
\* what that one committed.  A revoked or expired session is refused.
Exchange(d) ==
  /\ visit[d] = NoVisit
  /\ \E s \in Live :
       /\ sessionLock[s] = NoDevice
       /\ sessionLock' = [sessionLock EXCEPT ![s] = d]
       /\ Visits(d, [at |-> "owner", session |-> s, login |-> sessions[s].login])
  /\ UNCHANGED <<sessions, active>>

\* The user is read outside the transaction; an inactive one rolls the revocation back.
CheckOwner(d) ==
  /\ visit[d].at = "owner"
  /\ IF active THEN Visits(d, [visit[d] EXCEPT !.at = "renew"]) /\ UNCHANGED sessionLock
     ELSE Visits(d, NoVisit) /\ Releases(d)
  /\ UNCHANGED <<sessions, active>>

\* The new session and the commit, with which the old one becomes revoked.
Renew(d) ==
  /\ visit[d].at = "renew"
  /\ \E s \in SessionIds :
       /\ sessions[s] = Unopened
       /\ sessions' = Opened(Revoked({visit[d].session} \intersect Rows), s, visit[d].login)
  /\ Releases(d)
  /\ Visits(d, NoVisit)
  /\ UNCHANGED active

\* logout: the session is loaded, then saved; the UPDATE waits for the row.
LoadLogout(d) ==
  /\ visit[d] = NoVisit
  /\ \E s \in Rows : ~sessions[s].revoked /\ Visits(d, [at |-> "logout", chosen |-> {s}])
  /\ UNCHANGED <<sessions, active, sessionLock>>

\* logoutAll: the UPDATE chooses its rows, then waits for their locks.
LoadLogoutAll(d) ==
  /\ visit[d] = NoVisit
  /\ Visits(d, [at |-> "logout", chosen |-> {s \in Rows : ~sessions[s].revoked}])
  /\ UNCHANGED <<sessions, active, sessionLock>>

Logout(d) ==
  /\ visit[d].at = "logout"
  /\ \A s \in visit[d].chosen : sessionLock[s] = NoDevice
  /\ sessions' = Revoked(visit[d].chosen \intersect Rows)
  /\ Visits(d, NoVisit)
  /\ UNCHANGED <<active, sessionLock>>

\* A statement fails or the process stops: an open transaction is undone.
AbandonVisit(d) ==
  /\ visit[d] # NoVisit
  /\ Releases(d)
  /\ Visits(d, NoVisit)
  /\ UNCHANGED <<sessions, active>>

-----------------------------------------------------------------------------
\* An administrator; time; the job at midnight, which deletes what nobody has locked.
SetActive ==
  /\ active' = ~active
  /\ UNCHANGED <<sessions, sessionLock, visit>>

Expire ==
  /\ \E s \in Rows : ~sessions[s].expired /\ sessions' = [sessions EXCEPT ![s].expired = TRUE]
  /\ UNCHANGED <<active, sessionLock, visit>>

Cleanup ==
  /\ \E s \in Rows \ Live :
       sessionLock[s] = NoDevice /\ sessions' = [sessions EXCEPT ![s] = Purged]
  /\ UNCHANGED <<active, sessionLock, visit>>

-----------------------------------------------------------------------------
SessionsInit ==
  /\ sessions = [s \in SessionIds |-> Unopened]
  /\ active = TRUE
  /\ sessionLock = [s \in SessionIds |-> NoDevice]
  /\ visit = [d \in Devices |-> NoVisit]

SessionsNext ==
  \/ \E d \in Devices :
       \/ Login(d) \/ Exchange(d) \/ CheckOwner(d) \/ Renew(d)
       \/ LoadLogout(d) \/ LoadLogoutAll(d) \/ Logout(d) \/ AbandonVisit(d)
  \/ SetActive \/ Expire \/ Cleanup

SessionsSpec == SessionsInit /\ [][SessionsNext]_sessionVars

-----------------------------------------------------------------------------
SessionsTypeOK ==
  /\ \A s \in SessionIds : sessions[s] \in Session \union {Unopened, Purged}
  /\ active \in BOOLEAN
  /\ sessionLock \in [SessionIds -> Devices \union {NoDevice}]
  /\ \A d \in Devices : visit[d].at \in {"idle", "owner", "renew", "logout"}

\* A login has at most one session that is not revoked, whatever overlaps and fails: a
\* refresh token is exchanged once.
RefreshedOnce ==
  \A s, t \in Rows :
    sessions[s].login = sessions[t].login /\ ~sessions[s].revoked /\ ~sessions[t].revoked => s = t
=============================================================================
