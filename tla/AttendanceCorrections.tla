---------------------------- MODULE AttendanceCorrections ----------------------------
(***************************************************************************)
(* Requests to correct the attendance of one employee on one date: asked   *)
(* for when none is pending, approved in a transaction that locks the      *)
(* request and then the day's record.                                      *)
(*                                                                         *)
(* The times a request proposes and what is computed from them are left    *)
(* out: of the record only its being there is kept.  rejectCorrection      *)
(* changes nothing: it locks the request with its employee joined, which   *)
(* PostgreSQL refuses for an outer join.  Policy, leave and payroll tests  *)
(* are choices of the environment.                                         *)
(***************************************************************************)
EXTENDS Naturals

CONSTANTS Clerks,       \* requests of the API that may overlap
          Corrections,  \* attendance_exceptions rows ever inserted
          Unheld

ASSUME UnheldAssumption == Unheld \notin Clerks

VARIABLES corrections,  \* committed rows: status
          recorded,     \* whether attendance_records has the day
          logged,       \* per correction: attendance_logs rows that say it was approved
          held,         \* per correction: the transaction that has its row, or Unheld
          recordHeld,   \* the transaction that has the day's record, or Unheld
          desk          \* per clerk: the next statement and what was read

correctionVars == <<corrections, recorded, logged, held, recordHeld, desk>>

NoPaper == [at |-> "idle"]
CorrectionStatus == {"unasked", "PENDING", "APPROVED"}
Pending == {c \in Corrections : corrections[c] = "PENDING"}

Handles(k, next) == desk' = [desk EXCEPT ![k] = next]
LetsGo(k) ==
  /\ held' = [c \in Corrections |-> IF held[c] = k THEN Unheld ELSE held[c]]
  /\ recordHeld' = IF recordHeld = k THEN Unheld ELSE recordHeld

-----------------------------------------------------------------------------
\* requestCorrection: the pending ones are read, then the new one is inserted.
LookForPending(k) ==
  /\ desk[k] = NoPaper
  /\ Pending = {}
  /\ Handles(k, [at |-> "ask"])
  /\ UNCHANGED <<corrections, recorded, logged, held, recordHeld>>

Ask(k) ==
  /\ desk[k].at = "ask"
  /\ \E c \in Corrections :
       corrections[c] = "unasked" /\ corrections' = [corrections EXCEPT ![c] = "PENDING"]
  /\ Handles(k, NoPaper)
  /\ UNCHANGED <<recorded, logged, held, recordHeld>>

-----------------------------------------------------------------------------
\* approveCorrection, which has read the request without a lock to know whom it is about.
OpenCorrection(k) ==
  /\ desk[k] = NoPaper
  /\ \E c \in Corrections : corrections[c] # "unasked" /\ Handles(k, [at |-> "lock", correction |-> c])
  /\ UNCHANGED <<corrections, recorded, logged, held, recordHeld>>

\* FOR UPDATE waits; a request that is resolved by then is refused.
LockCorrection(k) ==
  /\ desk[k].at = "lock"
  /\ LET c == desk[k].correction IN
       /\ held[c] = Unheld
       /\ IF corrections[c] = "PENDING"
          THEN held' = [held EXCEPT ![c] = k] /\ Handles(k, [desk[k] EXCEPT !.at = "record"])
          ELSE Handles(k, NoPaper) /\ UNCHANGED held
  /\ UNCHANGED <<corrections, recorded, logged, recordHeld>>

\* The day's record FOR UPDATE, if it is there.
LockRecord(k) ==
  /\ desk[k].at = "record"
  /\ recordHeld = Unheld
  /\ recordHeld' = IF recorded THEN k ELSE Unheld
  /\ Handles(k, [at |-> "approve", correction |-> desk[k].correction, found |-> recorded])
  /\ UNCHANGED <<corrections, recorded, logged, held>>

\* The record is updated or created, the request resolved and the log written; the commit.
\* Two that found no record both insert one: the unique index of employee and date refuses
\* the second.
Approve(k) ==
  /\ desk[k].at = "approve"
  /\ LET c == desk[k].correction IN
       IF recorded /\ ~desk[k].found THEN UNCHANGED <<corrections, recorded, logged>>
       ELSE /\ recorded' = TRUE
            /\ corrections' = [corrections EXCEPT ![c] = "APPROVED"]
            /\ logged' = [logged EXCEPT ![c] = @ + 1]
  /\ LetsGo(k)
  /\ Handles(k, NoPaper)

\* An error rolls back, as does the process when it stops.
AbandonPaper(k) ==
  /\ desk[k] # NoPaper
  /\ LetsGo(k)
  /\ Handles(k, NoPaper)
  /\ UNCHANGED <<corrections, recorded, logged>>

\* A punch or a job writes the day's record meanwhile.
RecordDay ==
  /\ ~recorded
  /\ recorded' = TRUE
  /\ UNCHANGED <<corrections, logged, held, recordHeld, desk>>

-----------------------------------------------------------------------------
CorrectionsInit ==
  /\ corrections = [c \in Corrections |-> "unasked"]
  /\ recorded = FALSE
  /\ logged = [c \in Corrections |-> 0]
  /\ held = [c \in Corrections |-> Unheld]
  /\ recordHeld = Unheld
  /\ desk = [k \in Clerks |-> NoPaper]

TakePaper(k) == LookForPending(k) \/ OpenCorrection(k)
WorkOn(k) == Ask(k) \/ LockCorrection(k) \/ LockRecord(k) \/ Approve(k)

CorrectionsNext == (\E k \in Clerks : TakePaper(k) \/ WorkOn(k) \/ AbandonPaper(k)) \/ RecordDay

CorrectionsSpec == CorrectionsInit /\ [][CorrectionsNext]_correctionVars

-----------------------------------------------------------------------------
CorrectionsTypeOK ==
  /\ corrections \in [Corrections -> CorrectionStatus]
  /\ recorded \in BOOLEAN
  /\ logged \in [Corrections -> Nat]
  /\ held \in [Corrections -> Clerks \union {Unheld}]
  /\ recordHeld \in Clerks \union {Unheld}
  /\ \A k \in Clerks : desk[k].at \in {"idle", "ask", "lock", "record", "approve"}

\* Exactly the approved corrections were applied to the record, each once, whoever races.
AppliedOnce == \A c \in Corrections : logged[c] = IF corrections[c] = "APPROVED" THEN 1 ELSE 0

\* A date has one pending correction.  Requests one at a time: two that overlap find none.
OnePending == \A c, d \in Pending : c = d
=============================================================================
