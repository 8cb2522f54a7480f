-------------------------------- MODULE Organisation --------------------------------
(***************************************************************************)
(* The two kinds of tree of a company: who reports to whom, and which unit *)
(* (department or designation) is part of which.  A request reads the tree *)
(* and then writes one row.                                                *)
(*                                                                         *)
(* The reads of a request are one step.  Names, codes, salary bands and    *)
(* the logins of employees are left out; the designations and employees    *)
(* that keep a unit from being deactivated are a choice of the environment.*)
(***************************************************************************)
EXTENDS Naturals, FiniteSets

CONSTANTS Editors,     \* requests that may overlap
          Staff,       \* employees ever hired
          Units,       \* departments (or designations) ever created
          MaxDepth,    \* 15 in changeManager
          NoOne

ASSUME OrgAssumption ==
  NoOne \notin Staff \union Units /\ IsFiniteSet(Staff) /\ IsFiniteSet(Units)

VARIABLES staff,       \* employees: managerId, status
          units,       \* departments or designations: parent, isActive
          reopened,    \* history: units that an update has made active
          edit         \* per request: the row it is about to write

orgVars == <<staff, units, reopened, edit>>

NoEdit == [at |-> "idle"]
Vacant == [state |-> "vacant"]
\* ACTIVE stands for CONFIRMED too, PROBATION for every status but these and TERMINATED.
EmployeeStatus == {"PROBATION", "ACTIVE", "TERMINATED"}
Employee == [manager : Staff \union {NoOne}, status : EmployeeStatus]
Unit == [parent : Units \union {NoOne}, active : BOOLEAN]

Employed == {e \in Staff : staff[e] # Vacant}
Existent == {u \in Units : units[u] # Vacant}

Edits(q, next) == edit' = [edit EXCEPT ![q] = next]

-----------------------------------------------------------------------------
\* Level n of the recursive query: those n levels below e.
Level(e) ==
  LET level[n \in Nat] == IF n = 0 THEN {e} ELSE {s \in Employed : staff[s].manager \in level[n - 1]}
  IN  [n \in 0 .. Cardinality(Staff) |-> level[n]]
Subordinates(e) == UNION {Level(e)[n] : n \in DOMAIN Level(e)}
Superiors(m) == {s \in Employed : m \in Subordinates(s)}

\* checkMaxHierarchyDepth: the manager's chain, himself included, and the levels below e.
DepthAllowed(e, m) ==
  \A n \in DOMAIN Level(e) : Level(e)[n] # {} => Cardinality(Superiors(m)) + n <= MaxDepth

\* changeManager.
CheckChange(q) ==
  /\ edit[q] = NoEdit
  /\ \E e \in Employed, m \in Employed \union {NoOne} :
       /\ m # staff[e].manager
       /\ m # NoOne => staff[m].status = "ACTIVE" /\ m \notin Subordinates(e) /\ DepthAllowed(e, m)
       /\ Edits(q, [at |-> "manager", employee |-> e, manager |-> m])
  /\ UNCHANGED <<staff, units, reopened>>

\* updateEmployee with a managerId.
CheckUpdate(q) ==
  /\ edit[q] = NoEdit
  /\ \E e \in Employed, m \in Employed \union {NoOne} :
       /\ m # staff[e].manager
       /\ m # NoOne => staff[m].status # "TERMINATED" /\ m \notin Subordinates(e)
       /\ Edits(q, [at |-> "manager", employee |-> e, manager |-> m])
  /\ UNCHANGED <<staff, units, reopened>>

\* The foreign key refuses a manager who was deleted; a deleted employee's row is not found.
WriteManager(q) ==
  /\ edit[q].at = "manager"
  /\ LET e == edit[q].employee
         m == edit[q].manager IN
       staff' = IF e \in Employed /\ m \in Employed \union {NoOne}
                THEN [staff EXCEPT ![e].manager = m] ELSE staff
  /\ Edits(q, NoEdit)
  /\ UNCHANGED <<units, reopened>>

\* createEmployee.
CheckHire(q) ==
  /\ edit[q] = NoEdit
  /\ \E m \in {NoOne} \union {s \in Employed : staff[s].status # "TERMINATED"}, status \in EmployeeStatus :
       Edits(q, [at |-> "hire", manager |-> m, status |-> status])
  /\ UNCHANGED <<staff, units, reopened>>

Hire(q) ==
  /\ edit[q].at = "hire"
  /\ IF edit[q].manager \in Employed \union {NoOne}
     THEN \E e \in Staff \ Employed :
            staff' = [staff EXCEPT ![e] = [manager |-> edit[q].manager, status |-> edit[q].status]]
     ELSE UNCHANGED staff
  /\ Edits(q, NoEdit)
  /\ UNCHANGED <<units, reopened>>

\* transitionLifecycle, and updateEmployee with a status.
SetEmployeeStatus ==
  /\ \E e \in Employed, status \in EmployeeStatus :
       status # staff[e].status /\ staff' = [staff EXCEPT ![e].status = status]
  /\ UNCHANGED <<units, reopened, edit>>

\* deleteEmployee: ON DELETE SET NULL for those who reported to him.
Dismiss ==
  /\ \E e \in Employed :
       staff' = [s \in Staff |->
         IF s = e THEN Vacant
         ELSE IF s \in Employed /\ staff[s].manager = e THEN [staff[s] EXCEPT !.manager = NoOne]
         ELSE staff[s]]
  /\ UNCHANGED <<units, reopened, edit>>

-----------------------------------------------------------------------------
\* The recursive query walks active units only, the first included.
ActiveUnits == {u \in Existent : units[u].active}
SubUnits(u) ==
  LET level[n \in Nat] ==
        IF n = 0 THEN {u} \intersect ActiveUnits
        ELSE {s \in ActiveUnits : units[s].parent \in level[n - 1]}
  IN  UNION {level[n] : n \in 0 .. Cardinality(Units)}

IsCircular(u, parent) == parent = u \/ parent \in SubUnits(u)

AddUnit ==
  /\ \E u \in Units \ Existent, parent \in Existent \union {NoOne}, active \in BOOLEAN :
       units' = [units EXCEPT ![u] = [parent |-> parent, active |-> active]]
  /\ UNCHANGED <<staff, reopened, edit>>

\* updateDepartment, updateDesignation; fields that are as they were read are not written.
CheckUnit(q) ==
  /\ edit[q] = NoEdit
  /\ \E u \in Existent, parent \in Existent \union {NoOne}, active \in BOOLEAN :
       /\ parent \notin {NoOne, units[u].parent} => ~IsCircular(u, parent)
       /\ Edits(q, [at |-> "unit", unit |-> u, read |-> units[u],
                    sent |-> [parent |-> parent, active |-> active]])
  /\ UNCHANGED <<staff, units, reopened>>

WriteUnit(q) ==
  /\ edit[q].at = "unit"
  /\ LET u == edit[q].unit
         Written(field) == IF edit[q].sent[field] = edit[q].read[field]
                           THEN units[u][field] ELSE edit[q].sent[field]
     IN  /\ units' = [units EXCEPT ![u] = [field \in DOMAIN @ |-> Written(field)]]
         /\ reopened' = IF Written("active") /\ ~units[u].active THEN reopened \union {u} ELSE reopened
  /\ Edits(q, NoEdit)
  /\ UNCHANGED staff

\* deleteDepartment, deleteDesignation of one that nothing is linked to.
Deactivate ==
  /\ \E u \in ActiveUnits : units' = [units EXCEPT ![u].active = FALSE]
  /\ UNCHANGED <<staff, reopened, edit>>

\* An error, or the process stops before the write.
DropEdit(q) ==
  /\ edit[q] # NoEdit
  /\ Edits(q, NoEdit)
  /\ UNCHANGED <<staff, units, reopened>>

-----------------------------------------------------------------------------
OrgInit ==
  /\ staff = [e \in Staff |-> Vacant]
  /\ units = [u \in Units |-> Vacant]
  /\ reopened = {}
  /\ edit = [q \in Editors |-> NoEdit]

StaffNext ==
  \/ SetEmployeeStatus \/ Dismiss
  \/ \E q \in Editors : CheckChange(q) \/ CheckUpdate(q) \/ WriteManager(q) \/ CheckHire(q) \/ Hire(q)

UnitsNext ==
  \/ AddUnit \/ Deactivate
  \/ \E q \in Editors : CheckUnit(q) \/ WriteUnit(q)

OrgNext == StaffNext \/ UnitsNext \/ \E q \in Editors : DropEdit(q)

OrgSpec == OrgInit /\ [][OrgNext]_orgVars

-----------------------------------------------------------------------------
OrgTypeOK ==
  /\ \A e \in Staff : staff[e] \in Employee \union {Vacant}
  /\ \A u \in Units : units[u] \in Unit \union {Vacant}
  /\ reopened \subseteq Existent
  /\ \A q \in Editors : edit[q].at \in {"idle", "manager", "hire", "unit"}

\* Nobody reports to himself, however many levels up: the recursive queries end.  Requests
\* one at a time: of two, each can make the other's manager a subordinate.
ReportingEnds ==
  \A group \in (SUBSET Employed) \ {{}} : \E e \in group : staff[e].manager \notin group

\* Active units lie on a cycle only if an update has made one of them active again: the test
\* does not walk through inactive ones.  Requests one at a time.
UnitsEnd ==
  \A group \in (SUBSET (ActiveUnits \ reopened)) \ {{}} : \E u \in group : units[u].parent \notin group
=============================================================================
