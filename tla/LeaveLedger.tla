------------------------------ MODULE LeaveLedger ------------------------------
(***************************************************************************)
(* What the leave service promises of an employee's balance: every request *)
(* is booked once, moves from pending to used as a whole, and gives back   *)
(* what it holds when it is closed.                                        *)
(***************************************************************************)
EXTENDS Integers

CONSTANTS Requests,  \* leave requests of the employee
          FullDay    \* units of one day

VARIABLES entry,     \* entry[r]: what request r has booked
          pending,   \* days booked by requests not yet approved
          used       \* days booked by approved requests, and by attendance marks

Kinds == {"none", "pending", "used", "closed"}

Init ==
  /\ entry = [r \in Requests |-> [kind |-> "none", days |-> 0]]
  /\ pending = 0
  /\ used = 0

Book(kind, days) ==
  /\ pending' = pending + (IF kind = "pending" THEN days ELSE 0)
  /\ used' = used + (IF kind = "used" THEN days ELSE 0)

\* Only r's entry changes.
Only(r) ==
  /\ entry' = [entry EXCEPT ![r] = entry'[r]]
  /\ entry'[r].days \in Nat

Open(r) ==
  /\ entry[r].kind = "none"
  /\ Only(r)
  /\ entry'[r].kind \in {"pending", "used"}
  /\ entry'[r].days > 0
  /\ Book(entry'[r].kind, entry'[r].days)

\* The calendar changed: the request holds another number of days.
Recount(r) ==
  /\ entry[r].kind \in {"pending", "used"}
  /\ Only(r)
  /\ entry'[r].kind = entry[r].kind
  /\ Book(entry[r].kind, entry'[r].days - entry[r].days)

\* The approval counts the days once more.
Settle(r) ==
  /\ entry[r].kind = "pending"
  /\ Only(r)
  /\ entry'[r].kind = "used"
  /\ pending' = pending - entry[r].days
  /\ used' = used + entry'[r].days

Close(r) ==
  /\ entry[r].kind \in {"pending", "used"}
  /\ entry' = [entry EXCEPT ![r].kind = "closed"]
  /\ Book(entry[r].kind, -entry[r].days)

\* Attendance marked by an administrator takes a day or gives one back.
Mark ==
  /\ used' \in {used + FullDay, IF used > FullDay THEN used - FullDay ELSE 0}
  /\ UNCHANGED <<entry, pending>>

Next ==
  \/ Mark
  \/ \E r \in Requests : Open(r) \/ Recount(r) \/ Settle(r) \/ Close(r)

Spec == Init /\ [][Next]_<<entry, pending, used>>

=============================================================================
