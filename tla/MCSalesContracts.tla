---------------------------- MODULE MCSalesContracts ----------------------------
(* SalesContracts for TLC.  A behaviour explores one of two things: requests that run one
   at a time; or requests that race for numbers, for drafts without an enquiry. *)
EXTENDS SalesContracts, TLC

CONSTANTS agri, b1

VARIABLE mode

\* A number of another form, and one of the seller's own form typed ahead of the sequence,
\* spelled in both ways.
TypedAhead == {[seller |-> None, initial |-> None, seq |-> 1, spelling |-> "other"]}
                \union [seller: {agri}, initial: {b1}, seq: {9}, spelling: {"generated", "other"}]

\* An edit changes one field: what Save writes of a field does not depend on the others.
Edit(f, values) == {[NoChange EXCEPT ![f] = v] : v \in values}

SingleChanges ==
  Edit("status", Asked) \union Edit("number", Typed) \union Edit("enquiry", Enquiries)
    \union Edit("seller", Sellers) \union Edit("buyer", {b1})

FirstSequences == [s \in {agri} |-> 1]

ContractSymmetry == Permutations(Contracts) \union Permutations(Workers)

OneAtATime == \A v, w \in Workers : pc[v] # "idle" /\ pc[w] # "idle" => v = w

ModeInit == Init /\ mode \in {"serial", "racing"}

ModeNext ==
  /\ Next
  /\ mode = "serial" => OneAtATime'
  /\ UNCHANGED mode

ModeSpec == ModeInit /\ [][ModeNext]_<<vars, mode>>

-----------------------------------------------------------------------------
(* What requests carry in the instance *)

\* In a race an edit changes the number or the seller, since all else is the same in every
\* draft.
Plain(j) ==
  CASE j.op = "none" -> TRUE
    [] j.op = "create" -> j.row.enquiry = None /\ j.row.status = "Draft"
    [] OTHER -> j.new.number # Keep \/ j.new.seller # Keep

MCNext ==
  /\ ModeNext
  /\ mode = "racing" => \A w \in Workers : Plain(job'[w])

MCSpec == ModeInit /\ [][MCNext]_<<vars, mode>>

-----------------------------------------------------------------------------
(* Properties *)

\* Every generated sequence advances the ones before it: none is skipped by a create that
\* fails, and a number about to be inserted exceeds those its statement saw.
SequencesAdvance == TypeOK /\ NoSequenceSkipped /\ NumberExceedsSeen

\* Two contracts that stay with a seller are told apart by a generated sequence as long as
\* requests run one at a time; all others at least by the initial of the buyer whose number
\* it was, when requests race and when edits move contracts to other sellers.
SequencesTold == SharedOnlyAcrossBuyers /\ (mode = "serial" => SequencesUnique)

=============================================================================
