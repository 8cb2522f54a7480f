-------------------------- MODULE MCBusinessReference --------------------------
(* BusinessReference for TLC, with the property that holds as long as requests run one
   at a time. *)
EXTENDS BusinessReference, TLC

VARIABLE raced   \* history: has a request started while another was running?

Symmetry == Permutations(Enquiries) \union Permutations(Contracts) \union Permutations(Workers)

MCInit == Init /\ raced = FALSE

MCNext ==
  /\ Next
  /\ raced' = (raced \/ \E v, w \in Workers : v # w /\ pc'[v] # "idle" /\ pc'[w] # "idle")

MCSpec == MCInit /\ [][MCNext]_<<vars, raced>>

\* One request at a time leaves no active contract of a confirmed enquiry unreferenced.
ReferencedSerially == raced \/ ActiveContractsReferenced

=============================================================================
