--------------------------- MODULE ReferenceRegistry ---------------------------
(***************************************************************************)
(* What the business-reference service promises its clients: references    *)
(* are issued in order, each to one root, and a record that has been linked*)
(* to a reference stays linked to it.                                      *)
(***************************************************************************)
EXTENDS Integers

CONSTANTS Rows,      \* records that may carry a reference
          None       \* no reference

VARIABLES counter,   \* last reference issued
          registry,  \* the issued references and their roots
          link       \* link[r]: the reference record r carries

Issued == {b.ref : b \in registry}

Init ==
  /\ counter = 0
  /\ registry = {}
  /\ link = [r \in Rows |-> None]

\* New references follow the last one, each for a root that has none yet.
Issue ==
  LET new == registry' \ registry
  IN /\ registry \subseteq registry'
     /\ counter <= counter'
     /\ {b.ref : b \in new} = (counter + 1)..counter'
     /\ \A a \in new, b \in registry' : a.ref = b.ref \/ a.root = b.root => a = b
     /\ \A b \in new : link'[b.root] = b.ref

\* Records without a reference may be linked to an issued one.
Attach ==
  /\ link' \in [Rows -> Issued' \union {None}]
  /\ \A r \in Rows : link[r] # None => link'[r] = link[r]

Next == Issue /\ Attach

Spec == Init /\ [][Next]_<<counter, registry, link>>

=============================================================================
