---------------------------- MODULE MCCargoExecution ----------------------------
(* CargoExecution for TLC: what users enter, and the interchangeable rows and workers. *)
EXTENDS CargoExecution, TLC

Enter(status, qty, truck, cleared) == [status |-> status, qty |-> qty, truck |-> truck, cleared |-> cleared]

\* A loading is completed, dispatched on a truck as it is, emptied and taken off its truck.
Steps == {Enter("Loading Completed", 1, FALSE, FALSE), Enter("Dispatched", None, TRUE, FALSE),
          Enter("none", 0, FALSE, TRUE)}

Draft(status, qty, packed) ==
  [status |-> status, qty |-> qty, complete |-> FALSE, packed |-> packed, truck |-> packed]

Complete(qty, packed) ==
  [status |-> "Loading Completed", qty |-> qty, complete |-> TRUE, packed |-> packed, truck |-> FALSE]

\* A draft, a dispatch of an unweighed job, a completion with its containers
Saves == {Draft("Draft", 1, FALSE), Draft("Dispatched", 0, TRUE), Complete(1, TRUE)}

OneStep == {Enter("Loading Completed", 1, FALSE, FALSE)}

OneJob == {Complete(1, TRUE)}

Symmetry == Permutations(Loadings) \union Permutations(Workers)

=============================================================================
