---------------------------- MODULE MCLeaveWorkflow ----------------------------
(* TLC instance of LeaveWorkflow. *)
EXTENDS LeaveWorkflow, TLC

Symmetry == Permutations(Requests) \union Permutations(Workers)

Whole(a, b) == [from |-> a, to |-> b, half |-> "No"]

Half(d, half) == [from |-> d, to |-> d, half |-> half]

Two == {Whole(1, 2), Whole(1, 1), Half(2, "FIRST_HALF"), Half(2, "null")}
One == {Whole(1, 1), Half(1, "FIRST_HALF")}
=============================================================================
