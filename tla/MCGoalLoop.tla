----------------------------- MODULE MCGoalLoop -----------------------------
(* Values for the runs of GoalLoop: one planned item, done or not. *)
EXTENDS GoalLoop

MCLists == {[a |-> FALSE], [a |-> TRUE]}
MCWhole == [g |-> FALSE]
=============================================================================
