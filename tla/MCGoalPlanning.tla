--------------------------- MODULE MCGoalPlanning ---------------------------
(* Small instances of GoalPlanning for TLC.                                *)
EXTENDS GoalPlanning

CONSTANTS c1, c2, q1, q2, a1, a2, o1, k1, k2
=============================================================================
