----------------------------- MODULE MCCallBudget -----------------------------
(* Small instances of CallBudget for TLC.                                   *)
EXTENDS CallBudget, TLC

CONSTANTS w1, w2

WorkerSymmetry == Permutations(Worker)
===============================================================================
