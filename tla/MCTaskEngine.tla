---------------------------- MODULE MCTaskEngine ----------------------------
(* Small instances of TaskEngine for TLC.                                   *)
EXTENDS TaskEngine, TLC

CONSTANTS w1, w2, w3, a, b, c

\* A chain: b waits on a, and c (where there is one) on b.
Chain == [t \in Task |-> IF t = b THEN {a} ELSE IF t = c THEN {b} ELSE {}]
=============================================================================
