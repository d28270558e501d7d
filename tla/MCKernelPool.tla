----------------------------- MODULE MCKernelPool -----------------------------
(* Small instances of KernelPool for TLC.                                   *)
EXTENDS KernelPool

CONSTANTS b1, b2, b3, s1, s2
===============================================================================
