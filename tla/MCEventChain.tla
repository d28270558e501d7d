---------------------------- MODULE MCEventChain ----------------------------
(* Small instances of EventChain for TLC.                                   *)
EXTENDS EventChain

CONSTANTS v, w
=============================================================================
