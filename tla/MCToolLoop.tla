------------------------------ MODULE MCToolLoop ------------------------------
(* Small instances of ToolLoop for TLC.                                     *)
EXTENDS ToolLoop

CONSTANTS c1, c2
===============================================================================
