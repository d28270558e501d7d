------------------------------ MODULE MCRoomRecord ------------------------------
(* Small instances of RoomRecord for TLC.                                   *)
EXTENDS RoomRecord

CONSTANTS t1, t2, t3, d1, b1, b2
==================================================================================
