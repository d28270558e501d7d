------------------------------ MODULE MCRoomScribe ------------------------------
(* Small instances of RoomScribe for TLC.                                   *)
EXTENDS RoomScribe, TLC

CONSTANTS p, q, x, y, w1

MCWords == p :> 2 @@ q :> 0
==================================================================================
