------------------------------ MODULE MCRoomMedia ------------------------------
(* Two connections: of two browsers, or of one that comes back.             *)
EXTENDS RoomMedia, TLC

CONSTANTS a, b, s, t

MCWirings == {a :> s @@ b :> t, a :> s @@ b :> s}
================================================================================
