---------------------------------- MODULE Room ----------------------------------
(* What the models of a collaboration room share: RoomMedia, RoomScribe and *)
(* RoomRecord each follow one side of the same room, and what they all ask  *)
(* of it is whether it is still open.                                       *)

VARIABLE open  \* forge_rooms.status = 'open'
=================================================================================
