---------------------------- MODULE MCRoomSystem ----------------------------
(* Instance of RoomSystem for TLC: two rooms, the first id second.         *)
EXTENDS RoomSystem, TLC

MCOrder == <<1, 0>>
MCRoomInsts == 0 :> {1} @@ 1 :> {2, 3}
=============================================================================
