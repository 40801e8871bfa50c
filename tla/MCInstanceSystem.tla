-------------------------- MODULE MCInstanceSystem --------------------------
(* Instance of InstanceSystem for TLC: an object and a child of it.        *)
EXTENDS InstanceSystem, TLC

MCParent == "child" :> "parent" @@ "parent" :> "none"
MCRoomInsts == <<"parent", "child", "parent">>
=============================================================================
