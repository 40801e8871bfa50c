----------------------------- MODULE MCDepthDraw -----------------------------
(* Instance of DepthDraw for TLC: three ids, the last of a child object.   *)
EXTENDS DepthDraw

MCObjDepths == <<<<1>>, <<2>>, <<2, 1>>>>
=============================================================================
