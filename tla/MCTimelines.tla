---------------------------- MODULE MCTimelines ----------------------------
(* Instance of Timelines for TLC: three moments at 0, 1 and 3, and one at  *)
(* 2, in half steps.                                                       *)
EXTENDS Timelines, TLC

MCMoments == 0 :> <<0, 1, 3>> @@ 1 :> <<2>>
MCSpeeds == {-5, -2, -1, 0, 3}
MCPositions == {0, 3, 6}
=============================================================================
