------------------------------- MODULE MCCostmap -------------------------------
(***************************************************************************)
(* A strip of map with a wall that may be there or not, in front of and    *)
(* behind the place where the car is.                                      *)
(***************************************************************************)
EXTENDS Costmap

\* The last point of each message is never used.
MCClouds == {<<<<5, 1>>, <<5, 0>>, <<0, 0>>>>,
             <<<<6, 0>>, <<8, 1>>, <<0, 0>>>>}

MCFree  == -847
MCLeast == -2944

MCPoses == {<<1, 1>>, <<3, 1>>}

\* Points in every direction, in the map and around it.
MCPoints == (-4 .. 9) \X (-4 .. 6)
=============================================================================
