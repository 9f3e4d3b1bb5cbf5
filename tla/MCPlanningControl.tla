--------------------------- MODULE MCPlanningControl ---------------------------
(***************************************************************************)
(* Paths of several lengths and both ways over the same ground, and one    *)
(* too short to be used; a plan that leads backwards faster than the top   *)
(* speed, and paths long enough to brake from it over the top speed; a     *)
(* square of points and boxes in it, square, long and thin, for the        *)
(* collision check.                                                        *)
(***************************************************************************)
EXTENDS PlanningControl

MCPaths == {<<0, 1, 6>>, <<0, 4, 6, 8>>, <<6, 3>>, <<2>>}
MCPlaces == -2 .. 12
MCPlanSpeeds == {-5, -1, 1, 3}
MCGrid == [x : 0 .. 6, y : 0 .. 6]
MCBoxes == [x_min : 2 .. 3, x_max : 3 .. 4, y_min : {3}, y_max : {3, 4}]
=============================================================================
