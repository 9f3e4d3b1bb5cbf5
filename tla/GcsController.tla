---------------------------- MODULE GcsController -----------------------------
(***************************************************************************)
(* The ground station's map: its origin and the waypoints drawn on it.     *)
(*                                                                         *)
(* A waypoint is kept in metres east and north of an origin.  What is      *)
(* modelled of it is that origin; how many waypoints have the same one is  *)
(* left out.  Without an origin on the map a click is kept as (0, 0) and a *)
(* point of the graph as it is: metres from no origin, NoOrigin here.      *)
(***************************************************************************)
EXTENDS InsGnss

CONSTANT NoOrigin   \* _originLLH is null

VARIABLES
  _originLLH,
  waypoints,   \* the origins the waypoints are drawn on
  sentPath     \* the same for the last path on gcs/global_path

gcsVars == <<_originLLH, waypoints, sentPath>>

Drawn == Places \cup {NoOrigin}

GcsTypeOK ==
  /\ _originLLH \in Drawn
  /\ waypoints \subseteq Drawn
  /\ sentPath \subseteq Drawn

GcsInit ==
  /\ _originLLH = NoOrigin
  /\ waypoints = {}
  /\ sentPath = {}

\* Mutant: the zero vector is taken for a place.
IsOriginAny(origin) == _originLLH = NoOrigin

\* ecefNorm > 1e6: the zero vector is no origin.
IsOrigin(origin) == _originLLH = NoOrigin /\ origin # Zero

_onNavState(msg) ==
  /\ _originLLH' = IF IsOrigin(msg.origin) THEN msg.origin ELSE _originLLH
  /\ UNCHANGED <<waypoints, sentPath>>

\* A click on the map; the waypoints are not converted.
setOrigin(p) ==
  /\ _originLLH' = p
  /\ UNCHANGED <<waypoints, sentPath>>

\* addWaypoint and addWaypointENU.
addWaypoint ==
  /\ waypoints' = waypoints \cup {_originLLH}
  /\ UNCHANGED <<_originLLH, sentPath>>

\* The last waypoint on its origin, or one of several.
removeWaypoint ==
  /\ \E o \in waypoints : waypoints' = waypoints \ {o}
  /\ UNCHANGED <<_originLLH, sentPath>>

clearAll ==
  /\ waypoints' = {}
  /\ UNCHANGED <<_originLLH, sentPath>>

\* The file holds metres; they are read as if measured from the present origin.
importPathFromText ==
  /\ _originLLH # NoOrigin
  /\ waypoints' \in {{}, {_originLLH}}
  /\ UNCHANGED <<_originLLH, sentPath>>

sendGlobalPath ==
  /\ waypoints # {}
  /\ sentPath' = waypoints
  /\ UNCHANGED <<_originLLH, waypoints>>

=============================================================================
