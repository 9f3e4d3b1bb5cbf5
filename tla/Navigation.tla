------------------------------ MODULE Navigation ------------------------------
(***************************************************************************)
(* The filter of ins_gnss and the map of the ground station, with the car, *)
(* its receiver and the operator: three parties that must mean the same    *)
(* point when they say origin.                                             *)
(***************************************************************************)
EXTENDS GcsController

CONSTANTS
  GnssGap,     \* messages of the inertial unit between two GNSS messages
  MaxOrders    \* bound: headings the operator sends, and restarts of ins_gnss

\* A receiver with a fix is heard within the alignment.
ASSUME NavigationAssumption == GnssGap \in 0..AlignmentTime /\ MaxOrders \in Nat

VARIABLES
  place,      \* where the car is
  fix,        \* the receiver has a fix
  gap,        \* messages of the inertial unit since its last one
  orders,     \* headings sent, and processes started again, so far
  asked,      \* the last heading asked for, by configuration or operator
  moved,      \* history: the car moved after the fix
  restarted,  \* history: the filter was restarted when it had an origin
  clicked,    \* history: the operator set the origin by hand
  early       \* history: a waypoint was drawn before the map had an origin

worldVars == <<place, fix, gap, orders, asked, moved, restarted, clicked, early>>

vars == <<insVars, gcsVars, worldVars>>

TypeOK ==
  /\ InsTypeOK
  /\ GcsTypeOK
  /\ place \in Places
  /\ fix \in BOOLEAN
  /\ gap \in 0..GnssGap
  /\ orders \in 0..MaxOrders
  /\ asked \in Yaws \cup {-InitialYaw}
  /\ moved \in BOOLEAN
  /\ restarted \in BOOLEAN
  /\ clicked \in BOOLEAN
  /\ early \in BOOLEAN

Init ==
  /\ InsInit
  /\ GcsInit
  /\ place \in Places
  /\ fix = FALSE
  /\ gap = GnssGap
  /\ orders = 0
  /\ asked = -InitialYaw
  /\ moved = FALSE
  /\ restarted = FALSE
  /\ clicked = FALSE
  /\ early = FALSE

-----------------------------------------------------------------------------
(* The sensors. *)

ImuArrives ==
  /\ fix => gap < GnssGap
  /\ ImuCallback
  /\ gap' = IF fix THEN gap + 1 ELSE gap
  /\ UNCHANGED <<gcsVars, place, fix, orders, asked, moved, restarted, clicked, early>>

GnssArrives ==
  /\ fix
  /\ GpsCallback(place)
  /\ gap' = 0
  /\ UNCHANGED <<gcsVars, place, fix, orders, asked, moved, restarted, clicked, early>>

FixIsFound ==
  /\ ~fix
  /\ fix' = TRUE
  /\ UNCHANGED <<insVars, gcsVars, place, gap, orders, asked, moved, restarted, clicked, early>>

CarMoves ==
  /\ \E p \in Places \ {place} : place' = p
  /\ moved' = (moved \/ fix)
  /\ UNCHANGED <<insVars, gcsVars, fix, gap, orders, asked, restarted, clicked, early>>

-----------------------------------------------------------------------------
(* The operator and the topics. *)

\* nav_topic: a message may be late, also later than a restart, or be lost.
NavReachesTheMap ==
  /\ nav # NoNav
  /\ _onNavState(nav)
  /\ UNCHANGED <<insVars, worldVars>>

\* setyaw_topic
SetYaw(yaw) ==
  /\ orders < MaxOrders
  /\ orders' = orders + 1
  /\ InitYawCallback(yaw)
  /\ asked' = yaw
  /\ restarted' = (restarted \/ pos_origin # Zero)
  /\ UNCHANGED <<gcsVars, place, fix, gap, moved, clicked, early>>

\* The process manager ends ins_gnss and starts it again: the heading of the
\* configuration is in force again.
InsRestarts ==
  /\ orders < MaxOrders
  /\ orders' = orders + 1
  /\ InsBegins
  /\ asked' = -InitialYaw
  /\ restarted' = (restarted \/ pos_origin # Zero)
  /\ UNCHANGED <<gcsVars, place, fix, gap, moved, clicked, early>>

ClickOrigin(p) ==
  /\ setOrigin(p)
  /\ clicked' = TRUE
  /\ UNCHANGED <<insVars, place, fix, gap, orders, asked, moved, restarted, early>>

DrawWaypoint ==
  /\ addWaypoint
  /\ early' = (early \/ _originLLH = NoOrigin)
  /\ UNCHANGED <<insVars, place, fix, gap, orders, asked, moved, restarted, clicked>>

EditPath ==
  /\ removeWaypoint \/ clearAll \/ importPathFromText \/ sendGlobalPath
  /\ UNCHANGED <<insVars, worldVars>>

Next ==
  \/ ImuArrives
  \/ GnssArrives
  \/ FixIsFound
  \/ CarMoves
  \/ NavReachesTheMap
  \/ \E yaw \in Yaws : SetYaw(yaw)
  \/ InsRestarts
  \/ \E p \in Places : ClickOrigin(p)
  \/ DrawWaypoint
  \/ EditPath

Spec == Init /\ [][Next]_vars

\* The receiver sends as long as it has power and the connection stands.
Fairness ==
  /\ WF_vars(ImuArrives)
  /\ WF_vars(GnssArrives)
  /\ WF_vars(NavReachesTheMap)

FairSpec == Spec /\ Fairness

-----------------------------------------------------------------------------
(* Properties *)

\* Once the filter has an origin, the map has the same one or none yet, and the waypoints
\* and the path that was sent are measured from it.  Filter and map choose it for
\* themselves, once each, and nothing of it is compared, so there are exceptions: the
\* filter begins anew (a heading is set, or its process is started again) and the car
\* moves: the filter takes a new origin, the map and the path keep the old one; the
\* operator clicks an origin by hand; a waypoint is drawn before the map has an origin,
\* and its metres are taken from no point at all.
OriginsAgree ==
  \/ moved /\ restarted
  \/ clicked
  \/ pos_origin = Zero
  \/ /\ _originLLH \in {pos_origin, NoOrigin}
     /\ waypoints \cup sentPath \subseteq {pos_origin} \cup {o \in {NoOrigin} : early}

\* The heading that a navigation state starts from is the one asked for last, also when
\* it came in the middle of an alignment: Reset loads the configuration's heading first,
\* and the two changes of sign cancel.  A new process asks for the configuration's.
HeadingIsAsked == [][nav' # nav => nav'.yaw = asked]_vars

\* Without a fix the alignment ends with the zero vector for an origin, and that is for
\* good.  Setting the heading mends it: a filter that begins anew with a fix gives the
\* map its origin.
SetYawMends == (fix /\ ~is_time_set) ~> (_originLLH # NoOrigin)

=============================================================================
