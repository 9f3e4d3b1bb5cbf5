-------------------------------- MODULE Costmap --------------------------------
(***************************************************************************)
(* The costmap node: every so many lidar clouds are put into a grid of     *)
(* log-odds, a window of it around the car is searched for clusters, and   *)
(* their bounding boxes are published.                                     *)
(*                                                                         *)
(* A point of a cloud is the cell it falls into once it is transformed by  *)
(* the pose; log-odds are in thousandths.                                  *)
(***************************************************************************)
EXTENDS Integers, FiniteSets, Sequences, SequencesExt

CONSTANTS
  SizeX, SizeY,      \* global_size_
  LocalX, LocalY,    \* local_size_
  Limit,             \* update_every_Nth_lidar
  Points,            \* cells a lidar point may fall into, within the map or not
  Clouds,            \* lidar messages: sequences of points
  Poses,             \* cells of the car
  NoPose,            \* cur_pose_ is the zero matrix
  Occupied, Free,    \* log-odds of P_OCCUPIED and P_FREE
  Least, Most,       \* log-odds of P_MIN and P_MAX
  Threshold,         \* P_OCCUPIED itself, which the log-odds are compared with
  Eps2, MinSamples   \* dbscan: eps squared, in cells, and min_samples

Cells == (0 .. SizeX - 1) \X (0 .. SizeY - 1)

ASSUME CostmapAssumption ==
  /\ SizeX \in Nat \ {0} /\ SizeY \in Nat \ {0} /\ LocalX \in Nat /\ LocalY \in Nat
  /\ Limit \in Nat /\ MinSamples \in Nat \ {0} /\ Eps2 \in Nat
  /\ Points \subseteq Int \X Int
  /\ Clouds \subseteq Seq(Points) /\ <<>> \notin Clouds
  /\ Poses \subseteq Cells /\ NoPose \notin Poses
  /\ Occupied \in Int /\ Occupied > 0 /\ Free \in Int /\ Free < 0
  /\ Least \in Int /\ Least <= 0 /\ Most \in Int /\ Threshold \in 1 .. Most

VARIABLES
  cnt_iter,
  cur_pose,
  costmap,         \* the global one
  boxes,           \* published last: sets of cells, each from corner to corner
  last_marker_id,
  markers,         \* ids of the boxes rviz shows
  streak           \* history: cell |-> updates in a row that hit it and sent no ray
                   \* through it; below zero, that sent a ray through it and did not hit it

vars == <<cnt_iter, cur_pose, costmap, boxes, last_marker_id, markers, streak>>

\* Updates after which a cell shows as occupied, or no longer does, whatever was seen
\* there before.  History counts no further.
ShowAfter   == (Threshold - Least + Occupied - 1) \div Occupied
ForgetAfter == (Most - Threshold) \div (-Free) + 1

\* The log-odds stay within the limits, so that what was seen for long can be unseen.
TypeOK ==
  /\ cnt_iter \in 0 .. Limit
  /\ cur_pose \in Poses \cup {NoPose}
  /\ costmap \in [Cells -> Least .. Most]
  /\ boxes \subseteq SUBSET (Int \X Int)
  /\ last_marker_id \in Nat
  /\ markers \subseteq Nat
  /\ streak \in [Cells -> -ForgetAfter .. ShowAfter]

Init ==
  /\ cnt_iter = 0
  /\ cur_pose = NoPose
  /\ costmap = [c \in Cells |-> 0]
  /\ boxes = {}
  /\ last_marker_id = 0
  /\ markers = {}
  /\ streak = [c \in Cells |-> 0]

-----------------------------------------------------------------------------
(* The global map. *)

Center == <<SizeX \div 2, SizeY \div 2>>

\* A zero matrix takes every point, and the car, to the origin of the map.
At(pose)        == IF pose = NoPose THEN Center ELSE pose
Seen(pose, pts) == IF pose = NoPose THEN [i \in DOMAIN pts |-> Center] ELSE pts

Distance(a, b) == IF a < b THEN b - a ELSE a - b
Sign(a, b)     == IF b > a THEN 1 ELSE -1

Longer(s, e) == LET dx == Distance(s[1], e[1])
                    dy == Distance(s[2], e[2]) IN IF dx > dy THEN dx ELSE dy

\* The first n cells of the ray from s to e.  The shorter axis moves before the cell is
\* taken, the longer one afterwards.
RayCells(s, e, n) ==
  LET dx == Distance(s[1], e[1])
      dy == Distance(s[2], e[2])
      long  == Longer(s, e)
      short == IF dx > dy THEN dy ELSE dx
      \* the discriminant and the way made on the shorter axis after i cells
      at[i \in 0 .. n] ==
        IF i = 0 THEN [d |-> 2 * short - long, way |-> 0]
        ELSE IF at[i - 1].d < 0 THEN [at[i - 1] EXCEPT !.d = @ + 2 * short]
        ELSE [d |-> at[i - 1].d + 2 * (short - long), way |-> at[i - 1].way + 1]
  IN [i \in 1 .. n |->
        IF dx > dy
        THEN <<s[1] + Sign(s[1], e[1]) * (i - 1), s[2] + Sign(s[2], e[2]) * at[i].way>>
        ELSE <<s[1] + Sign(s[1], e[1]) * at[i].way, s[2] + Sign(s[2], e[2]) * (i - 1)>>]

\* Mutant: one cell too many.
BresenhamLineLonger(s, e) == RayCells(s, e, Longer(s, e) + 1)

\* All but the cell of the point itself.
BresenhamLine(s, e) == RayCells(s, e, Longer(s, e))

Bounded(v) == IF v < Least THEN Least ELSE IF v > Most THEN Most ELSE v

\* Mutant: the sums are not clamped.
UpdateCellsUnclamped(map, cells, odds) ==
  [c \in Cells |-> IF c \in cells THEN map[c] + odds ELSE map[c]]

\* UpdateCell of each of the cells; those outside of the map are passed over.
UpdateCells(map, cells, odds) ==
  [c \in Cells |-> IF c \in cells THEN Bounded(map[c] + odds) ELSE map[c]]

\* Mutant: the ray frees the cell of its point as well.
UpdateByPointThrough(map, s, e) ==
  UpdateCells(UpdateCells(map, {e}, Occupied), Range(BresenhamLine(s, e)) \cup {e}, Free)

\* A point occupies its cell, then its ray, which comes to no cell twice, frees the cells
\* before it, those that an earlier point of the cloud has just occupied included.
UpdateByPoint(map, s, e) ==
  UpdateCells(UpdateCells(map, {e}, Occupied), Range(BresenhamLine(s, e)), Free)

\* The map after the points of a cloud, one after the other.
UpdateByPoints(map, s, pts) ==
  LET after[i \in 0 .. Len(pts)] ==
        IF i = 0 THEN map ELSE UpdateByPoint(after[i - 1], s, pts[i])
  IN after[Len(pts)]

-----------------------------------------------------------------------------
(* The window around the car and the boxes in it. *)

\* All of the window is unknown when a corner of it is outside the map.
LocalCells(p) ==
  LET hx == LocalX \div 2
      hy == LocalY \div 2
  IN IF <<p[1] - hx, p[2] - hy>> \in Cells /\ <<p[1] + hx, p[2] + hy>> \in Cells
     THEN (p[1] - hx .. p[1] - hx + LocalX - 1) \X (p[2] - hy .. p[2] - hy + LocalY - 1)
     ELSE {}

Near(a, b) == Distance(a[1], b[1]) * Distance(a[1], b[1])
                + Distance(a[2], b[2]) * Distance(a[2], b[2]) <= Eps2

\* No part of it is away from the rest.
Linked(group) ==
  \A part \in SUBSET group :
    part = {} \/ part = group \/ \E a \in part, b \in group \ part : Near(a, b)

Clusters(points) ==
  {group \in SUBSET points :
     /\ Cardinality(group) >= MinSamples
     /\ Linked(group)
     /\ \A a \in group, b \in points \ group : ~Near(a, b)}

Lowest(S)  == CHOOSE m \in S : \A n \in S : m <= n
Highest(S) == CHOOSE m \in S : \A n \in S : m >= n

BoxOf(group) ==
  LET xs == {c[1] : c \in group}
      ys == {c[2] : c \in group}
  IN (Lowest(xs) .. Highest(xs)) \X (Lowest(ys) .. Highest(ys))

CalculateBoundingBoxes(map, p) ==
  {BoxOf(group) : group \in Clusters({c \in LocalCells(p) : map[c] >= Threshold})}

-----------------------------------------------------------------------------
(* The callbacks. *)

NavStateCallback(pose) ==
  /\ cur_pose' = pose
  /\ UNCHANGED <<cnt_iter, costmap, boxes, last_marker_id, markers, streak>>

Crossed(s, pts, c) == \E i \in DOMAIN pts : c \in Range(BresenhamLine(s, pts[i]))

StreakAfter(s, pts, c) ==
  LET hit == c \in Range(pts)
      crossed == Crossed(s, pts, c)
  IN CASE hit /\ ~crossed -> Lowest({ShowAfter, Highest({0, streak[c]}) + 1})
       [] crossed /\ ~hit -> Highest({-ForgetAfter, Lowest({0, streak[c]}) - 1})
       [] OTHER -> 0

\* Mutant: the boxes are looked for before the points are taken in.
UpdateCostmapBoxesFirst(pts) ==
  LET s == At(cur_pose)
  IN /\ costmap' = UpdateByPoints(costmap, s, pts)
     /\ boxes' = CalculateBoundingBoxes(costmap, s)
     /\ streak' = [c \in Cells |-> StreakAfter(s, pts, c)]

UpdateCostmap(pts) ==
  LET s == At(cur_pose)
  IN /\ costmap' = UpdateByPoints(costmap, s, pts)
     /\ boxes' = CalculateBoundingBoxes(costmap', s)
     /\ streak' = [c \in Cells |-> StreakAfter(s, pts, c)]

\* Mutant: markers of boxes that are gone are looked for among the ids in use.
PublishMarkersKeep(number) ==
  /\ markers' = markers \cup (0 .. number - 1)
  /\ last_marker_id' = number

\* Boxes get the ids from 0 on; what is left of the last time is deleted.
PublishMarkers(number) ==
  /\ markers' = (markers \cup (0 .. number - 1)) \ (number .. last_marker_id - 1)
  /\ last_marker_id' = number

\* The last point of a message is left out.  The counter is compared before it counts.
PointCloudCallback(msg) ==
  /\ IF cnt_iter >= Limit
     THEN /\ cnt_iter' = 0
          /\ UpdateCostmap(Seen(cur_pose, Front(msg)))
          /\ PublishMarkers(Cardinality(boxes'))
     ELSE /\ cnt_iter' = cnt_iter + 1
          /\ UNCHANGED <<costmap, boxes, last_marker_id, markers, streak>>
  /\ UNCHANGED cur_pose

Next ==
  \/ \E pose \in Poses : NavStateCallback(pose)
  \/ \E msg \in Clouds : PointCloudCallback(msg)

Spec == Init /\ [][Next]_vars

-----------------------------------------------------------------------------
(* Properties. *)

\* UpdateCell: what ShowAfter updates in a row have seen in a cell is what it shows, however
\* long the opposite was seen before.
SeenIsShown ==
  \A c \in Cells :
    /\ streak[c] = ShowAfter => costmap[c] >= Threshold
    /\ streak[c] = -ForgetAfter => costmap[c] < Threshold

\* UpdateCostmap: what those updates have all hit, once it is large enough, and as far as
\* it is within the window around the car, lies in a box that is published.
ObstacleIsReported ==
  [][ cnt_iter' < cnt_iter =>
        \A group \in Clusters({c \in LocalCells(At(cur_pose)) : streak'[c] = ShowAfter}) :
          \E box \in boxes' : group \subseteq box ]_vars

Straight(s, e) ==
  LET ray == BresenhamLine(s, e)
      dx  == Distance(s[1], e[1])
      dy  == Distance(s[2], e[2])
      Neighbours(a, b) == Distance(a[1], b[1]) <= 1 /\ Distance(a[2], b[2]) <= 1
      \* from one end to the other, at most a cell and a half off the line
      OnTheWay(c) ==
        /\ Distance(s[1], c[1]) + Distance(c[1], e[1]) = dx
        /\ Distance(s[2], c[2]) + Distance(c[2], e[2]) = dy
        /\ 2 * Distance(dy * Distance(s[1], c[1]), dx * Distance(s[2], c[2])) <= 3 * Longer(s, e)
  IN /\ e \notin Range(ray) /\ IsInjective(ray)
     /\ e # s => Neighbours(ray[Len(ray)], e)
     /\ \A i \in 1 .. Len(ray) - 1 : Neighbours(ray[i], ray[i + 1])
     /\ \A i \in DOMAIN ray : OnTheWay(ray[i])

\* Where a ray starts that is not straight.
CrookedFrom ==
  LET starts == {At(pose) : pose \in Poses \cup {NoPose}}
  IN {s \in starts : \E e \in Points : ~Straight(s, e)}

\* Costmap::UpdateCellsOnBresenhamLine: from wherever the car is and in each direction, a
\* ray frees connected cells near the straight line, none twice, up to the last but not
\* the point's own.
RayIsStraight == At(cur_pose) \notin CrookedFrom

\* PublishBoundingBoxes: what rviz shows are the boxes published last, however their
\* number went up and down.
MarkersAreTheBoxes == markers = 0 .. Cardinality(boxes) - 1
=============================================================================
