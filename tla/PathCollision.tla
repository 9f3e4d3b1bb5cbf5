----------------------------- MODULE PathCollision -----------------------------
(***************************************************************************)
(* The collision check of the Frenet planner, on whole coordinates: a path *)
(* collides when one of its legs meets an edge of a box that has grown by  *)
(* the radius of the car.                                                  *)
(***************************************************************************)
EXTENDS Integers, Sequences

CONSTANTS
  RobotRadius,
  LegEnds,       \* points of the paths that are tried
  Boxes          \* bounding boxes

\* A box may be as thin as one row of cells; grown by the radius it is not.
ASSUME CollisionAssumption ==
  /\ RobotRadius \in Nat
  /\ LegEnds \subseteq [x : Int, y : Int]
  /\ Boxes \subseteq [x_min : Int, x_max : Int, y_min : Int, y_max : Int]
  /\ \A box \in Boxes : /\ box.x_min - RobotRadius < box.x_max + RobotRadius
                        /\ box.y_min - RobotRadius < box.y_max + RobotRadius

Point(a, b) == [x |-> a, y |-> b]

Cross(p, q) == p.x * q.y - p.y * q.x

Minus(p, q) == Point(p.x - q.x, p.y - q.y)

\* n / d lies between 0 and 1
IsFraction(n, d) == IF d > 0 THEN 0 <= n /\ n <= d ELSE d <= n /\ n <= 0

\* Mutant: the second segment is taken for a line.
DoIntersectLine(p0, p1, q0, q1) ==
  LET r == Minus(p1, p0)
      s == Minus(q1, q0)
  IN Cross(r, s) # 0 /\ IsFraction(Cross(Minus(q0, p0), s), Cross(r, s))

\* Parallel segments do not intersect, on one line either.
DoIntersect(p0, p1, q0, q1) ==
  LET r == Minus(p1, p0)
      s == Minus(q1, q0)
  IN /\ Cross(r, s) # 0
     /\ IsFraction(Cross(Minus(q0, p0), r), Cross(r, s))
     /\ IsFraction(Cross(Minus(q0, p0), s), Cross(r, s))

WithMargin(box) ==
  [x_min |-> box.x_min - RobotRadius, x_max |-> box.x_max + RobotRadius,
   y_min |-> box.y_min - RobotRadius, y_max |-> box.y_max + RobotRadius]

Corners(box) ==
  <<Point(box.x_min, box.y_min), Point(box.x_max, box.y_min),
    Point(box.x_max, box.y_max), Point(box.x_min, box.y_max)>>

CheckPathCollision(path, boxes) ==
  \E i \in 1 .. Len(path) - 1, box \in boxes, k \in 1 .. 4 :
    LET c == Corners(WithMargin(box))
    IN DoIntersect(path[i], path[i + 1], c[k], c[(k % 4) + 1])

-----------------------------------------------------------------------------
(* What the check promises. *)

Inside(p, box) == p.x \in box.x_min .. box.x_max /\ p.y \in box.y_min .. box.y_max

\* A leg and a box have a point in common unless a line separates them: a side of the
\* box or the line of the leg itself.
Touches(p, q, box) ==
  /\ ~ \/ p.x < box.x_min /\ q.x < box.x_min
       \/ p.x > box.x_max /\ q.x > box.x_max
       \/ p.y < box.y_min /\ q.y < box.y_min
       \/ p.y > box.y_max /\ q.y > box.y_max
  /\ LET side == {Cross(Minus(q, p), Minus(Corners(box)[k], p)) : k \in 1 .. 4}
     IN ~((\A v \in side : v > 0) \/ (\A v \in side : v < 0))

\* A leg that has an end outside collides exactly when it comes as near to the box as
\* the radius of the car.  One that lies inside altogether does not count.
LegCollision(p, q, box) ==
  LET grown == WithMargin(box)
  IN ~(Inside(p, grown) /\ Inside(q, grown)) =>
       (CheckPathCollision(<<p, q>>, {box}) <=> p # q /\ Touches(p, q, grown))

\* Where a leg starts that is not judged rightly.
MisjudgedFrom ==
  {p.x : p \in {p \in LegEnds : \E q \in LegEnds, box \in Boxes : ~LegCollision(p, q, box)}}
=============================================================================
