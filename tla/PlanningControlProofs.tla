------------------------- MODULE PlanningControlProofs -------------------------
(***************************************************************************)
(* The speed the planner sends, for every set of paths, plan speeds and    *)
(* rates, and its collision check, for every leg and every box.            *)
(***************************************************************************)
EXTENDS PlanningControl, WellFoundedInduction, TLAPS

\* A set of numbers that is not empty has a least one.
LEMMA LeastNumber ==
  ASSUME NEW S, S \subseteq Nat, S # {}
  PROVE  \E m \in S : \A n \in S : m <= n
<1>1. PICK m \in S : \A n \in S : ~(<<n, m>> \in OpToRel(<, Nat))
  BY NatLessThanWellFounded, WFMin
<1>2. \A n \in S : ~(n < m)
  <2>1. SUFFICES ASSUME NEW n \in S, n < m PROVE FALSE
    OBVIOUS
  <2>2. n \in Nat /\ m \in Nat
    OBVIOUS
  <2>3. <<n, m>> \in OpToRel(<, Nat)
    BY <2>1, <2>2 DEF OpToRel
  <2> QED
    BY <1>1, <2>3
<1> QED
  BY <1>2

\* For every distance there is a greatest speed that stops within it.
LEMMA BrakingSpeedStops ==
  ASSUME NEW d \in Nat
  PROVE  /\ BrakingSpeed(d) \in Nat
         /\ BrakingSpeed(d) * BrakingSpeed(d) <= 2 * Decel * d
<1> DEFINE room == 2 * Decel * d
           S    == {v \in Nat : (v + 1) * (v + 1) > room}
<1>1. room \in Nat
  BY PlanningAssumption
<1>2. room \in S
  <2> HIDE DEF room
  <2>1. (room + 1) * (room + 1) = room * room + 2 * room + 1 /\ room * room >= 0
    BY <1>1
  <2>2. (room + 1) * (room + 1) > room
    BY <1>1, <2>1
  <2> QED
    BY <1>1, <2>2
<1>3. PICK m \in S : \A n \in S : m <= n
  BY <1>2, LeastNumber
<1>4. m \in 0 .. room
  BY <1>1, <1>2, <1>3
<1>5. m * m <= room
  <2>1. CASE m = 0
    BY <1>1, <2>1
  <2>2. CASE m # 0
    <3>1. m - 1 \in Nat
      BY <2>2
    <3>2. m - 1 \notin S
      <4> HIDE DEF S
      <4> QED
        BY <1>1, <1>3, <1>4, <3>1
    <3>3. ~(m * m > room)
      <4>1. (m - 1) + 1 = m
        BY <3>1
      <4> QED
        BY <3>1, <3>2, <4>1
    <3> QED
      BY <1>1, <3>3
  <2> QED
    BY <2>1, <2>2
<1>6. \E v \in 0 .. 2 * Decel * d :
        v * v <= 2 * Decel * d /\ (v + 1) * (v + 1) > 2 * Decel * d
  BY <1>3, <1>4, <1>5
<1>7. BrakingSpeed(d) \in 0 .. 2 * Decel * d /\ BrakingSpeed(d) * BrakingSpeed(d) <= 2 * Decel * d
  BY <1>6 DEF BrakingSpeed
<1> QED
  BY <1>1, <1>7

\* The smaller square has the smaller root.
LEMMA RootsCompare ==
  ASSUME NEW b \in Nat, NEW v \in Nat, b * b < v * v
  PROVE  b < v
<1> SUFFICES ASSUME b >= v PROVE FALSE
  OBVIOUS
<1>1. b * b >= v * b /\ v * b >= v * v
  OBVIOUS
<1> QED
  BY <1>1

-----------------------------------------------------------------------------
(* Types. *)

LEMMA PathFacts ==
  ASSUME NEW path \in Usable, NEW place \in Places
  PROVE  /\ Goal(path) \in Int
         /\ Way(path) \in {-1, 1}
         /\ Ahead(path, place) \in Int
         /\ GetRemainDistance(path, place) \in Int
<1>1. path \in Seq(Int) /\ Len(path) >= 2 /\ place \in Int
  BY PlanningAssumption DEF Usable
<1>2. Len(path) \in Nat /\ Len(path) \in 1 .. Len(path) /\ Len(path) - 1 \in 1 .. Len(path)
  BY <1>1
<1>3. path[Len(path)] \in Int /\ path[Len(path) - 1] \in Int
  BY <1>1, <1>2
<1>4. Way(path) \in {-1, 1}
  BY DEF Way
<1>5. Goal(path) \in Int
  BY <1>3 DEF Goal
<1>6. ASSUME NEW p \in Int
      PROVE  Ahead(path, p) \in Int
  <2>1. Way(path) = 1 \/ Way(path) = -1
    BY <1>4
  <2>2. Ahead(path, p) = Goal(path) - p \/ Ahead(path, p) = -(Goal(path) - p)
    <3>1. CASE Way(path) = 1
      BY <1>5, <3>1 DEF Ahead
    <3>2. CASE Way(path) = -1
      BY <1>5, <3>2 DEF Ahead
    <3>3. QED
      BY <2>1, <3>1, <3>2
  <2>3. QED
    BY <1>5, <2>2
<1>7. Ahead(path, place) \in Int /\ LastLeg(path) \in Int
  BY <1>1, <1>3, <1>6 DEF LastLeg
<1>8. GetRemainDistance(path, place) \in Int
  BY <1>7 DEF GetRemainDistance
<1> QED
  BY <1>4, <1>5, <1>7, <1>8

\* The speed that is remembered stays in its range, for every distance and every plan.
LEMMA SpeedInRange ==
  ASSUME current_target_speed \in SpeedRange, NEW r \in Nat, NEW v \in PlanSpeeds
  PROVE  CalcSpeedCommand(r, v) \in SpeedRange
<1>1. /\ v \in Int /\ v <= TopSpeed /\ -v \in Int
      /\ Accel \in Nat \ {0} /\ Slowdown \in Nat \ {0} /\ TopSpeed \in Nat
      /\ current_target_speed \in Nat
  BY PlanningAssumption DEF SpeedRange
<1>2. CASE 2 * Decel * r < v * v
  <2> DEFINE b == BrakingSpeed(r)
  <2>1. b \in Nat /\ b * b <= 2 * Decel * r /\ 2 * Decel * r \in Nat /\ v * v \in Int
    <3>1. b \in Nat /\ b * b <= 2 * Decel * r
      BY BrakingSpeedStops
    <3>2. Decel \in Nat /\ 2 * Decel \in Nat
      BY PlanningAssumption
    <3>3. 2 * Decel * r \in Nat
      BY <3>2
    <3>4. v * v \in Int
      BY <1>1
    <3> QED
      BY <3>1, <3>3, <3>4
  <2>2. CalcSpeedCommand(r, v) = b
    BY <1>2 DEF CalcSpeedCommand
  <2> HIDE DEF b
  <2>3. b * b < v * v /\ v * v = (-v) * (-v)
    BY <1>1, <1>2, <2>1
  <2>4. CASE v >= 0
    <3>1. b < v
      BY <1>1, <2>1, <2>3, <2>4, RootsCompare
    <3> QED
      BY <1>1, <2>1, <2>2, <3>1 DEF SpeedRange
  <2>5. CASE v < 0
    <3>1. b < -v
      BY <1>1, <2>1, <2>3, <2>5, RootsCompare
    <3> QED
      BY <2>1, <2>2, <3>1 DEF SpeedRange
  <2> QED
    BY <1>1, <2>4, <2>5
<1>3. CASE ~(2 * Decel * r < v * v) /\ current_target_speed < v
  <2>1. CalcSpeedCommand(r, v) \in Nat /\ CalcSpeedCommand(r, v) <= v
    BY <1>1, <1>3 DEF CalcSpeedCommand
  <2> QED
    BY <1>1, <2>1 DEF SpeedRange
<1>4. CASE ~(2 * Decel * r < v * v) /\ ~(current_target_speed < v)
  <2>1. CalcSpeedCommand(r, v) \in Nat /\ CalcSpeedCommand(r, v) <= current_target_speed
    BY <1>1, <1>4 DEF CalcSpeedCommand
  <2>2. \A w \in PlanSpeeds : current_target_speed < -w => CalcSpeedCommand(r, v) < -w
    BY <1>1, <2>1, PlanningAssumption
  <2>3. current_target_speed <= TopSpeed => CalcSpeedCommand(r, v) <= TopSpeed
    BY <1>1, <2>1
  <2>4. current_target_speed <= TopSpeed \/ \E w \in PlanSpeeds : current_target_speed < -w
    BY DEF SpeedRange
  <2> QED
    BY <2>1, <2>2, <2>3, <2>4 DEF SpeedRange
<1> QED
  BY <1>2, <1>3, <1>4

LEMMA ZeroIsInRange == 0 \in SpeedRange
  BY PlanningAssumption DEF SpeedRange

LEMMA TypeOKStep == TypeOK /\ [Next]_vars => TypeOK'
<1> SUFFICES ASSUME TypeOK, [Next]_vars PROVE TypeOK'
  OBVIOUS
<1> USE DEF TypeOK
<1>1. CASE NavStateCallback
  <2>1. /\ UNCHANGED <<global_path, current_frenet_path, car>>
        /\ nav_sample_count' \in 0 .. Period - 1
        /\ current_state' \in Places \cup {Unset}
    BY <1>1, PlanningAssumption DEF NavStateCallback
  <2>2. /\ current_target_speed' \in SpeedRange
        /\ command' \in [speed : SpeedRange, way : {-1, 1}]
    <3>1. CASE UNCHANGED <<current_target_speed, command>>
      BY <3>1
    <3>2. CASE UNCHANGED current_target_speed /\ command' = [command EXCEPT !.speed = 0]
      BY <3>2, ZeroIsInRange
    <3>3. CASE /\ global_path # NoPath /\ current_frenet_path # NoPlan
               /\ GenerateMotionCommand(car)
               /\ Goal(global_path) # car
      <4> DEFINE ahead  == GetRemainDistance(global_path, car)
                 remain == IF ahead < 0 THEN 0 ELSE ahead
      <4>1. global_path \in Usable /\ current_frenet_path \in Plans
        BY <3>3
      <4>2. remain \in Nat
        BY <4>1, PathFacts
      <4>3. current_frenet_path.speed \in PlanSpeeds /\ current_frenet_path.path \in Usable
        BY <4>1 DEF Plans
      <4>4. /\ current_target_speed' = CalcSpeedCommand(remain, current_frenet_path.speed)
            /\ command' = [speed |-> current_target_speed', way |-> Way(current_frenet_path.path)]
        BY <3>3 DEF GenerateMotionCommand
      <4>5. Way(current_frenet_path.path) \in {-1, 1}
        BY DEF Way
      <4>6. CalcSpeedCommand(remain, current_frenet_path.speed) \in SpeedRange
        <5> HIDE DEF remain
        <5> QED
          BY <4>2, <4>3, SpeedInRange
      <4> QED
        BY <4>4, <4>5, <4>6
    <3> QED
      BY <1>1, <3>1, <3>2, <3>3 DEF NavStateCallback, GenerateMotionCommand
  <2> QED
    BY <2>1, <2>2
<1>2. CASE BoundingBoxesCallback
  <2>1. current_frenet_path' \in Plans \cup {NoPlan}
    BY <1>2 DEF BoundingBoxesCallback, Planning, Plans
  <2> QED
    BY <1>2, <2>1 DEF BoundingBoxesCallback
<1>3. ASSUME NEW path \in Paths, GlobalPathCallback(path) PROVE TypeOK'
  <2>1. path \in Seq(Int)
    BY PlanningAssumption
  <2>2. Len(path) < 2 \/ path \in Usable
    BY <2>1 DEF Usable
  <2> QED
    BY <1>3, <2>2 DEF GlobalPathCallback
<1>4. CASE Drive
  BY <1>4 DEF Drive
<1>5. CASE UNCHANGED vars
  BY <1>5 DEF vars
<1> QED
  BY <1>1, <1>2, <1>3, <1>4, <1>5 DEF Next

\* CalcSpeedCommand: whatever paths, plans and places follow each other, negative plan
\* speeds and places past the end among them, the speed sent is never negative, and over
\* the top speed only below the size of a speed some plan asks for backwards.
THEOREM PlanningTyping == Spec => []TypeOK
<1>1. Init => TypeOK
  BY PlanningAssumption, ZeroIsInRange DEF Init, TypeOK
<1> QED
  BY <1>1, TypeOKStep, PTL DEF Spec

-----------------------------------------------------------------------------
(* Braking. *)

\* A speed that the ramp reaches is within the plan's, one that is over it falls.
LEMMA SpeedStopsOrFalls ==
  ASSUME current_target_speed \in Nat, NEW r \in Nat, NEW v \in PlanSpeeds,
         NEW s, s = CalcSpeedCommand(r, v)
  PROVE  s * s <= 2 * Decel * r \/ s < current_target_speed
<1>1. /\ v \in Int /\ v <= TopSpeed /\ Accel \in Nat \ {0} /\ Slowdown \in Nat \ {0}
      /\ TopSpeed \in Nat /\ 2 * Decel * r \in Nat
  BY PlanningAssumption
<1>2. CASE 2 * Decel * r < v * v
  BY <1>2, BrakingSpeedStops DEF CalcSpeedCommand
<1>3. CASE ~(2 * Decel * r < v * v)
  <2>1. v * v <= 2 * Decel * r
    BY <1>1, <1>3
  <2>2. CASE current_target_speed > v
    BY <1>1, <1>3, <2>2 DEF CalcSpeedCommand
  <2>3. CASE ~(current_target_speed > v)
    <3>1. s \in Int /\ 0 <= s /\ s <= v
      BY <1>1, <1>3, <2>3 DEF CalcSpeedCommand
    <3>2. s * s <= v * v
      BY <1>1, <3>1
    <3>3. s * s \in Int /\ v * v \in Int
      BY <1>1, <3>1
    <3> QED
      BY <1>1, <2>1, <3>2, <3>3
  <2> QED
    BY <2>2, <2>3
<1> QED
  BY <1>2, <1>3

LEMMA BrakesStep ==
  ASSUME TypeOK, NavStateCallback, nav_sample_count' = 0, global_path # NoPath,
         Ahead(global_path, car) >= 0
  PROVE  \/ command'.speed * command'.speed <= 2 * Decel * Ahead(global_path, car)
         \/ command'.speed < current_target_speed
<1> DEFINE ahead == Ahead(global_path, car)
<1>1. global_path \in Usable /\ car \in Places /\ ahead \in Nat
  BY PathFacts DEF TypeOK
<1>3. GenerateMotionCommand(car)
  BY PlanningAssumption DEF NavStateCallback, TypeOK
<1>4. CASE command' = [command EXCEPT !.speed = 0]
  <2>1. command'.speed = 0
    BY <1>4 DEF TypeOK
  <2>2. 0 <= 2 * Decel * ahead
    BY <1>1, PlanningAssumption
  <2> QED
    BY <2>1, <2>2
<1>5. CASE /\ current_frenet_path # NoPlan
           /\ command'.speed = CalcSpeedCommand(ahead, current_frenet_path.speed)
  <2>1. current_frenet_path.speed \in PlanSpeeds
    BY <1>5 DEF TypeOK, Plans
  <2> HIDE DEF ahead
  <2>2. \/ command'.speed * command'.speed <= 2 * Decel * ahead
        \/ command'.speed < current_target_speed
    BY <1>1, <1>5, <2>1, SpeedStopsOrFalls DEF TypeOK, SpeedRange
  <2> QED
    BY <2>2 DEF ahead
<1>6. GetRemainDistance(global_path, car) = ahead
  BY <1>1 DEF GetRemainDistance
<1> QED
  BY <1>1, <1>3, <1>4, <1>5, <1>6 DEF GenerateMotionCommand

\* GenerateMotionCommand, for every set of paths, plan speeds and rates: up to the end
\* of the path in force, a speed that is sent lets the car stop before that end or is
\* lower than the speed remembered.
THEOREM PlanningBrakes == Spec => BrakesForTheEnd
<1>1. TypeOK /\ [Next]_vars =>
        [ LET ahead == Ahead(global_path, car)
          IN NavStateCallback /\ nav_sample_count' = 0 /\ global_path # NoPath /\ ahead >= 0
               => \/ command'.speed * command'.speed <= 2 * Decel * ahead
                  \/ command'.speed < current_target_speed ]_vars
  BY BrakesStep
<1>2. Spec => []TypeOK
  BY PlanningTyping
<1> QED
  BY <1>1, <1>2, PTL DEF Spec, BrakesForTheEnd

-----------------------------------------------------------------------------
(* The collision check.  A corner is on one side of the line of a leg or   *)
(* on the other, and the numerators and the denominator of DoIntersect are *)
(* such sides and their differences.                                       *)

\* Which side of the line from p to q the point (x, y) is on.
SideOfLine(px, py, qx, qy, x, y) == (qx - px) * (y - py) - (qy - py) * (x - px)

\* The signs of m and n differ, or one of them is zero.
Opposite(m, n) == (m <= 0 /\ 0 <= n) \/ (n <= 0 /\ 0 <= m)

Across(m, n) == m # n /\ Opposite(m, n)

\* The side is a number, and the signs of products.
LEMMA SideIsInt ==
  ASSUME NEW px \in Int, NEW py \in Int, NEW qx \in Int, NEW qy \in Int,
         NEW x \in Int, NEW y \in Int
  PROVE  SideOfLine(px, py, qx, qy, x, y) \in Int
  BY DEF SideOfLine

LEMMA ProductSigns ==
  ASSUME NEW m \in Int, NEW n \in Int
  PROVE  /\ m * n \in Int
         /\ (m >= 0 /\ n >= 0) \/ (m <= 0 /\ n <= 0) => m * n >= 0
         /\ (m >= 0 /\ n <= 0) \/ (m <= 0 /\ n >= 0) => m * n <= 0
         /\ m * n = 0 <=> m = 0 \/ n = 0
  OBVIOUS

Ground == [x : Int, y : Int]

Side(p, q, c) == SideOfLine(p.x, p.y, q.x, q.y, c.x, c.y)

\* The quotient of a side and the difference of two lies between 0 and 1.
LEMMA FractionIs ==
  ASSUME NEW m \in Int, NEW n \in Int
  PROVE  /\ n # m => (IsFraction(-m, n - m) <=> Opposite(m, n))
         /\ n # m => (IsFraction(m, m - n) <=> Opposite(m, n))
  BY DEF IsFraction, Opposite

\* The cross products of DoIntersect as sides of the two lines.
LEMMA CrossesAre ==
  ASSUME NEW p \in Ground, NEW q \in Ground, NEW c \in Ground, NEW d \in Ground
  PROVE  LET r == Minus(q, p)
             s == Minus(d, c)
             from == Minus(c, p)
         IN /\ Cross(r, s) = Side(p, q, d) - Side(p, q, c)
            /\ Cross(r, s) = Side(c, d, p) - Side(c, d, q)
            /\ Cross(from, r) = -Side(p, q, c)
            /\ Cross(from, s) = Side(c, d, p)
<1>1. /\ p.x \in Int /\ p.y \in Int /\ q.x \in Int /\ q.y \in Int
      /\ c.x \in Int /\ c.y \in Int /\ d.x \in Int /\ d.y \in Int
  BY DEF Ground
<1> DEFINE a == q.x - p.x
           b == q.y - p.y
<1>2. /\ Minus(q, p).x = q.x - p.x /\ Minus(q, p).y = q.y - p.y
      /\ Minus(d, c).x = d.x - c.x /\ Minus(d, c).y = d.y - c.y
      /\ Minus(c, p).x = c.x - p.x /\ Minus(c, p).y = c.y - p.y
  BY DEF Minus, Point
<1>3. /\ Cross(Minus(q, p), Minus(d, c)) = (q.x - p.x) * (d.y - c.y) - (q.y - p.y) * (d.x - c.x)
      /\ Cross(Minus(c, p), Minus(q, p)) = (c.x - p.x) * (q.y - p.y) - (c.y - p.y) * (q.x - p.x)
      /\ Cross(Minus(c, p), Minus(d, c)) = (c.x - p.x) * (d.y - c.y) - (c.y - p.y) * (d.x - c.x)
  BY <1>2 DEF Cross
<1>4. QED
  BY <1>1, <1>3 DEF Side, SideOfLine

\* The test of two segments: they are not parallel, and the ends of each are on different
\* sides of the other, or on it.
LEMMA IntersectIs ==
  ASSUME NEW p \in Ground, NEW q \in Ground, NEW c \in Ground, NEW d \in Ground
  PROVE  DoIntersect(p, q, c, d) <=>
           /\ Across(Side(p, q, c), Side(p, q, d))
           /\ Opposite(Side(c, d, p), Side(c, d, q))
<1> DEFINE m == Side(p, q, c)
           n == Side(p, q, d)
           k == Side(c, d, p)
           l == Side(c, d, q)
<1>1. m \in Int /\ n \in Int /\ k \in Int /\ l \in Int
  BY SideIsInt DEF Side, Ground
<1>2. /\ Cross(Minus(q, p), Minus(d, c)) = n - m
      /\ Cross(Minus(q, p), Minus(d, c)) = k - l
      /\ Cross(Minus(c, p), Minus(q, p)) = -m
      /\ Cross(Minus(c, p), Minus(d, c)) = k
  BY CrossesAre
<1> HIDE DEF m, n, k, l
<1>3. n - m = k - l /\ (n - m # 0 <=> m # n)
  BY <1>1, <1>2
<1>4. DoIntersect(p, q, c, d) <=>
        n - m # 0 /\ IsFraction(-m, n - m) /\ IsFraction(k, k - l)
  BY <1>2, <1>3 DEF DoIntersect
<1>5. CASE m = n
  <2>1. ~DoIntersect(p, q, c, d) /\ ~Across(m, n)
    BY <1>3, <1>4, <1>5 DEF Across
  <2>2. QED
    BY <2>1 DEF m, n
<1>6. CASE m # n
  <2>1. k # l
    BY <1>1, <1>3, <1>6
  <2>2. IsFraction(-m, n - m) <=> Opposite(m, n)
    BY <1>1, <1>6, FractionIs
  <2>3. IsFraction(k, k - l) <=> Opposite(k, l)
    BY <1>1, <2>1, FractionIs
  <2>4. n - m # 0
    BY <1>3, <1>6
  <2>5. DoIntersect(p, q, c, d) <=> Opposite(m, n) /\ Opposite(k, l)
    BY <1>4, <2>2, <2>3, <2>4
  <2>6. Across(m, n) <=> Opposite(m, n)
    BY <1>6 DEF Across
  <2>7. QED
    BY <2>5, <2>6 DEF m, n, k, l
<1>7. QED
  BY <1>5, <1>6

\* The leg from (px, py) to (qx, qy) intersects an edge of the box a .. b by c .. d.
Hits(px, py, qx, qy, a, b, c, d) ==
  LET S(x, y) == SideOfLine(px, py, qx, qy, x, y)
  IN \/ Across(S(a, c), S(b, c)) /\ Opposite(py - c, qy - c)
     \/ Across(S(b, c), S(b, d)) /\ Opposite(px - b, qx - b)
     \/ Across(S(a, d), S(b, d)) /\ Opposite(py - d, qy - d)
     \/ Across(S(a, c), S(a, d)) /\ Opposite(px - a, qx - a)

\* No side of the box separates it from the leg, nor does the line of the leg.
Reaches(px, py, qx, qy, a, b, c, d) ==
  LET S(x, y) == SideOfLine(px, py, qx, qy, x, y)
  IN /\ ~(px < a /\ qx < a) /\ ~(px > b /\ qx > b)
     /\ ~(py < c /\ qy < c) /\ ~(py > d /\ qy > d)
     /\ ~(S(a, c) > 0 /\ S(b, c) > 0 /\ S(b, d) > 0 /\ S(a, d) > 0)
     /\ ~(S(a, c) < 0 /\ S(b, c) < 0 /\ S(b, d) < 0 /\ S(a, d) < 0)

\* An end is outside.
Enters(px, py, qx, qy, a, b, c, d) ==
  ~(/\ px \in a .. b /\ py \in c .. d
    /\ qx \in a .. b /\ qy \in c .. d)

\* What must not be.
Missed(px, py, qx, qy, a, b, c, d) ==
  /\ px # qx \/ py # qy
  /\ Enters(px, py, qx, qy, a, b, c, d) /\ Reaches(px, py, qx, qy, a, b, c, d)
  /\ ~Hits(px, py, qx, qy, a, b, c, d)

\* A leg that goes up and to the right: beginning or ending outside, it leaves one end on
\* the left, below, on the right or above, and the corners next to that edge lie on
\* different sides of it.
LEMMA RisingLegIsFound ==
  ASSUME NEW px \in Int, NEW py \in Int, NEW qx \in Int, NEW qy \in Int,
         NEW a \in Int, NEW b \in Int, NEW c \in Int, NEW d \in Int,
         a < b, c < d, px <= qx, py <= qy
  PROVE  ~Missed(px, py, qx, qy, a, b, c, d)
<1> SUFFICES ASSUME px # qx \/ py # qy, Enters(px, py, qx, qy, a, b, c, d),
                    Reaches(px, py, qx, qy, a, b, c, d)
             PROVE  Hits(px, py, qx, qy, a, b, c, d)
  BY DEF Missed
<1> DEFINE s1 == SideOfLine(px, py, qx, qy, a, c)
           s2 == SideOfLine(px, py, qx, qy, b, c)
           s3 == SideOfLine(px, py, qx, qy, b, d)
           s4 == SideOfLine(px, py, qx, qy, a, d)
           u == qx - px
           v == qy - py
           high == v * (b - a)
           wide == u * (d - c)
<1>1. /\ s1 \in Int /\ s2 \in Int /\ s3 \in Int /\ s4 \in Int
      /\ s1 - s2 = high /\ s4 - s3 = high /\ s4 - s1 = wide /\ s3 - s2 = wide
      /\ s1 = u * (c - py) - v * (a - px) /\ s3 = u * (d - qy) - v * (b - qx)
  <2>1. s1 \in Int /\ s2 \in Int /\ s3 \in Int /\ s4 \in Int
    BY SideIsInt
  <2>2. s1 - s2 = high /\ s4 - s3 = high
    BY DEF SideOfLine
  <2>3. s4 - s1 = wide /\ s3 - s2 = wide
    BY DEF SideOfLine
  <2>4. s1 = u * (c - py) - v * (a - px)
    BY DEF SideOfLine
  <2>5. s3 = u * (d - qy) - v * (b - qx)
    BY DEF SideOfLine
  <2>6. QED
    BY <2>1, <2>2, <2>3, <2>4, <2>5
<1>2. u \in Int /\ v \in Int /\ u >= 0 /\ v >= 0 /\ high \in Int /\ wide \in Int
  OBVIOUS
<1>3. (v > 0 => high > 0) /\ (u > 0 => wide > 0) /\ high >= 0 /\ wide >= 0
  BY <1>2, ProductSigns
<1>4. /\ px <= b /\ qx >= a /\ py <= d /\ qy >= c
      /\ ~(s1 > 0 /\ s2 > 0 /\ s3 > 0 /\ s4 > 0) /\ ~(s1 < 0 /\ s2 < 0 /\ s3 < 0 /\ s4 < 0)
  BY DEF Reaches
<1>5. px < a \/ py < c \/ qx > b \/ qy > d
  BY <1>4 DEF Enters
<1>6. \/ Across(s1, s2) /\ Opposite(py - c, qy - c)
      \/ Across(s2, s3) /\ Opposite(px - b, qx - b)
      \/ Across(s4, s3) /\ Opposite(py - d, qy - d)
      \/ Across(s1, s4) /\ Opposite(px - a, qx - a)
      => Hits(px, py, qx, qy, a, b, c, d)
  BY DEF Hits
<1>7. /\ px >= a /\ py < c => s1 >= 0
      /\ px < a /\ py >= c => s1 <= 0
      /\ qx <= b /\ qy > d => s3 <= 0
      /\ qx > b /\ qy <= d => s3 >= 0
  <2>1. ASSUME px >= a, py < c PROVE s1 >= 0
    <3>1. u * (c - py) >= 0 /\ v * (a - px) <= 0 /\ u * (c - py) \in Int /\ v * (a - px) \in Int
      BY <1>2, <2>1, ProductSigns
    <3>2. QED
      BY <1>1, <3>1
  <2>2. ASSUME px < a, py >= c PROVE s1 <= 0
    <3>1. u * (c - py) <= 0 /\ v * (a - px) >= 0 /\ u * (c - py) \in Int /\ v * (a - px) \in Int
      BY <1>2, <2>2, ProductSigns
    <3>2. QED
      BY <1>1, <3>1
  <2>3. ASSUME qx <= b, qy > d PROVE s3 <= 0
    <3>1. u * (d - qy) <= 0 /\ v * (b - qx) >= 0 /\ u * (d - qy) \in Int /\ v * (b - qx) \in Int
      BY <1>2, <2>3, ProductSigns
    <3>2. QED
      BY <1>1, <3>1
  <2>4. ASSUME qx > b, qy <= d PROVE s3 >= 0
    <3>1. u * (d - qy) >= 0 /\ v * (b - qx) <= 0 /\ u * (d - qy) \in Int /\ v * (b - qx) \in Int
      BY <1>2, <2>4, ProductSigns
    <3>2. QED
      BY <1>1, <3>1
  <2>5. QED
    BY <2>1, <2>2, <2>3, <2>4
<1> HIDE DEF s1, s2, s3, s4, high, wide
<1>8. s2 <= 0 /\ s4 >= 0
  BY <1>1, <1>2, <1>3, <1>4
<1>9. CASE py < c /\ s1 >= 0
  <2>1. s1 - s2 > 0
    BY <1>1, <1>3, <1>4, <1>9
  <2>2. Across(s1, s2) /\ Opposite(py - c, qy - c)
    BY <1>1, <1>4, <1>8, <1>9, <2>1 DEF Across, Opposite
  <2>3. QED
    BY <1>6, <2>2
<1>10. CASE px < a /\ s1 <= 0
  <2>1. s4 - s1 > 0
    BY <1>1, <1>3, <1>4, <1>10
  <2>2. Across(s1, s4) /\ Opposite(px - a, qx - a)
    BY <1>1, <1>4, <1>8, <1>10, <2>1 DEF Across, Opposite
  <2>3. QED
    BY <1>6, <2>2
<1>11. CASE qy > d /\ s3 <= 0
  <2>1. s4 - s3 > 0
    BY <1>1, <1>3, <1>4, <1>11
  <2>2. Across(s4, s3) /\ Opposite(py - d, qy - d)
    BY <1>1, <1>4, <1>8, <1>11, <2>1 DEF Across, Opposite
  <2>3. QED
    BY <1>6, <2>2
<1>12. CASE qx > b /\ s3 >= 0
  <2>1. s3 - s2 > 0
    BY <1>1, <1>3, <1>4, <1>12
  <2>2. Across(s2, s3) /\ Opposite(px - b, qx - b)
    BY <1>1, <1>4, <1>8, <1>12, <2>1 DEF Across, Opposite
  <2>3. QED
    BY <1>6, <2>2
<1>13. \/ py < c /\ s1 >= 0
       \/ px < a /\ s1 <= 0
       \/ qy > d /\ s3 <= 0
       \/ qx > b /\ s3 >= 0
  BY <1>1, <1>5, <1>7
<1>14. QED
  BY <1>9, <1>10, <1>11, <1>12, <1>13

\* Any other leg is one that rises, seen from its other end or in a mirror.
LEMMA SwappedIsMissed ==
  ASSUME NEW px \in Int, NEW py \in Int, NEW qx \in Int, NEW qy \in Int,
         NEW a \in Int, NEW b \in Int, NEW c \in Int, NEW d \in Int,
         Missed(px, py, qx, qy, a, b, c, d)
  PROVE  Missed(qx, qy, px, py, a, b, c, d)
<1> DEFINE S(x, y) == SideOfLine(px, py, qx, qy, x, y)
           T(x, y) == SideOfLine(qx, qy, px, py, x, y)
<1>1. /\ S(a, c) \in Int /\ S(b, c) \in Int /\ S(b, d) \in Int /\ S(a, d) \in Int
      /\ T(a, c) = -S(a, c) /\ T(b, c) = -S(b, c) /\ T(b, d) = -S(b, d) /\ T(a, d) = -S(a, d)
  <2>1. ASSUME NEW x \in Int, NEW y \in Int
        PROVE  S(x, y) \in Int /\ T(x, y) = -S(x, y)
    <3>1. S(x, y) \in Int
      BY SideIsInt
    <3>2. T(x, y) = -S(x, y)
      BY DEF SideOfLine
    <3>3. QED
      BY <3>1, <3>2
  <2> HIDE DEF S, T
  <2>2. QED
    BY <2>1
<1>2. Enters(qx, qy, px, py, a, b, c, d) /\ (qx # px \/ qy # py)
  BY DEF Missed, Enters
<1>3. Reaches(qx, qy, px, py, a, b, c, d)
  BY <1>1 DEF Missed, Reaches
<1>4. ~Hits(qx, qy, px, py, a, b, c, d)
  BY <1>1 DEF Missed, Hits, Across, Opposite
<1>5. QED
  BY <1>2, <1>3, <1>4 DEF Missed

LEMMA MirroredIsMissed ==
  ASSUME NEW px \in Int, NEW py \in Int, NEW qx \in Int, NEW qy \in Int,
         NEW a \in Int, NEW b \in Int, NEW c \in Int, NEW d \in Int,
         Missed(px, py, qx, qy, a, b, c, d)
  PROVE  Missed(-px, py, -qx, qy, -b, -a, c, d)
<1> DEFINE S(x, y) == SideOfLine(px, py, qx, qy, x, y)
           T(x, y) == SideOfLine(-px, py, -qx, qy, x, y)
<1>1. /\ S(a, c) \in Int /\ S(b, c) \in Int /\ S(b, d) \in Int /\ S(a, d) \in Int
      /\ T(-a, c) = -S(a, c) /\ T(-b, c) = -S(b, c) /\ T(-b, d) = -S(b, d) /\ T(-a, d) = -S(a, d)
  <2>1. ASSUME NEW x \in Int, NEW y \in Int
        PROVE  S(x, y) \in Int /\ T(-x, y) = -S(x, y)
    <3>1. S(x, y) \in Int
      BY SideIsInt
    <3>2. T(-x, y) = -S(x, y)
      BY DEF SideOfLine
    <3>3. QED
      BY <3>1, <3>2
  <2> HIDE DEF S, T
  <2>2. QED
    BY <2>1
<1>2. Enters(-px, py, -qx, qy, -b, -a, c, d) /\ (-px # -qx \/ py # qy)
  BY DEF Missed, Enters
<1>3. Reaches(-px, py, -qx, qy, -b, -a, c, d)
  BY <1>1 DEF Missed, Reaches
<1>4. ~Hits(-px, py, -qx, qy, -b, -a, c, d)
  BY <1>1 DEF Missed, Hits, Across, Opposite
<1>5. QED
  BY <1>2, <1>3, <1>4 DEF Missed

\* No leg that has an end outside and reaches the box gets past the edges.
LEMMA NoLegIsMissed ==
  ASSUME NEW px \in Int, NEW py \in Int, NEW qx \in Int, NEW qy \in Int,
         NEW a \in Int, NEW b \in Int, NEW c \in Int, NEW d \in Int, a < b, c < d
  PROVE  ~Missed(px, py, qx, qy, a, b, c, d)
<1>1. ASSUME NEW x1 \in Int, NEW y1 \in Int, NEW x2 \in Int, NEW y2 \in Int, y1 <= y2
      PROVE  ~Missed(x1, y1, x2, y2, a, b, c, d)
  <2>1. CASE x1 <= x2
    BY <1>1, <2>1, RisingLegIsFound
  <2>2. CASE ~(x1 <= x2)
    <3>1. -x1 <= -x2 /\ -b < -a /\ -x1 \in Int /\ -x2 \in Int /\ -a \in Int /\ -b \in Int
      BY <2>2
    <3>2. ~Missed(-x1, y1, -x2, y2, -b, -a, c, d)
      BY <1>1, <3>1, RisingLegIsFound
    <3>3. QED
      BY <3>2, MirroredIsMissed
  <2>3. QED
    BY <2>1, <2>2
<1>2. CASE py <= qy
  BY <1>1, <1>2
<1>3. CASE qy <= py
  <2>1. ~Missed(qx, qy, px, py, a, b, c, d)
    BY <1>1, <1>3
  <2>2. QED
    BY <2>1, SwappedIsMissed
<1>4. QED
  BY <1>2, <1>3

\* A leg that is beyond x1 and x2 does not cross what lies between them at height h.
LEMMA NotBeside ==
  ASSUME NEW px \in Int, NEW py \in Int, NEW qx \in Int, NEW qy \in Int,
         NEW x1 \in Int, NEW x2 \in Int, NEW h \in Int,
         Across(SideOfLine(px, py, qx, qy, x1, h), SideOfLine(px, py, qx, qy, x2, h)),
         Opposite(py - h, qy - h)
  PROVE  /\ ~(px < x1 /\ qx < x1 /\ px < x2 /\ qx < x2)
         /\ ~(px > x1 /\ qx > x1 /\ px > x2 /\ qx > x2)
<1> DEFINE m == SideOfLine(px, py, qx, qy, x1, h)
           n == SideOfLine(px, py, qx, qy, x2, h)
           k == h - py
           l == h - qy
<1>1. m = (qx - x1) * k + (x1 - px) * l /\ n = (qx - x2) * k + (x2 - px) * l
  BY DEF SideOfLine
<1>2. m \in Int /\ n \in Int /\ k \in Int /\ l \in Int
  <2>1. m \in Int
    BY SideIsInt
  <2>2. n \in Int
    BY SideIsInt
  <2>3. k \in Int /\ l \in Int
    OBVIOUS
  <2>4. QED
    BY <2>1, <2>2, <2>3
<1>3. (k >= 0 /\ l <= 0) \/ (k <= 0 /\ l >= 0)
  BY DEF Opposite
<1>4. m # n /\ Opposite(m, n)
  BY DEF Across
<1> HIDE DEF m, n, k, l
<1> DEFINE a == qx - x1
           b == x1 - px
           c == qx - x2
           d == x2 - px
<1>5. a \in Int /\ b \in Int /\ c \in Int /\ d \in Int
  OBVIOUS
<1>6. m = a * k + b * l /\ n = c * k + d * l
  BY <1>1
<1>7. /\ px < x1 /\ qx < x1 /\ px < x2 /\ qx < x2 => a < 0 /\ b > 0 /\ c < 0 /\ d > 0
      /\ px > x1 /\ qx > x1 /\ px > x2 /\ qx > x2 => a > 0 /\ b < 0 /\ c > 0 /\ d < 0
  OBVIOUS
<1> HIDE DEF a, b, c, d
<1>8. SUFFICES ASSUME (a < 0 /\ b > 0 /\ c < 0 /\ d > 0) \/ (a > 0 /\ b < 0 /\ c > 0 /\ d < 0)
               PROVE  FALSE
  BY <1>7
<1>9. /\ a * k \in Int /\ b * l \in Int /\ c * k \in Int /\ d * l \in Int
      /\ a * k = 0 <=> k = 0
      /\ b * l = 0 <=> l = 0
      /\ c * k = 0 <=> k = 0
      /\ d * l = 0 <=> l = 0
      /\ \/ a * k >= 0 /\ b * l >= 0 /\ c * k >= 0 /\ d * l >= 0
         \/ a * k <= 0 /\ b * l <= 0 /\ c * k <= 0 /\ d * l <= 0
  <2>1. /\ a * k \in Int /\ b * l \in Int /\ c * k \in Int /\ d * l \in Int
        /\ a * k = 0 <=> k = 0
        /\ b * l = 0 <=> l = 0
        /\ c * k = 0 <=> k = 0
        /\ d * l = 0 <=> l = 0
    BY <1>2, <1>5, <1>8, ProductSigns
  <2>2. CASE (a < 0 /\ k >= 0 /\ l <= 0) \/ (a > 0 /\ k <= 0 /\ l >= 0)
    BY <1>2, <1>5, <1>8, <2>2, ProductSigns
  <2>3. CASE (a > 0 /\ k >= 0 /\ l <= 0) \/ (a < 0 /\ k <= 0 /\ l >= 0)
    BY <1>2, <1>5, <1>8, <2>3, ProductSigns
  <2>4. QED
    BY <1>3, <1>8, <2>1, <2>2, <2>3
<1> DEFINE e == a * k
           f == b * l
           g == c * k
           i == d * l
<1>10. m = e + f /\ n = g + i
  BY <1>6
<1> HIDE DEF e, f, g, i
<1>11. (e >= 0 /\ f >= 0 /\ g >= 0 /\ i >= 0) \/ (e <= 0 /\ f <= 0 /\ g <= 0 /\ i <= 0)
  BY <1>9 DEF e, f, g, i
<1>12. (e = 0 <=> g = 0) /\ (f = 0 <=> i = 0) /\ e \in Int /\ f \in Int /\ g \in Int /\ i \in Int
  BY <1>9 DEF e, f, g, i
<1>13. m = 0 /\ n = 0
  BY <1>2, <1>4, <1>10, <1>11, <1>12 DEF Opposite
<1>14. QED
  BY <1>4, <1>13

\* What is hit is reached.
LEMMA HitIsReached ==
  ASSUME NEW px \in Int, NEW py \in Int, NEW qx \in Int, NEW qy \in Int,
         NEW a \in Int, NEW b \in Int, NEW c \in Int, NEW d \in Int, a < b, c < d,
         Hits(px, py, qx, qy, a, b, c, d)
  PROVE  Reaches(px, py, qx, qy, a, b, c, d) /\ (px # qx \/ py # qy)
<1> DEFINE S(x, y) == SideOfLine(px, py, qx, qy, x, y)
           s1 == S(a, c)
           s2 == S(b, c)
           s3 == S(b, d)
           s4 == S(a, d)
<1>1. s1 \in Int /\ s2 \in Int /\ s3 \in Int /\ s4 \in Int
  BY SideIsInt
<1>2. \/ Across(s1, s2) /\ Opposite(py - c, qy - c)
      \/ Across(s2, s3) /\ Opposite(px - b, qx - b)
      \/ Across(s4, s3) /\ Opposite(py - d, qy - d)
      \/ Across(s1, s4) /\ Opposite(px - a, qx - a)
  BY DEF Hits
<1>3. px # qx \/ py # qy
  <2>1. px = qx /\ py = qy => s1 = 0 /\ s2 = 0 /\ s3 = 0 /\ s4 = 0
    BY DEF SideOfLine
  <2> HIDE DEF s1, s2, s3, s4
  <2>2. QED
    BY <1>2, <2>1 DEF Across
<1>4. /\ ~(s1 > 0 /\ s2 > 0 /\ s3 > 0 /\ s4 > 0)
      /\ ~(s1 < 0 /\ s2 < 0 /\ s3 < 0 /\ s4 < 0)
  <2> HIDE DEF s1, s2, s3, s4
  <2>1. QED
    BY <1>1, <1>2 DEF Across, Opposite
<1>5. ASSUME NEW x1 \in {a, b}, NEW x2 \in {a, b}, NEW h \in {c, d},
             Across(S(x1, h), S(x2, h)), Opposite(py - h, qy - h), x1 # x2
      PROVE  /\ ~(px < a /\ qx < a) /\ ~(px > b /\ qx > b)
             /\ ~(py < c /\ qy < c) /\ ~(py > d /\ qy > d)
  <2>0. x1 \in Int /\ x2 \in Int /\ h \in Int
    OBVIOUS
  <2>1. /\ ~(px < x1 /\ qx < x1 /\ px < x2 /\ qx < x2)
        /\ ~(px > x1 /\ qx > x1 /\ px > x2 /\ qx > x2)
    BY <1>5, <2>0, NotBeside
  <2>2. QED
    BY <1>5, <2>1 DEF Opposite
<1>6. ASSUME NEW y1 \in {c, d}, NEW y2 \in {c, d}, NEW w \in {a, b},
             Across(S(w, y1), S(w, y2)), Opposite(px - w, qx - w), y1 # y2
      PROVE  /\ ~(px < a /\ qx < a) /\ ~(px > b /\ qx > b)
             /\ ~(py < c /\ qy < c) /\ ~(py > d /\ qy > d)
  <2>0. y1 \in Int /\ y2 \in Int /\ w \in Int
    OBVIOUS
  <2>1. /\ SideOfLine(py, px, qy, qx, y1, w) = -S(w, y1)
        /\ SideOfLine(py, px, qy, qx, y2, w) = -S(w, y2)
        /\ S(w, y1) \in Int /\ S(w, y2) \in Int
    <3>1. S(w, y1) \in Int /\ S(w, y2) \in Int
      BY <2>0, SideIsInt
    <3>2. SideOfLine(py, px, qy, qx, y1, w) = -S(w, y1)
      BY <2>0 DEF SideOfLine
    <3>3. SideOfLine(py, px, qy, qx, y2, w) = -S(w, y2)
      BY <2>0 DEF SideOfLine
    <3>4. QED
      BY <3>1, <3>2, <3>3
  <2>2. Across(SideOfLine(py, px, qy, qx, y1, w), SideOfLine(py, px, qy, qx, y2, w))
    BY <1>6, <2>1 DEF Across, Opposite
  <2>3. /\ ~(py < y1 /\ qy < y1 /\ py < y2 /\ qy < y2)
        /\ ~(py > y1 /\ qy > y1 /\ py > y2 /\ qy > y2)
    BY <1>6, <2>0, <2>2, NotBeside
  <2>4. QED
    BY <1>6, <2>3 DEF Opposite
<1>7. /\ ~(px < a /\ qx < a) /\ ~(px > b /\ qx > b)
      /\ ~(py < c /\ qy < c) /\ ~(py > d /\ qy > d)
  <2>1. CASE Across(s1, s2) /\ Opposite(py - c, qy - c)
    BY <1>5, <2>1
  <2>2. CASE Across(s2, s3) /\ Opposite(px - b, qx - b)
    BY <1>6, <2>2
  <2>3. CASE Across(s4, s3) /\ Opposite(py - d, qy - d)
    BY <1>5, <2>3
  <2>4. CASE Across(s1, s4) /\ Opposite(px - a, qx - a)
    BY <1>6, <2>4
  <2>5. QED
    BY <1>2, <2>1, <2>2, <2>3, <2>4
<1>8. QED
  BY <1>3, <1>4, <1>7 DEF Reaches

\* A path of one leg is tested against the four edges.
LEMMA EdgesAre ==
  ASSUME NEW p \in Ground, NEW q \in Ground, NEW box, NEW boxes, boxes = {box}
  PROVE  CheckPathCollision(<<p, q>>, boxes) <=>
           LET c == Corners(WithMargin(box))
           IN \/ DoIntersect(p, q, c[1], c[2])
              \/ DoIntersect(p, q, c[2], c[3])
              \/ DoIntersect(p, q, c[3], c[4])
              \/ DoIntersect(p, q, c[4], c[1])
<1> DEFINE path == <<p, q>>
           c == Corners(WithMargin(box))
<1>1. /\ \A i : i \in 1 .. Len(path) - 1 <=> i = 1
      /\ path[1] = p /\ path[1 + 1] = q
  OBVIOUS
<1>2. CheckPathCollision(path, boxes) <=>
        \E i \in 1 .. Len(path) - 1, b \in boxes, k \in 1 .. 4 :
          LET edge == Corners(WithMargin(b))
          IN DoIntersect(path[i], path[i + 1], edge[k], edge[(k % 4) + 1])
  BY DEF CheckPathCollision
<1> HIDE DEF path, c
<1>3. CheckPathCollision(path, boxes) <=>
        \E k \in 1 .. 4 : DoIntersect(p, q, c[k], c[(k % 4) + 1])
  BY <1>1, <1>2 DEF c
<1>4. /\ \A k : k \in 1 .. 4 <=> k \in {1, 2, 3, 4}
      /\ (1 % 4) + 1 = 2 /\ (2 % 4) + 1 = 3 /\ (3 % 4) + 1 = 4 /\ (4 % 4) + 1 = 1
  OBVIOUS
<1>5. QED
  BY <1>3, <1>4 DEF path, c

\* x and y are m and n by l, or by -l.
Scaled(x, y, l, m, n) == (x = l * m /\ y = l * n) \/ (x = -(l * m) /\ y = -(l * n))

\* A positive factor leaves the signs.
LEMMA OppositeScaled ==
  ASSUME NEW l \in Int, l > 0, NEW m \in Int, NEW n \in Int, NEW x, NEW y, Scaled(x, y, l, m, n)
  PROVE  Opposite(x, y) <=> Opposite(m, n)
<1> DEFINE v == l * m
           w == l * n
<1>1. /\ v \in Int /\ w \in Int /\ (v = 0 <=> m = 0) /\ (w = 0 <=> n = 0)
      /\ (m >= 0 => v >= 0) /\ (m <= 0 => v <= 0)
      /\ (n >= 0 => w >= 0) /\ (n <= 0 => w <= 0)
  BY ProductSigns
<1>2. (x = v /\ y = w) \/ (x = -v /\ y = -w)
  BY DEF Scaled
<1> HIDE DEF v, w
<1>3. QED
  BY <1>1, <1>2 DEF Opposite

\* What touches a grown box, in coordinates.
LEMMA TouchesIs ==
  ASSUME NEW p \in Ground, NEW q \in Ground,
         NEW box \in [x_min : Int, x_max : Int, y_min : Int, y_max : Int],
         box.x_min - RobotRadius < box.x_max + RobotRadius,
         box.y_min - RobotRadius < box.y_max + RobotRadius
  PROVE  LET grown == WithMargin(box)
         IN Touches(p, q, grown) <=>
              Reaches(p.x, p.y, q.x, q.y, grown.x_min, grown.x_max, grown.y_min, grown.y_max)
<1> DEFINE grown == WithMargin(box)
           a == grown.x_min
           b == grown.x_max
           c == grown.y_min
           d == grown.y_max
           px == p.x
           py == p.y
           qx == q.x
           qy == q.y
<1>1. /\ a \in Int /\ b \in Int /\ c \in Int /\ d \in Int /\ a < b /\ c < d
      /\ px \in Int /\ py \in Int /\ qx \in Int /\ qy \in Int
      /\ (p # q <=> px # qx \/ py # qy)
  <2>1. RobotRadius \in Nat
    BY CollisionAssumption, Zenon
  <2>2. a \in Int /\ b \in Int /\ c \in Int /\ d \in Int /\ a < b /\ c < d
    BY <2>1 DEF WithMargin
  <2>3. px \in Int /\ py \in Int /\ qx \in Int /\ qy \in Int
    BY DEF Ground
  <2>4. p # q <=> px # qx \/ py # qy
    BY DEF Ground
  <2>5. QED
    BY <2>2, <2>3, <2>4
<1> DEFINE C1 == Point(a, c)
           C2 == Point(b, c)
           C3 == Point(b, d)
           C4 == Point(a, d)
<1>2. /\ Corners(grown)[1] = C1 /\ Corners(grown)[2] = C2
      /\ Corners(grown)[3] = C3 /\ Corners(grown)[4] = C4
  BY DEF Corners
<1>3. /\ C1 \in Ground /\ C2 \in Ground /\ C3 \in Ground /\ C4 \in Ground
      /\ C1.x = a /\ C1.y = c /\ C2.x = b /\ C2.y = c
      /\ C3.x = b /\ C3.y = d /\ C4.x = a /\ C4.y = d
  BY <1>1 DEF Point, Ground
<1> DEFINE S(x, y) == SideOfLine(px, py, qx, qy, x, y)
           s1 == S(a, c)
           s2 == S(b, c)
           s3 == S(b, d)
           s4 == S(a, d)
<1>4. s1 \in Int /\ s2 \in Int /\ s3 \in Int /\ s4 \in Int
  BY <1>1, SideIsInt
<1>5. /\ Side(p, q, C1) = s1 /\ Side(p, q, C2) = s2 /\ Side(p, q, C3) = s3 /\ Side(p, q, C4) = s4
  BY <1>3 DEF Side
<1> HIDE DEF grown, a, b, c, d, px, py, qx, qy, s1, s2, s3, s4, C1, C2, C3, C4
<1>6. Touches(p, q, grown) <=> Reaches(px, py, qx, qy, a, b, c, d)
  <2> DEFINE side == {Cross(Minus(q, p), Minus(Corners(grown)[k], p)) : k \in 1 .. 4}
  <2>1. /\ Cross(Minus(q, p), Minus(C1, p)) = s1 /\ Cross(Minus(q, p), Minus(C2, p)) = s2
        /\ Cross(Minus(q, p), Minus(C3, p)) = s3 /\ Cross(Minus(q, p), Minus(C4, p)) = s4
    <3>1. ASSUME NEW C \in Ground
          PROVE  Cross(Minus(q, p), Minus(C, p)) = Side(p, q, C)
      BY DEF Cross, Minus, Point, Side, SideOfLine, Ground
    <3>2. QED
      BY <1>3, <1>5, <3>1
  <2>2. side = {s1, s2, s3, s4}
    <3>1. \A k : k \in 1 .. 4 <=> k \in {1, 2, 3, 4}
      OBVIOUS
    <3>2. QED
      BY <1>2, <2>1, <3>1
  <2> HIDE DEF side
  <2>3. Touches(p, q, grown) <=>
          /\ ~(px < a /\ qx < a) /\ ~(px > b /\ qx > b)
          /\ ~(py < c /\ qy < c) /\ ~(py > d /\ qy > d)
          /\ ~((\A v \in side : v > 0) \/ (\A v \in side : v < 0))
    BY DEF Touches, side, a, b, c, d, px, py, qx, qy
  <2>4. /\ (\A v \in side : v > 0) <=> s1 > 0 /\ s2 > 0 /\ s3 > 0 /\ s4 > 0
        /\ (\A v \in side : v < 0) <=> s1 < 0 /\ s2 < 0 /\ s3 < 0 /\ s4 < 0
    BY <2>2
  <2>5. QED
    BY <2>3, <2>4 DEF Reaches, s1, s2, s3, s4
<1>7. QED
  BY <1>6 DEF grown, a, b, c, d, px, py, qx, qy

\* The check decides rightly on every leg, for every box that is not flat once it has
\* grown.
LEMMA LegIsJudged ==
  ASSUME NEW p \in Ground, NEW q \in Ground,
         NEW box \in [x_min : Int, x_max : Int, y_min : Int, y_max : Int],
         box.x_min - RobotRadius < box.x_max + RobotRadius,
         box.y_min - RobotRadius < box.y_max + RobotRadius
  PROVE  LegCollision(p, q, box)
<1> DEFINE grown == WithMargin(box)
           a == grown.x_min
           b == grown.x_max
           c == grown.y_min
           d == grown.y_max
           px == p.x
           py == p.y
           qx == q.x
           qy == q.y
<1>1. /\ a \in Int /\ b \in Int /\ c \in Int /\ d \in Int /\ a < b /\ c < d
      /\ px \in Int /\ py \in Int /\ qx \in Int /\ qy \in Int
      /\ (p # q <=> px # qx \/ py # qy)
  <2>1. RobotRadius \in Nat
    BY CollisionAssumption, Zenon
  <2>2. a \in Int /\ b \in Int /\ c \in Int /\ d \in Int /\ a < b /\ c < d
    BY <2>1 DEF WithMargin
  <2>3. px \in Int /\ py \in Int /\ qx \in Int /\ qy \in Int
    BY DEF Ground
  <2>4. p # q <=> px # qx \/ py # qy
    BY DEF Ground
  <2>5. QED
    BY <2>2, <2>3, <2>4
<1> DEFINE C1 == Point(a, c)
           C2 == Point(b, c)
           C3 == Point(b, d)
           C4 == Point(a, d)
<1>2. /\ Corners(grown)[1] = C1 /\ Corners(grown)[2] = C2
      /\ Corners(grown)[3] = C3 /\ Corners(grown)[4] = C4
  BY DEF Corners
<1>3. /\ C1 \in Ground /\ C2 \in Ground /\ C3 \in Ground /\ C4 \in Ground
      /\ C1.x = a /\ C1.y = c /\ C2.x = b /\ C2.y = c
      /\ C3.x = b /\ C3.y = d /\ C4.x = a /\ C4.y = d
  BY <1>1 DEF Point, Ground
<1> DEFINE S(x, y) == SideOfLine(px, py, qx, qy, x, y)
           s1 == S(a, c)
           s2 == S(b, c)
           s3 == S(b, d)
           s4 == S(a, d)
<1>4. s1 \in Int /\ s2 \in Int /\ s3 \in Int /\ s4 \in Int
  BY <1>1, SideIsInt
<1>5. /\ Side(p, q, C1) = s1 /\ Side(p, q, C2) = s2 /\ Side(p, q, C3) = s3 /\ Side(p, q, C4) = s4
  BY <1>3 DEF Side
<1> HIDE DEF grown, a, b, c, d, px, py, qx, qy, s1, s2, s3, s4, C1, C2, C3, C4
<1>6. Inside(p, grown) /\ Inside(q, grown) <=> ~Enters(px, py, qx, qy, a, b, c, d)
  BY DEF Inside, Enters, a, b, c, d, px, py, qx, qy
<1>7. Touches(p, q, grown) <=> Reaches(px, py, qx, qy, a, b, c, d)
  BY TouchesIs DEF grown, a, b, c, d, px, py, qx, qy
<1>8. CheckPathCollision(<<p, q>>, {box}) <=> Hits(px, py, qx, qy, a, b, c, d)
  <2>1. CheckPathCollision(<<p, q>>, {box}) <=>
          \/ DoIntersect(p, q, C1, C2) \/ DoIntersect(p, q, C2, C3)
          \/ DoIntersect(p, q, C3, C4) \/ DoIntersect(p, q, C4, C1)
    BY <1>2, EdgesAre DEF grown
  <2>2. /\ Side(C1, C2, p) = (b - a) * (py - c) /\ Side(C1, C2, q) = (b - a) * (qy - c)
        /\ Side(C2, C3, p) = -((d - c) * (px - b)) /\ Side(C2, C3, q) = -((d - c) * (qx - b))
        /\ Side(C3, C4, p) = -((b - a) * (py - d)) /\ Side(C3, C4, q) = -((b - a) * (qy - d))
        /\ Side(C4, C1, p) = (d - c) * (px - a) /\ Side(C4, C1, q) = (d - c) * (qx - a)
    BY <1>1, <1>3 DEF Side, SideOfLine, px, py, qx, qy
  <2>4. /\ Opposite(Side(C1, C2, p), Side(C1, C2, q)) <=> Opposite(py - c, qy - c)
        /\ Opposite(Side(C2, C3, p), Side(C2, C3, q)) <=> Opposite(px - b, qx - b)
        /\ Opposite(Side(C3, C4, p), Side(C3, C4, q)) <=> Opposite(py - d, qy - d)
        /\ Opposite(Side(C4, C1, p), Side(C4, C1, q)) <=> Opposite(px - a, qx - a)
    <3>1. /\ b - a \in Int /\ b - a > 0 /\ d - c \in Int /\ d - c > 0
          /\ py - c \in Int /\ qy - c \in Int /\ px - b \in Int /\ qx - b \in Int
          /\ py - d \in Int /\ qy - d \in Int /\ px - a \in Int /\ qx - a \in Int
      BY <1>1
    <3>2. Opposite(Side(C1, C2, p), Side(C1, C2, q)) <=> Opposite(py - c, qy - c)
      <4> DEFINE l == b - a
                 m == py - c
                 n == qy - c
      <4>1. /\ l \in Int /\ l > 0 /\ m \in Int /\ n \in Int
            /\ Scaled(Side(C1, C2, p), Side(C1, C2, q), l, m, n)
        BY <2>2, <3>1 DEF Scaled
      <4> HIDE DEF l, m, n
      <4>2. Opposite(Side(C1, C2, p), Side(C1, C2, q)) <=> Opposite(m, n)
        BY <4>1, OppositeScaled
      <4>3. QED
        BY <4>2 DEF m, n
    <3>3. Opposite(Side(C2, C3, p), Side(C2, C3, q)) <=> Opposite(px - b, qx - b)
      <4> DEFINE l == d - c
                 m == px - b
                 n == qx - b
      <4>1. /\ l \in Int /\ l > 0 /\ m \in Int /\ n \in Int
            /\ Scaled(Side(C2, C3, p), Side(C2, C3, q), l, m, n)
        BY <2>2, <3>1 DEF Scaled
      <4> HIDE DEF l, m, n
      <4>2. Opposite(Side(C2, C3, p), Side(C2, C3, q)) <=> Opposite(m, n)
        BY <4>1, OppositeScaled
      <4>3. QED
        BY <4>2 DEF m, n
    <3>4. Opposite(Side(C3, C4, p), Side(C3, C4, q)) <=> Opposite(py - d, qy - d)
      <4> DEFINE l == b - a
                 m == py - d
                 n == qy - d
      <4>1. /\ l \in Int /\ l > 0 /\ m \in Int /\ n \in Int
            /\ Scaled(Side(C3, C4, p), Side(C3, C4, q), l, m, n)
        BY <2>2, <3>1 DEF Scaled
      <4> HIDE DEF l, m, n
      <4>2. Opposite(Side(C3, C4, p), Side(C3, C4, q)) <=> Opposite(m, n)
        BY <4>1, OppositeScaled
      <4>3. QED
        BY <4>2 DEF m, n
    <3>5. Opposite(Side(C4, C1, p), Side(C4, C1, q)) <=> Opposite(px - a, qx - a)
      <4> DEFINE l == d - c
                 m == px - a
                 n == qx - a
      <4>1. /\ l \in Int /\ l > 0 /\ m \in Int /\ n \in Int
            /\ Scaled(Side(C4, C1, p), Side(C4, C1, q), l, m, n)
        BY <2>2, <3>1 DEF Scaled
      <4> HIDE DEF l, m, n
      <4>2. Opposite(Side(C4, C1, p), Side(C4, C1, q)) <=> Opposite(m, n)
        BY <4>1, OppositeScaled
      <4>3. QED
        BY <4>2 DEF m, n
    <3>6. QED
      BY <3>2, <3>3, <3>4, <3>5
  <2>5. /\ DoIntersect(p, q, C1, C2) <=> Across(s1, s2) /\ Opposite(py - c, qy - c)
        /\ DoIntersect(p, q, C2, C3) <=> Across(s2, s3) /\ Opposite(px - b, qx - b)
        /\ DoIntersect(p, q, C3, C4) <=> Across(s3, s4) /\ Opposite(py - d, qy - d)
        /\ DoIntersect(p, q, C4, C1) <=> Across(s4, s1) /\ Opposite(px - a, qx - a)
    BY <1>3, <1>5, <2>4, IntersectIs
  <2>6. /\ Across(s3, s4) <=> Across(s4, s3)
        /\ Across(s4, s1) <=> Across(s1, s4)
    BY DEF Across, Opposite
  <2>7. Hits(px, py, qx, qy, a, b, c, d) <=>
          \/ Across(s1, s2) /\ Opposite(py - c, qy - c)
          \/ Across(s2, s3) /\ Opposite(px - b, qx - b)
          \/ Across(s4, s3) /\ Opposite(py - d, qy - d)
          \/ Across(s1, s4) /\ Opposite(px - a, qx - a)
    BY DEF Hits, s1, s2, s3, s4
  <2>8. QED
    BY <2>1, <2>5, <2>6, <2>7
<1>9. Enters(px, py, qx, qy, a, b, c, d) =>
        (Hits(px, py, qx, qy, a, b, c, d)
           <=> (px # qx \/ py # qy) /\ Reaches(px, py, qx, qy, a, b, c, d))
  <2>1. ~Missed(px, py, qx, qy, a, b, c, d)
    BY <1>1, NoLegIsMissed
  <2>2. Hits(px, py, qx, qy, a, b, c, d) =>
          Reaches(px, py, qx, qy, a, b, c, d) /\ (px # qx \/ py # qy)
    BY <1>1, HitIsReached
  <2>3. QED
    BY <2>1, <2>2 DEF Missed
<1>10. LegCollision(p, q, box) <=>
         (~(Inside(p, grown) /\ Inside(q, grown)) =>
            (CheckPathCollision(<<p, q>>, {box}) <=> p # q /\ Touches(p, q, grown)))
  BY DEF LegCollision, grown
<1>11. QED
  BY <1>1, <1>6, <1>7, <1>8, <1>9, <1>10

\* The corners are not all on one side of a line that comes into the box.
LEMMA ReachesWhatItEnters ==
  ASSUME NEW px \in Int, NEW py \in Int, NEW qx \in Int, NEW qy \in Int,
         NEW a \in Int, NEW b \in Int, NEW c \in Int, NEW d \in Int,
         qx \in a .. b, qy \in c .. d
  PROVE  Reaches(px, py, qx, qy, a, b, c, d)
<1> DEFINE u == qx - px
           v == qy - py
           S(x, y) == SideOfLine(px, py, qx, qy, x, y)
<1>1. ASSUME NEW x \in {a, b}, NEW y \in {c, d}
      PROVE  S(x, y) = u * (y - qy) - v * (x - qx)
    BY DEF SideOfLine
<1>2. /\ a - qx \in Int /\ a - qx <= 0 /\ b - qx \in Int /\ b - qx >= 0
      /\ c - qy \in Int /\ c - qy <= 0 /\ d - qy \in Int /\ d - qy >= 0
      /\ u \in Int /\ v \in Int
  OBVIOUS
<1>3. \/ u >= 0 /\ v >= 0
      \/ u >= 0 /\ v <= 0
      \/ u <= 0 /\ v >= 0
      \/ u <= 0 /\ v <= 0
  BY <1>2
<1> DEFINE s1 == S(a, c)
           s2 == S(b, c)
           s3 == S(b, d)
           s4 == S(a, d)
           uc == u * (c - qy)
           ud == u * (d - qy)
           va == v * (a - qx)
           vb == v * (b - qx)
<1>4. s1 = uc - va /\ s2 = uc - vb /\ s3 = ud - vb /\ s4 = ud - va
  BY <1>1
<1>5. /\ uc \in Int /\ ud \in Int /\ va \in Int /\ vb \in Int
      /\ u >= 0 => uc <= 0 /\ ud >= 0
      /\ u <= 0 => uc >= 0 /\ ud <= 0
      /\ v >= 0 => va <= 0 /\ vb >= 0
      /\ v <= 0 => va >= 0 /\ vb <= 0
  BY <1>2, ProductSigns
<1> HIDE DEF s1, s2, s3, s4, uc, ud, va, vb, u, v
<1>6. /\ ~(s1 > 0 /\ s2 > 0 /\ s3 > 0 /\ s4 > 0)
      /\ ~(s1 < 0 /\ s2 < 0 /\ s3 < 0 /\ s4 < 0)
  BY <1>3, <1>4, <1>5
<1>7. /\ ~(px < a /\ qx < a) /\ ~(px > b /\ qx > b)
      /\ ~(py < c /\ qy < c) /\ ~(py > d /\ qy > d)
  OBVIOUS
<1>8. QED
  BY <1>6, <1>7 DEF Reaches, s1, s2, s3, s4

\* A leg that ends in the grown box touches it.
LEMMA TouchesWhatItEnters ==
  ASSUME NEW p \in Ground, NEW q \in Ground,
         NEW box \in [x_min : Int, x_max : Int, y_min : Int, y_max : Int],
         box.x_min - RobotRadius < box.x_max + RobotRadius,
         box.y_min - RobotRadius < box.y_max + RobotRadius,
         Inside(q, WithMargin(box))
  PROVE  Touches(p, q, WithMargin(box))
<1> DEFINE grown == WithMargin(box)
           a == grown.x_min
           b == grown.x_max
           c == grown.y_min
           d == grown.y_max
<1>1. RobotRadius \in Nat
  BY CollisionAssumption, Zenon
<1>2. a \in Int /\ b \in Int /\ c \in Int /\ d \in Int
  BY <1>1 DEF WithMargin
<1>3. p.x \in Int /\ p.y \in Int /\ q.x \in Int /\ q.y \in Int
  BY DEF Ground
<1>4. q.x \in a .. b /\ q.y \in c .. d
  BY DEF Inside
<1> HIDE DEF grown, a, b, c, d
<1>5. Reaches(p.x, p.y, q.x, q.y, a, b, c, d)
  BY <1>2, <1>3, <1>4, ReachesWhatItEnters
<1>6. QED
  BY <1>5, TouchesIs DEF grown, a, b, c, d

\* CheckPathCollision, for every set of legs and boxes, whatever the radius: a leg with
\* an end outside a grown box is reported exactly when it comes into the box or up to
\* its edge.
THEOREM CollisionsAreFound == Spec => []CollisionIsFound
<1>1. ASSUME NEW p \in LegEnds, NEW q \in LegEnds, NEW box \in Boxes
      PROVE  LegCollision(p, q, box)
  <2>1. p \in Ground /\ q \in Ground
    BY CollisionAssumption DEF Ground
  <2>2. /\ box \in [x_min : Int, x_max : Int, y_min : Int, y_max : Int]
        /\ box.x_min - RobotRadius < box.x_max + RobotRadius
        /\ box.y_min - RobotRadius < box.y_max + RobotRadius
    BY CollisionAssumption
  <2>3. QED
    BY <2>1, <2>2, LegIsJudged
<1>2. MisjudgedFrom = {}
  BY <1>1 DEF MisjudgedFrom
<1>3. CollisionIsFound
  BY <1>2 DEF CollisionIsFound
<1> QED
  BY <1>3, PTL

\* CheckPathCollision as CheckCollision uses it, for any path and any boxes: a
\* path that begins outside a box grown by the radius of the car and passes the check
\* has no point inside.  A path that begins inside may stay there.
THEOREM PathKeepsOut ==
  ASSUME NEW boxes \in SUBSET [x_min : Int, x_max : Int, y_min : Int, y_max : Int],
         NEW box \in boxes,
         box.x_min - RobotRadius < box.x_max + RobotRadius,
         box.y_min - RobotRadius < box.y_max + RobotRadius,
         NEW path \in Seq(Ground), path # <<>>, ~Inside(path[1], WithMargin(box)),
         ~CheckPathCollision(path, boxes)
  PROVE  \A i \in 1 .. Len(path) : ~Inside(path[i], WithMargin(box))
<1> DEFINE grown == WithMargin(box)
           Entered == {i \in Nat \ {0} : i <= Len(path) /\ Inside(path[i], grown)}
<1>1. Len(path) \in Nat /\ \A i \in 1 .. Len(path) : path[i] \in Ground
  OBVIOUS
<1>2. SUFFICES ASSUME Entered # {} PROVE FALSE
  <2>1. ASSUME NEW i \in 1 .. Len(path), Inside(path[i], grown)
        PROVE  Entered # {}
    <3>1. i \in Nat \ {0} /\ i <= Len(path)
      BY <1>1
    <3>2. i \in Entered
      BY <2>1, <3>1
    <3>3. QED
      BY <3>2
  <2> HIDE DEF Entered
  <2>2. QED
    BY <2>1
<1>3. PICK m \in Entered : \A i \in Entered : m <= i
  <2>1. Entered \subseteq Nat
    OBVIOUS
  <2> HIDE DEF Entered
  <2>2. QED
    BY <1>2, <2>1, LeastNumber
<1> DEFINE k == m - 1
<1>4. m \in Nat \ {0} /\ m <= Len(path) /\ Inside(path[m], grown)
  OBVIOUS
<1> HIDE DEF Entered
<1>5. /\ k \in 1 .. Len(path) - 1 /\ k + 1 = m /\ k \in 1 .. Len(path) /\ m \in 1 .. Len(path)
      /\ k \in Nat \ {0} /\ k <= Len(path)
  <2>1. m # 1
    BY <1>4
  <2>2. QED
    BY <1>1, <1>4, <2>1
<1>6. ~Inside(path[k], grown)
  <2>1. ~(m <= k)
    BY <1>4
  <2>2. k \notin Entered
    BY <1>3, <2>1
  <2>3. QED
    BY <1>5, <2>2 DEF Entered
<1> DEFINE p == path[k]
           q == path[m]
<1>7. p \in Ground /\ q \in Ground /\ Inside(q, grown) /\ ~Inside(p, grown)
  BY <1>1, <1>4, <1>5, <1>6
<1>8. ~CheckPathCollision(<<p, q>>, {box})
  <2> DEFINE c(j) == Corners(grown)[j]
  <2>1. \A j \in 1 .. 4 : ~DoIntersect(path[k], path[k + 1], c(j), c((j % 4) + 1))
    BY <1>5 DEF CheckPathCollision
  <2> DEFINE leg == <<p, q>>
  <2>2. /\ \A i : i \in 1 .. Len(leg) - 1 <=> i = 1
        /\ leg[1] = p /\ leg[1 + 1] = q
    OBVIOUS
  <2> HIDE DEF leg, p, q, c
  <2>3. path[k] = p /\ path[k + 1] = q
    BY <1>5 DEF p, q
  <2>4. ~CheckPathCollision(leg, {box})
    BY <2>1, <2>2, <2>3 DEF CheckPathCollision, c
  <2>5. QED
    BY <2>4 DEF leg
<1> HIDE DEF p, q, grown
<1>9. ~(p # q /\ Touches(p, q, grown))
  <2>1. LegCollision(p, q, box)
    BY <1>7, LegIsJudged
  <2>2. QED
    BY <1>7, <1>8, <2>1 DEF LegCollision, grown
<1>10. p # q
  BY <1>7
<1>11. Touches(p, q, grown)
  BY <1>7, TouchesWhatItEnters DEF grown
<1>12. QED
  BY <1>9, <1>10, <1>11
=============================================================================
