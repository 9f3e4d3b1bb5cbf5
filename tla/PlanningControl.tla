---------------------------- MODULE PlanningControl ----------------------------
(***************************************************************************)
(* The planning_control node: three callbacks in one thread, for the       *)
(* navigation (every Period-th message leads to a command), the bounding   *)
(* boxes (each leads to a new Frenet plan) and the global path, and the    *)
(* car that follows what is published.                                     *)
(*                                                                         *)
(* Global paths are straight: a spline through points of a line is the     *)
(* line, and the leg FindPathIndexAndDeltaDistance ends in does not depend *)
(* on the index it starts from.  A position is its place on that line.     *)
(* The plans keep clear of the boxes, in two dimensions: PathCollision.    *)
(* Speeds are in units of accel * control_dt, rounded down.                *)
(***************************************************************************)
EXTENDS PathCollision

CONSTANTS
  Paths,       \* global paths the ground station may send, of any length
  NoPath,      \* got_global_path_ is false
  Places,      \* bound: where the car can be
  Unset,       \* current_state_ before the first navigation message
  PlanSpeeds,  \* values of d_s[1], the plan's speed one sample ahead, backwards if negative
  TopSpeed,    \* frenet_optimal.max_speed
  NoPlan,      \* the current Frenet path has fewer than two points
  Period,      \* nav_sampling_period_
  Accel,       \* accel * control_dt
  Decel,       \* decel, in the units of places and speeds
  Slowdown     \* decel * control_dt

Usable == {p \in Paths : Len(p) >= 2}

ASSUME PlanningAssumption ==
  /\ \A p \in Paths : p \in Seq(Int)
  /\ \A p \in Usable : p[1] # p[Len(p)]
  /\ Places \subseteq Int /\ Unset \notin Places
  /\ PlanSpeeds \subseteq Int /\ TopSpeed \in Nat /\ \A v \in PlanSpeeds : v <= TopSpeed
  /\ Period \in Nat \ {0} /\ Accel \in Nat \ {0} /\ Decel \in Nat \ {0} /\ Slowdown \in Nat \ {0}
  /\ NoPath \notin Usable
  /\ NoPlan \notin [path : Usable, speed : PlanSpeeds]

VARIABLES
  global_path,
  current_state,         \* the place in it
  nav_sample_count,
  current_frenet_path,   \* the plan: the path it was made for and its speed
  current_target_speed,
  command,               \* last published speed, and the way the steering leads
  car                    \* where the car really is

vars == <<global_path, current_state, nav_sample_count, current_frenet_path,
          current_target_speed, command, car>>

Plans == [path : Usable, speed : PlanSpeeds]

\* A plan may ask for a speed backwards that is over the top speed (CheckPaths limits
\* speeds upwards only), and braking from it gives a speed up to its size, forwards.
SpeedRange == {v \in Nat : v <= TopSpeed \/ \E w \in PlanSpeeds : v < -w}

\* The remembered and the published speed are never negative, and never over the top
\* speed unless a plan asks for a speed backwards that is; then they stay below that
\* one's size (CalcSpeedCommand, CheckPaths).
TypeOK ==
  /\ global_path \in Usable \cup {NoPath}
  /\ current_state \in Places \cup {Unset}
  /\ nav_sample_count \in 0 .. Period - 1
  /\ current_frenet_path \in Plans \cup {NoPlan}
  /\ current_target_speed \in SpeedRange
  /\ command \in [speed : SpeedRange, way : {-1, 1}]
  /\ car \in Places

Init ==
  /\ global_path = NoPath
  /\ current_state = Unset
  /\ nav_sample_count = 0
  /\ current_frenet_path = NoPlan
  /\ current_target_speed = 0
  /\ command = [speed |-> 0, way |-> 1]
  /\ car \in Places

-----------------------------------------------------------------------------
(* CubicSplinePath *)

Goal(path) == path[Len(path)]
Way(path)  == IF path[1] < Goal(path) THEN 1 ELSE -1

\* What lies ahead, negative past the end.
Ahead(path, place) == Way(path) * (Goal(path) - place)

LastLeg(path) == Ahead(path, path[Len(path) - 1])

\* Past the end the index moves back by one leg and the distance does not.
GetRemainDistance(path, place) ==
  IF Ahead(path, place) < 0 THEN LastLeg(path) + Ahead(path, place) ELSE Ahead(path, place)

-----------------------------------------------------------------------------
(* FrenetOptimalPath *)

\* The plans that may be chosen.  The boxes, the curvature and the speed and
\* acceleration limits may leave none; past the end of the path no candidate has a
\* point.  A state that was never set holds any place.
Planning(path, place) ==
  IF place # Unset /\ Ahead(path, place) <= 0
  THEN {NoPlan}
  ELSE {NoPlan} \cup [path : {path}, speed : PlanSpeeds]

-----------------------------------------------------------------------------
(* PlanningControl *)

\* sqrt(2 * decel * distance)
BrakingSpeed(distance) ==
  CHOOSE v \in 0 .. 2 * Decel * distance :
    v * v <= 2 * Decel * distance /\ (v + 1) * (v + 1) > 2 * Decel * distance

\* Mutant: the end of the path does not slow the car down.
CalcSpeedCommandNoBrake(remain, target) ==
  CASE current_target_speed < target ->
         IF current_target_speed + Accel > target THEN target ELSE current_target_speed + Accel
    [] current_target_speed > target ->
         IF current_target_speed < Slowdown THEN 0 ELSE current_target_speed - Slowdown
    [] OTHER -> current_target_speed

\* Mutant: slowing down goes below zero.
CalcSpeedCommandUnclamped(remain, target) ==
  CASE 2 * Decel * remain < target * target -> BrakingSpeed(remain)
    [] current_target_speed < target -> current_target_speed + Accel
    [] OTHER -> current_target_speed - Slowdown

CalcSpeedCommand(remain, target) ==
  IF 2 * Decel * remain < target * target THEN BrakingSpeed(remain)
  ELSE IF current_target_speed < target
  THEN IF current_target_speed + Accel > target THEN target ELSE current_target_speed + Accel
  ELSE IF current_target_speed > target
  THEN IF current_target_speed < Slowdown THEN 0 ELSE current_target_speed - Slowdown
  ELSE current_target_speed


\* Without a path or a plan, or at the goal, zero is published and the remembered
\* speed stays.
GenerateMotionCommand(place) ==
  IF global_path = NoPath \/ current_frenet_path = NoPlan \/ Goal(global_path) = place
  THEN /\ command' = [command EXCEPT !.speed = 0]
       /\ UNCHANGED current_target_speed
  ELSE LET ahead  == GetRemainDistance(global_path, place)
           remain == IF ahead < 0 THEN 0 ELSE ahead
       IN /\ current_target_speed' = CalcSpeedCommand(remain, current_frenet_path.speed)
          /\ command' = [speed |-> current_target_speed', way |-> Way(current_frenet_path.path)]

NavStateCallback ==
  /\ IF nav_sample_count + 1 < Period
     THEN /\ nav_sample_count' = nav_sample_count + 1
          /\ UNCHANGED <<current_state, current_target_speed, command>>
     ELSE /\ nav_sample_count' = 0
          /\ current_state' = car
          /\ GenerateMotionCommand(car)
  /\ UNCHANGED <<global_path, current_frenet_path, car>>

\* Mutant: a plan in force is not made again.
BoundingBoxesCallbackOnce ==
  /\ global_path # NoPath /\ current_frenet_path = NoPlan
  /\ current_frenet_path' \in Planning(global_path, current_state)
  /\ UNCHANGED <<global_path, current_state, nav_sample_count, current_target_speed, command, car>>

BoundingBoxesCallback ==
  /\ global_path # NoPath
  /\ current_frenet_path' \in Planning(global_path, current_state)
  /\ UNCHANGED <<global_path, current_state, nav_sample_count, current_target_speed, command, car>>

\* The plan made for the old path stays.
GlobalPathCallback(path) ==
  /\ global_path' = IF Len(path) < 2 THEN global_path ELSE path
  /\ UNCHANGED <<current_state, nav_sample_count, current_frenet_path, current_target_speed,
                 command, car>>

-----------------------------------------------------------------------------

\* The car moves on, the way it is steered, as long as it is told to.
Drive ==
  /\ command.speed > 0
  /\ car + command.way \in Places
  /\ car' = car + command.way
  /\ UNCHANGED <<global_path, current_state, nav_sample_count, current_frenet_path,
                 current_target_speed, command>>

Next ==
  \/ NavStateCallback
  \/ BoundingBoxesCallback
  \/ \E path \in Paths : GlobalPathCallback(path)
  \/ Drive

\* Navigation and costmap keep publishing, and a car that is told to move again and
\* again gets on.
Fairness == WF_vars(NavStateCallback) /\ WF_vars(BoundingBoxesCallback) /\ SF_vars(Drive)

Spec     == Init /\ [][Next]_vars
FairSpec == Spec /\ Fairness

-----------------------------------------------------------------------------
(* Properties. *)

\* GenerateMotionCommand: while the car has not passed the end of the path in force,
\* each speed sent either lets it stop before that end, or is lower than the speed
\* remembered, whatever path and plan that one came from.
BrakesForTheEnd ==
  [][ LET ahead == Ahead(global_path, car)
      IN NavStateCallback /\ nav_sample_count' = 0 /\ global_path # NoPath /\ ahead >= 0
           => \/ command'.speed * command'.speed <= 2 * Decel * ahead
              \/ command'.speed < current_target_speed ]_vars

\* PlanOnce: a new path takes over from the plan that was made for the old one.
NewPathIsFollowed ==
  \A path \in Usable :
    <>[](global_path = path)
      => <>[](current_frenet_path # NoPlan => current_frenet_path.path = path)


\* FrenetOptimalPath::CheckPathCollision: wherever the car is on its way, and however far
\* beside it, of the legs from there those that come from outside and reach a box are
\* found, and no others, at each angle and at the corners.
CollisionIsFound == car \notin MisjudgedFrom
=============================================================================
