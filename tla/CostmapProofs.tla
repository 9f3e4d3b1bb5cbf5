---------------------------- MODULE CostmapProofs ----------------------------
(***************************************************************************)
(* For a map and a window of any size, any points and clouds, and any      *)
(* odds: the map stays within its limits and shows what was seen for long  *)
(* enough, what was hit for long enough is in a published box, a ray is a  *)
(* straight chain of cells, and the markers are the boxes.                 *)
(***************************************************************************)
EXTENDS Costmap, FiniteSetTheorems, WellFoundedInduction, TLAPS

-----------------------------------------------------------------------------
(* Numbers and sets of numbers. *)

\* A set of numbers that is not empty has a least one.
LEMMA LeastNumber ==
  ASSUME NEW S, S \subseteq Nat, S # {}
  PROVE  \E m \in S : \A n \in S : m <= n
<1>1. PICK m \in S : \A n \in S : ~(<<n, m>> \in OpToRel(<, Nat))
  BY NatLessThanWellFounded, WFMin
<1>2. \A n \in S : ~(n < m)
  <2>1. SUFFICES ASSUME NEW n \in S, n < m PROVE FALSE
    OBVIOUS
  <2>2. n \in Nat /\ m \in Nat
    OBVIOUS
  <2>3. <<n, m>> \in OpToRel(<, Nat)
    BY <2>1, <2>2 DEF OpToRel
  <2> QED
    BY <1>1, <2>3
<1> QED
  BY <1>2

\* A set that has 0 and with each number the next has all numbers up to n.
LEMMA AllNumbers ==
  ASSUME NEW n \in Nat, NEW S, 0 \in S,
         \A i \in 1 .. n : i - 1 \in S => i \in S
  PROVE  0 .. n \subseteq S
<1> DEFINE Missing == {i \in 0 .. n : i \notin S}
<1>1. SUFFICES ASSUME Missing # {} PROVE FALSE
  OBVIOUS
<1>2. PICK m \in Missing : \A i \in Missing : m <= i
  <2>1. Missing \subseteq Nat
    OBVIOUS
  <2> HIDE DEF Missing
  <2>2. QED
    BY <1>1, <2>1, LeastNumber
<1>3. m \in 1 .. n /\ m \notin S
  BY <1>2
<1>4. m - 1 \in 0 .. n /\ ~(m <= m - 1)
  BY <1>3
<1>5. m - 1 \in S
  BY <1>2, <1>4
<1>6. QED
  BY <1>3, <1>5

\* What is defined from the value before, step by step, is defined.
LEMMA RecursionIsDefined ==
  ASSUME NEW M, NEW start \in M, NEW n \in Nat, NEW step \in [1 .. n -> [M -> M]]
  PROVE  \E f \in [0 .. n -> M] : f[0] = start /\ \A i \in 1 .. n : f[i] = step[i][f[i - 1]]
<1> DEFINE Built(f, k) == /\ f \in [0 .. k -> M] /\ f[0] = start
                          /\ \A i \in 1 .. k : f[i] = step[i][f[i - 1]]
           S == {k \in 0 .. n : \E f : Built(f, k)}
<1>1. 0 \in S
  <2> DEFINE g == [i \in 0 .. 0 |-> start]
  <2>1. Built(g, 0)
    OBVIOUS
  <2> HIDE DEF g, Built
  <2>2. QED
    BY <2>1
<1>2. ASSUME NEW k \in 1 .. n, k - 1 \in S
      PROVE  k \in S
  <2>1. PICK f : Built(f, k - 1)
    BY <1>2
  <2> DEFINE g == [i \in 0 .. k |-> IF i = k THEN step[k][f[k - 1]] ELSE f[i]]
  <2>2. f[k - 1] \in M /\ step[k] \in [M -> M]
    BY <2>1
  <2>3. step[k][f[k - 1]] \in M
    BY <2>2
  <2>4. g \in [0 .. k -> M]
    BY <2>1, <2>3
  <2>5. g[0] = start
    BY <2>1
  <2>6. ASSUME NEW i \in 1 .. k
        PROVE  g[i] = step[i][g[i - 1]]
    <3>1. g[i - 1] = f[i - 1]
      OBVIOUS
    <3>2. CASE i = k
      BY <3>1, <3>2
    <3>3. CASE i # k
      BY <2>1, <3>1, <3>3
    <3>4. QED
      BY <3>2, <3>3
  <2> HIDE DEF g
  <2>7. Built(g, k)
    BY <2>4, <2>5, <2>6
  <2>8. QED
    BY <2>7
<1>3. n \in S
  <2> HIDE DEF S
  <2>1. 0 .. n \subseteq S
    BY <1>1, <1>2, AllNumbers
  <2>2. QED
    BY <2>1
<1>4. PICK f : Built(f, n)
  BY <1>3
<1>5. QED
  BY <1>4

\* What is left over by a division is less than the divisor.
LEMMA DivisionIs ==
  ASSUME NEW a \in Nat, NEW b \in Nat \ {0}
  PROVE  /\ a \div b \in Nat
         /\ (a \div b) * b <= a
         /\ a < (a \div b) * b + b
<1>1. a \div b \in Nat
  OBVIOUS
<1>2. a = (a \div b) * b + (a % b)
  OBVIOUS
<1>3. a % b \in 0 .. b - 1
  OBVIOUS
<1>4. (a \div b) * b \in Int
  BY <1>1
<1>5. QED
  BY <1>1, <1>2, <1>3, <1>4

LEMMA ProductGrows ==
  ASSUME NEW a \in Nat, NEW b \in Nat, NEW x \in Int, a <= b
  PROVE  /\ a * x \in Int /\ b * x \in Int /\ (a + 1) * x = a * x + x
         /\ x > 0 => a * x <= b * x
         /\ x < 0 => a * x >= b * x
<1>1. /\ a * x \in Int /\ b * x \in Int /\ (a + 1) * x = a * x + x
  OBVIOUS
<1>2. PICK d \in Nat : b = a + d
  <2>1. b - a \in Nat /\ b = a + (b - a)
    OBVIOUS
  <2>2. QED
    BY <2>1
<1>3. b * x = a * x + d * x /\ d * x \in Int
  BY <1>2
<1>4. (x > 0 => d * x >= 0) /\ (x < 0 => d * x <= 0)
  OBVIOUS
<1>5. QED
  BY <1>1, <1>3, <1>4

LEMMA LowestOfTwo ==
  ASSUME NEW a \in Int, NEW b \in Int
  PROVE  Lowest({a, b}) = IF a <= b THEN a ELSE b
  BY DEF Lowest

LEMMA HighestOfTwo ==
  ASSUME NEW a \in Int, NEW b \in Int
  PROVE  Highest({a, b}) = IF a >= b THEN a ELSE b
  BY DEF Highest

\* The least and the greatest of a set within limits.
LEMMA LowestIs ==
  ASSUME NEW lo \in Int, NEW hi \in Int, NEW S, S \subseteq lo .. hi, S # {}
  PROVE  /\ Lowest(S) \in S /\ \A n \in S : Lowest(S) <= n
         /\ Highest(S) \in S /\ \A n \in S : Highest(S) >= n
<1>1. \E m \in S : \A n \in S : m <= n
  <2> DEFINE T == {i \in Nat : lo + i \in S}
  <2>1. T \subseteq Nat /\ T # {}
    <3>1. PICK n \in S : TRUE
      OBVIOUS
    <3>2. n - lo \in Nat /\ lo + (n - lo) = n
      OBVIOUS
    <3>3. n - lo \in T
      BY <3>2
    <3>4. QED
      BY <3>3
  <2>2. PICK m \in T : \A n \in T : m <= n
    <3> HIDE DEF T
    <3>1. QED
      BY <2>1, LeastNumber
  <2>3. lo + m \in S /\ m \in Nat
    OBVIOUS
  <2>4. ASSUME NEW n \in S PROVE lo + m <= n
    <3>1. n - lo \in Nat /\ lo + (n - lo) = n
      OBVIOUS
    <3>2. n - lo \in T
      BY <3>1
    <3>3. m <= n - lo
      BY <2>2, <3>2
    <3>4. QED
      BY <2>3, <3>1, <3>3
  <2>5. QED
    BY <2>3, <2>4
<1>2. \E m \in S : \A n \in S : m >= n
  <2> DEFINE T == {i \in Nat : hi - i \in S}
  <2>1. T \subseteq Nat /\ T # {}
    <3>1. PICK n \in S : TRUE
      OBVIOUS
    <3>2. hi - n \in Nat /\ hi - (hi - n) = n
      OBVIOUS
    <3>3. hi - n \in T
      BY <3>2
    <3>4. QED
      BY <3>3
  <2>2. PICK m \in T : \A n \in T : m <= n
    <3> HIDE DEF T
    <3>1. QED
      BY <2>1, LeastNumber
  <2>3. hi - m \in S /\ m \in Nat
    OBVIOUS
  <2>4. ASSUME NEW n \in S PROVE hi - m >= n
    <3>1. hi - n \in Nat /\ hi - (hi - n) = n
      OBVIOUS
    <3>2. hi - n \in T
      BY <3>1
    <3>3. m <= hi - n
      BY <2>2, <3>2
    <3>4. QED
      BY <2>3, <3>1, <3>3
  <2>5. QED
    BY <2>3, <2>4
<1>3. QED
  BY <1>1, <1>2 DEF Lowest, Highest

-----------------------------------------------------------------------------
(* The log-odds of the map. *)

\* The log-odds: a hit adds, a ray takes away, the map starts and is bounded around zero.
LEMMA OddsAre ==
  /\ Occupied \in Int /\ Occupied > 0 /\ Free \in Int /\ Free < 0
  /\ Least \in Int /\ Least <= 0 /\ Most \in Int /\ 0 < Most
  /\ Threshold \in Int /\ 0 < Threshold /\ Threshold <= Most
<1>1. /\ Occupied \in Int /\ Occupied > 0 /\ Free \in Int /\ Free < 0
      /\ Least \in Int /\ Least <= 0 /\ Most \in Int /\ Threshold \in 1 .. Most
  BY CostmapAssumption, Zenon
<1>2. QED
  BY <1>1

Maps == [Cells -> Least .. Most]

\* UpdateCell clamps.
LEMMA BoundedIs ==
  ASSUME NEW v \in Int
  PROVE  Bounded(v) \in Least .. Most
  BY OddsAre DEF Bounded

\* Clamping keeps the order, so a hit never lowers and a ray never raises.
LEMMA BoundedRises ==
  ASSUME NEW v \in Least .. Most, NEW w \in Least .. Most, w <= v
  PROVE  /\ Bounded(v + Occupied) >= v
         /\ Bounded(v + Occupied) >= Bounded(w + Occupied)
         /\ Bounded(w + Free) <= w
         /\ Bounded(w + Free) <= Bounded(v + Free)
         /\ Bounded(w + Free) \in Int /\ Bounded(v + Occupied) \in Int
         /\ Bounded(v + Free) \in Int /\ Bounded(w + Occupied) \in Int
  BY OddsAre DEF Bounded

LEMMA CellsKeepTheType ==
  ASSUME NEW map \in Maps, NEW cells, NEW odds \in Int
  PROVE  UpdateCells(map, cells, odds) \in Maps
<1>1. ASSUME NEW c \in Cells
      PROVE  (IF c \in cells THEN Bounded(map[c] + odds) ELSE map[c]) \in Least .. Most
  <2>1. map[c] \in Least .. Most
    BY DEF Maps
  <2>2. map[c] + odds \in Int
    BY <2>1, OddsAre
  <2>3. QED
    BY <2>1, <2>2, BoundedIs
<1>2. QED
  BY <1>1 DEF UpdateCells, Maps

LEMMA PointKeepsTheType ==
  ASSUME NEW map \in Maps, NEW s, NEW e
  PROVE  UpdateByPoint(map, s, e) \in Maps
<1>1. QED
  BY OddsAre, CellsKeepTheType DEF UpdateByPoint

\* What one point does to a cell.
LEMMA PointOnCell ==
  ASSUME NEW map, NEW s, NEW e, NEW c \in Cells
  PROVE  LET crossed == c \in Range(BresenhamLine(s, e))
             after   == UpdateByPoint(map, s, e)[c]
         IN /\ c = e /\ ~crossed => after = Bounded(map[c] + Occupied)
            /\ c # e /\ crossed  => after = Bounded(map[c] + Free)
            /\ c # e /\ ~crossed => after = map[c]
  BY DEF UpdateByPoint, UpdateCells

\* after: the map after each of the points.
PointByPoint(after, map, s, pts) ==
  /\ after \in [0 .. Len(pts) -> Maps]
  /\ after[0] = map
  /\ \A i \in 1 .. Len(pts) : after[i] = UpdateByPoint(after[i - 1], s, pts[i])
  /\ UpdateByPoints(map, s, pts) = after[Len(pts)]

\* UpdateByPoints is defined, by the maps after each of the points.
LEMMA PointsAreTaken ==
  ASSUME NEW map \in Maps, NEW s, NEW pts, Len(pts) \in Nat
  PROVE  \E after : PointByPoint(after, map, s, pts)
<1> DEFINE n == Len(pts)
           Steps(f) == [i \in 0 .. n |-> IF i = 0 THEN map ELSE UpdateByPoint(f[i - 1], s, pts[i])]
           step == [i \in 1 .. n |-> [m \in Maps |-> UpdateByPoint(m, s, pts[i])]]
           after == CHOOSE f : f = Steps(f)
<1>1. step \in [1 .. n -> [Maps -> Maps]]
  BY PointKeepsTheType
<1>2. PICK f \in [0 .. n -> Maps] :
        f[0] = map /\ \A i \in 1 .. n : f[i] = step[i][f[i - 1]]
  <2> HIDE DEF step
  <2>1. QED
    BY <1>1, RecursionIsDefined
<1>3. f = Steps(f)
  <2>1. ASSUME NEW i \in 0 .. n
        PROVE  f[i] = IF i = 0 THEN map ELSE UpdateByPoint(f[i - 1], s, pts[i])
    <3>1. CASE i = 0
      BY <1>2, <3>1
    <3>2. CASE i # 0
      <4>1. i \in 1 .. n /\ i - 1 \in 0 .. n
        BY <3>2
      <4>2. f[i] = step[i][f[i - 1]]
        BY <1>2, <3>2
      <4>3. f[i - 1] \in Maps
        BY <1>2, <4>1
      <4>4. step[i][f[i - 1]] = UpdateByPoint(f[i - 1], s, pts[i])
        BY <4>1, <4>3
      <4>5. QED
        BY <3>2, <4>2, <4>4
    <3>3. QED
      BY <3>1, <3>2
  <2>2. DOMAIN f = 0 .. n
    BY <1>2
  <2> HIDE DEF step
  <2>3. f = [i \in 0 .. n |-> f[i]]
    BY <1>2
  <2>4. QED
    BY <2>1, <2>3
<1>4. after = Steps(after)
  BY <1>3
<1>5. UpdateByPoints(map, s, pts) = after[n]
  BY DEF UpdateByPoints
<1> HIDE DEF after, step
<1>6. after[0] = map /\ \A i \in 1 .. n : after[i] = UpdateByPoint(after[i - 1], s, pts[i])
  BY <1>4
<1>7. after \in [0 .. n -> Maps]
  <2> DEFINE S == {i \in 0 .. n : after[i] \in Maps}
  <2>1. 0 \in S
    BY <1>6
  <2>2. ASSUME NEW i \in 1 .. n, i - 1 \in S
        PROVE  i \in S
    BY <1>6, <2>2, PointKeepsTheType
  <2> HIDE DEF S
  <2>3. 0 .. n \subseteq S
    BY <2>1, <2>2, AllNumbers
  <2>4. \A i \in 0 .. n : after[i] \in Maps
    BY <2>3 DEF S
  <2>5. QED
    BY <1>4, <2>4
<1>8. PointByPoint(after, map, s, pts)
  BY <1>5, <1>6, <1>7 DEF PointByPoint
<1>9. QED
  BY <1>8

LEMMA PointsKeepTheType ==
  ASSUME NEW map \in Maps, NEW s, NEW pts, Len(pts) \in Nat
  PROVE  UpdateByPoints(map, s, pts) \in Maps
<1>1. PICK after : PointByPoint(after, map, s, pts)
  BY PointsAreTaken
<1>2. QED
  BY <1>1 DEF PointByPoint

\* A cell that a point falls into and no ray crosses has at least one hit more after a cloud.
LEMMA HitRaises ==
  ASSUME NEW map \in Maps, NEW s, NEW pts, Len(pts) \in Nat, DOMAIN pts = 1 .. Len(pts),
         NEW c \in Cells, c \in Range(pts), ~Crossed(s, pts, c)
  PROVE  UpdateByPoints(map, s, pts)[c] >= Bounded(map[c] + Occupied)
<1>0. PICK after : PointByPoint(after, map, s, pts)
  BY PointsAreTaken
<1> DEFINE n == Len(pts)
           odds == Bounded(map[c] + Occupied)
<1>1. /\ after \in [0 .. n -> Maps]
      /\ after[0] = map
      /\ \A i \in 1 .. n : after[i] = UpdateByPoint(after[i - 1], s, pts[i])
      /\ UpdateByPoints(map, s, pts) = after[n]
  BY <1>0 DEF PointByPoint
<1> DEFINE v(i) == after[i][c]
           Raised(i) == v(i) >= map[c] /\ ((\E j \in 1 .. i : pts[j] = c) => v(i) >= odds)
           S == {i \in 0 .. n : Raised(i)}
<1>2. \A i \in 0 .. n : v(i) \in Least .. Most
  BY <1>1 DEF Maps
<1>3. map[c] \in Least .. Most /\ odds \in Int
  BY BoundedRises, OddsAre DEF Maps
<1> HIDE DEF odds
<1>4. \A i \in 1 .. n : v(i) = IF pts[i] = c THEN Bounded(v(i - 1) + Occupied) ELSE v(i - 1)
  <2>1. ASSUME NEW i \in 1 .. n
        PROVE  v(i) = IF pts[i] = c THEN Bounded(v(i - 1) + Occupied) ELSE v(i - 1)
    <3>1. c \notin Range(BresenhamLine(s, pts[i]))
      BY DEF Crossed
    <3>2. v(i) = UpdateByPoint(after[i - 1], s, pts[i])[c]
      BY <1>1
    <3>3. QED
      BY <3>1, <3>2, PointOnCell
  <2>2. QED
    BY <2>1
<1>5. 0 \in S
  <2>1. v(0) = map[c] /\ v(0) >= map[c]
    BY <1>1, <1>3, OddsAre
  <2>2. QED
    BY <2>1
<1>6. ASSUME NEW i \in 1 .. n, i - 1 \in S
      PROVE  i \in S
  <2>1. Raised(i - 1) /\ v(i - 1) \in Least .. Most /\ i \in 0 .. n
    BY <1>2, <1>6
  <2>2. CASE pts[i] = c
    <3>1. v(i) = Bounded(v(i - 1) + Occupied)
      BY <1>4, <2>2
    <3>2. v(i) >= v(i - 1) /\ v(i) >= odds /\ v(i) \in Int
      BY <1>3, <2>1, <3>1, BoundedRises DEF odds
    <3>3. v(i) >= map[c]
      BY <1>3, <2>1, <3>2, OddsAre
    <3>4. QED
      BY <2>1, <3>2, <3>3
  <2>3. CASE pts[i] # c
    <3>1. v(i) = v(i - 1)
      BY <1>4, <2>3
    <3>2. (\E j \in 1 .. i : pts[j] = c) => \E j \in 1 .. i - 1 : pts[j] = c
      BY <2>3
    <3>3. QED
      BY <2>1, <3>1, <3>2
  <2>4. QED
    BY <2>2, <2>3
<1>7. n \in S
  <2> HIDE DEF S, n
  <2>1. 0 .. n \subseteq S
    BY <1>5, <1>6, AllNumbers DEF n
  <2>2. QED
    BY <2>1 DEF n
<1>8. \E j \in 1 .. n : pts[j] = c
  BY DEF Range
<1>9. QED
  BY <1>1, <1>7, <1>8 DEF odds

\* A cell that a ray crosses and no point falls into has at least one miss more after a cloud.
LEMMA CrossingLowers ==
  ASSUME NEW map \in Maps, NEW s, NEW pts, Len(pts) \in Nat, DOMAIN pts = 1 .. Len(pts),
         NEW c \in Cells, c \notin Range(pts), Crossed(s, pts, c)
  PROVE  UpdateByPoints(map, s, pts)[c] <= Bounded(map[c] + Free)
<1>0. PICK after : PointByPoint(after, map, s, pts)
  BY PointsAreTaken
<1> DEFINE n == Len(pts)
<1>1. /\ after \in [0 .. n -> Maps]
      /\ after[0] = map
      /\ \A i \in 1 .. n : after[i] = UpdateByPoint(after[i - 1], s, pts[i])
      /\ UpdateByPoints(map, s, pts) = after[n]
  BY <1>0 DEF PointByPoint
<1> DEFINE Through(j) == c \in Range(BresenhamLine(s, pts[j]))
           odds == Bounded(map[c] + Free)
           v(i) == after[i][c]
           Lowered(i) == v(i) <= map[c] /\ ((\E j \in 1 .. i : Through(j)) => v(i) <= odds)
           S == {i \in 0 .. n : Lowered(i)}
<1>2. \A i \in 0 .. n : v(i) \in Least .. Most
  BY <1>1 DEF Maps
<1>3. map[c] \in Least .. Most /\ odds \in Int
  BY BoundedRises, OddsAre DEF Maps
<1> HIDE DEF odds
<1>4. \A i \in 1 .. n : v(i) = IF Through(i) THEN Bounded(v(i - 1) + Free) ELSE v(i - 1)
  <2>1. ASSUME NEW i \in 1 .. n
        PROVE  v(i) = IF Through(i) THEN Bounded(v(i - 1) + Free) ELSE v(i - 1)
    <3>1. c # pts[i]
      BY DEF Range
    <3>2. v(i) = UpdateByPoint(after[i - 1], s, pts[i])[c]
      BY <1>1
    <3>3. QED
      BY <3>1, <3>2, PointOnCell
  <2>2. QED
    BY <2>1
<1>5. \E j \in 1 .. n : Through(j)
  BY DEF Crossed
<1> HIDE DEF Through
<1>6. 0 \in S
  <2>1. v(0) = map[c] /\ v(0) <= map[c]
    BY <1>1, <1>3, OddsAre
  <2>2. QED
    BY <2>1
<1>7. ASSUME NEW i \in 1 .. n, i - 1 \in S
      PROVE  i \in S
  <2>1. Lowered(i - 1) /\ v(i - 1) \in Least .. Most /\ i \in 0 .. n
    BY <1>2, <1>7
  <2>2. CASE Through(i)
    <3>1. v(i) = Bounded(v(i - 1) + Free)
      BY <1>4, <2>2
    <3>2. v(i) <= v(i - 1) /\ v(i) <= odds /\ v(i) \in Int
      BY <1>3, <2>1, <3>1, BoundedRises DEF odds
    <3>3. v(i) <= map[c]
      BY <1>3, <2>1, <3>2, OddsAre
    <3>4. QED
      BY <2>1, <3>2, <3>3
  <2>3. CASE ~Through(i)
    <3>1. v(i) = v(i - 1)
      BY <1>4, <2>3
    <3>2. (\E j \in 1 .. i : Through(j)) => \E j \in 1 .. i - 1 : Through(j)
      BY <2>3
    <3>3. QED
      BY <2>1, <3>1, <3>2
  <2>4. QED
    BY <2>2, <2>3
<1>8. n \in S
  <2> HIDE DEF S, n
  <2>1. 0 .. n \subseteq S
    BY <1>6, <1>7, AllNumbers DEF n
  <2>2. QED
    BY <2>1 DEF n
<1>9. QED
  BY <1>1, <1>5, <1>8 DEF odds

-----------------------------------------------------------------------------
(* The streaks of hits and misses. *)

\* ShowAfter hits from the lower limit reach the threshold, ForgetAfter misses from the upper
\* one fall below it.
LEMMA LimitsAre ==
  /\ ShowAfter \in Nat /\ ShowAfter > 0
  /\ Least + ShowAfter * Occupied >= Threshold
  /\ ForgetAfter \in Nat /\ ForgetAfter > 0
  /\ Most + ForgetAfter * Free < Threshold
<1>1. /\ ShowAfter \in Nat /\ ShowAfter > 0
      /\ Least + ShowAfter * Occupied >= Threshold
  <2> DEFINE a == Threshold - Least + Occupied - 1
             q == a \div Occupied
             p == q * Occupied
  <2>1. a \in Nat /\ Occupied \in Nat \ {0}
    BY OddsAre
  <2>2. q \in Nat /\ p <= a /\ a < p + Occupied
    <3> HIDE DEF a
    <3>1. QED
      BY <2>1, DivisionIs
  <2>3. p \in Int
    <3> HIDE DEF q
    <3>1. QED
      BY <2>2, OddsAre
  <2>4. q # 0
    <3>1. ASSUME q = 0 PROVE p = 0
      <4> HIDE DEF q
      <4>1. QED
        BY <3>1, OddsAre
    <3> HIDE DEF p, q
    <3>2. QED
      BY <2>2, <3>1, OddsAre
  <2>5. Least + p >= Threshold
    <3> HIDE DEF p, q
    <3>1. QED
      BY <2>2, <2>3, OddsAre
  <2>6. ShowAfter = q
    BY DEF ShowAfter
  <2> HIDE DEF q, a
  <2>7. QED
    BY <2>2, <2>4, <2>5, <2>6
<1>2. /\ ForgetAfter \in Nat /\ ForgetAfter > 0
      /\ Most + ForgetAfter * Free < Threshold
  <2> DEFINE a == Most - Threshold
             b == -Free
             q == a \div b
             p == q * b
  <2>1. a \in Nat /\ b \in Nat \ {0}
    BY OddsAre
  <2>2. q \in Nat /\ a < p + b
    <3> HIDE DEF a, b
    <3>1. QED
      BY <2>1, DivisionIs
  <2> HIDE DEF q
  <2>3. (q + 1) * Free = -(p + b) /\ p \in Int
    BY <2>2, OddsAre
  <2> HIDE DEF p
  <2>4. Most + (q + 1) * Free < Threshold
    BY <2>2, <2>3, OddsAre
  <2>5. ForgetAfter = q + 1
    BY DEF ForgetAfter, q
  <2>6. QED
    BY <2>2, <2>4, <2>5
<1>3. QED
  BY <1>1, <1>2

\* The next value of a streak.
LEMMA StreakMoves ==
  ASSUME NEW k \in -ForgetAfter .. ShowAfter
  PROVE  /\ Lowest({ShowAfter, Highest({0, k}) + 1}) \in 1 .. ShowAfter
         /\ Lowest({ShowAfter, Highest({0, k}) + 1}) <= (IF k > 0 THEN k + 1 ELSE 1)
         /\ Highest({-ForgetAfter, Lowest({0, k}) - 1}) \in -ForgetAfter .. -1
         /\ Highest({-ForgetAfter, Lowest({0, k}) - 1}) >= (IF k < 0 THEN k - 1 ELSE -1)
<1> DEFINE show == ShowAfter
           forget == ForgetAfter
<1>1. show \in Nat /\ show > 0 /\ forget \in Nat /\ forget > 0 /\ k \in -forget .. show
  BY LimitsAre
<1> HIDE DEF show, forget
<1>2. Highest({0, k}) = IF k > 0 THEN k ELSE 0
  BY <1>1, HighestOfTwo
<1>3. Lowest({0, k}) = IF k < 0 THEN k ELSE 0
  BY <1>1, LowestOfTwo
<1> DEFINE up == Highest({0, k}) + 1
           down == Lowest({0, k}) - 1
<1>4. up = (IF k > 0 THEN k + 1 ELSE 1) /\ down = IF k < 0 THEN k - 1 ELSE -1
  BY <1>1, <1>2, <1>3
<1> HIDE DEF up, down
<1>5. up \in Int /\ down \in Int /\ up >= 1 /\ down <= -1
  BY <1>1, <1>4
<1>6. Lowest({show, up}) = IF show <= up THEN show ELSE up
  BY <1>1, <1>5, LowestOfTwo
<1>7. Highest({-forget, down}) = IF -forget >= down THEN -forget ELSE down
  BY <1>1, <1>5, HighestOfTwo
<1>8. /\ Lowest({show, up}) \in 1 .. show /\ Lowest({show, up}) <= up
      /\ Highest({-forget, down}) \in -forget .. -1 /\ Highest({-forget, down}) >= down
  BY <1>1, <1>5, <1>6, <1>7
<1>9. QED
  BY <1>4, <1>8 DEF show, forget, up, down

LEMMA StreakKeepsTheType ==
  ASSUME NEW s, NEW pts, NEW c \in Cells, streak[c] \in -ForgetAfter .. ShowAfter
  PROVE  StreakAfter(s, pts, c) \in -ForgetAfter .. ShowAfter
<1> DEFINE k == streak[c]
<1>1. /\ Lowest({ShowAfter, Highest({0, k}) + 1}) \in 1 .. ShowAfter
      /\ Highest({-ForgetAfter, Lowest({0, k}) - 1}) \in -ForgetAfter .. -1
  BY StreakMoves
<1>2. ShowAfter \in Nat /\ ForgetAfter \in Nat
  BY LimitsAre
<1>3. 0 \in -ForgetAfter .. ShowAfter
  BY <1>2
<1>4. 1 .. ShowAfter \subseteq -ForgetAfter .. ShowAfter
      /\ -ForgetAfter .. -1 \subseteq -ForgetAfter .. ShowAfter
  BY <1>2
<1>5. StreakAfter(s, pts, c) \in {0, Lowest({ShowAfter, Highest({0, k}) + 1}),
                                  Highest({-ForgetAfter, Lowest({0, k}) - 1})}
  BY DEF StreakAfter
<1>6. QED
  BY <1>1, <1>3, <1>4, <1>5

\* What a streak of k says of a cell's value.
OnStreak(k, v) ==
  /\ k > 0 => v >= Threshold \/ v >= Least + k * Occupied
  /\ k < 0 => v < Threshold \/ v <= Most + (-k) * Free

\* Inductive: what each cell shows is what its streak has been long enough for.
SeenInv == \A c \in Cells : OnStreak(streak[c], costmap[c])

\* One more hit.
LEMMA StreakUp ==
  ASSUME NEW k \in Int, NEW v \in Least .. Most, OnStreak(k, v),
         NEW k2 \in Nat, k2 > 0, k2 <= (IF k > 0 THEN k + 1 ELSE 1),
         NEW v2 \in Least .. Most, v2 >= Bounded(v + Occupied)
  PROVE  OnStreak(k2, v2)
<1>1. v2 >= v + Occupied \/ v2 >= Threshold
  BY OddsAre DEF Bounded
<1>2. SUFFICES v2 >= Threshold \/ v2 >= Least + k2 * Occupied
  BY DEF OnStreak
<1>3. CASE k > 0
  <2>1. k2 * Occupied \in Int /\ k * Occupied \in Int /\ k2 * Occupied <= k * Occupied + Occupied
    <3>1. k \in Nat /\ k + 1 \in Nat /\ k <= k + 1 /\ k2 <= k + 1
      BY <1>3
    <3>2. (k + 1) * Occupied = k * Occupied + Occupied /\ k * Occupied \in Int
      BY <3>1, OddsAre, ProductGrows
    <3>3. k2 * Occupied \in Int /\ k2 * Occupied <= (k + 1) * Occupied
      BY <3>1, OddsAre, ProductGrows
    <3>4. QED
      BY <3>2, <3>3, OddsAre
  <2>2. CASE v >= Threshold
    BY <2>2, OddsAre DEF Bounded
  <2>3. CASE v >= Least + k * Occupied
    BY <1>1, <2>1, <2>3, OddsAre
  <2>4. QED
    BY <1>3, <2>2, <2>3 DEF OnStreak
<1>4. CASE ~(k > 0)
  <2>1. k2 = 1
    BY <1>4
  <2>2. k2 * Occupied = Occupied
    BY <2>1, OddsAre
  <2>3. QED
    BY <1>1, <2>2, OddsAre
<1>5. QED
  BY <1>3, <1>4

\* One more miss.
LEMMA StreakDown ==
  ASSUME NEW k \in Int, NEW v \in Least .. Most, OnStreak(k, v),
         NEW k2 \in Nat, k2 > 0, k2 <= (IF k < 0 THEN (-k) + 1 ELSE 1),
         NEW v2 \in Least .. Most, v2 <= Bounded(v + Free)
  PROVE  OnStreak(-k2, v2)
<1>1. v2 <= v + Free \/ v2 < Threshold
  BY OddsAre DEF Bounded
<1>2. SUFFICES v2 < Threshold \/ v2 <= Most + k2 * Free
  <2>1. -(-k2) = k2 /\ ~(-k2 > 0)
    OBVIOUS
  <2>2. QED
    BY <2>1 DEF OnStreak
<1>3. CASE k < 0
  <2> DEFINE m == -k
  <2>1. m \in Nat /\ m + 1 \in Nat /\ m <= m + 1 /\ k2 <= m + 1
    BY <1>3
  <2>2. v < Threshold \/ v <= Most + m * Free
    BY <1>3 DEF OnStreak
  <2> HIDE DEF m
  <2>3. k2 * Free \in Int /\ m * Free \in Int /\ k2 * Free >= m * Free + Free
    <3>1. (m + 1) * Free = m * Free + Free /\ m * Free \in Int
      BY <2>1, OddsAre, ProductGrows
    <3>2. k2 * Free \in Int /\ k2 * Free >= (m + 1) * Free
      BY <2>1, OddsAre, ProductGrows
    <3>3. QED
      BY <3>1, <3>2, OddsAre
  <2>4. CASE v < Threshold
    BY <2>4, OddsAre DEF Bounded
  <2>5. CASE v <= Most + m * Free
    BY <1>1, <2>3, <2>5, OddsAre
  <2>6. QED
    BY <2>2, <2>4, <2>5
<1>4. CASE ~(k < 0)
  <2>1. k2 = 1
    BY <1>4
  <2>2. k2 * Free = Free
    BY <2>1, OddsAre
  <2>3. QED
    BY <1>1, <2>2, OddsAre
<1>5. QED
  BY <1>3, <1>4

-----------------------------------------------------------------------------
(* The window and the boxes in it. *)

\* The window is a rectangle of cells.
LEMMA WindowIs ==
  ASSUME NEW p
  PROVE  \E x1, x2, y1, y2 \in Int : LocalCells(p) \subseteq (x1 .. x2) \X (y1 .. y2)
<1> DEFINE x == p[1] - LocalX \div 2
           y == p[2] - LocalY \div 2
           window == (x .. x + LocalX - 1) \X (y .. y + LocalY - 1)
<1>1. CASE LocalCells(p) = {}
  <2>1. LocalCells(p) \subseteq (0 .. 0) \X (0 .. 0)
    BY <1>1
  <2>2. QED
    BY <2>1
<1>2. CASE <<x, y>> \in Cells /\ LocalCells(p) = window
  <2>1. x \in Int /\ y \in Int
    BY <1>2 DEF Cells
  <2>2. LocalX \in Nat /\ LocalY \in Nat
    BY CostmapAssumption, Zenon
  <2> HIDE DEF x, y
  <2>3. x + LocalX - 1 \in Int /\ y + LocalY - 1 \in Int
    BY <2>1, <2>2
  <2>4. LocalCells(p) \subseteq (x .. x + LocalX - 1) \X (y .. y + LocalY - 1)
    BY <1>2
  <2>5. QED
    BY <2>1, <2>3, <2>4
<1>3. QED
  BY <1>1, <1>2 DEF LocalCells

LEMMA WindowIsFinite ==
  ASSUME NEW p
  PROVE  IsFiniteSet(LocalCells(p)) /\ LocalCells(p) \subseteq Int \X Int
<1>1. PICK x1, x2, y1, y2 \in Int : LocalCells(p) \subseteq (x1 .. x2) \X (y1 .. y2)
  BY WindowIs
<1>2. IsFiniteSet(x1 .. x2) /\ IsFiniteSet(y1 .. y2)
  BY FS_Interval
<1>3. IsFiniteSet((x1 .. x2) \X (y1 .. y2))
  BY <1>2, FS_Product
<1>4. QED
  BY <1>1, <1>3, FS_Subset

\* The half of the window is rounded down, so its far end is not beyond the corner tested.
LEMMA AxisInMap ==
  ASSUME NEW c \in Int, NEW long \in Nat, NEW size \in Nat,
         c - (long \div 2) \in 0 .. size - 1, c + (long \div 2) \in 0 .. size - 1
  PROVE  (c - (long \div 2) .. c - (long \div 2) + long - 1) \subseteq 0 .. size - 1
<1> DEFINE half == long \div 2
<1>1. half \in Nat /\ long <= half + half + 1
  OBVIOUS
<1>2. c - half >= 0 /\ c + half <= size - 1
  OBVIOUS
<1> HIDE DEF half
<1>3. (c - half .. c - half + long - 1) \subseteq 0 .. size - 1
  BY <1>1, <1>2
<1>4. QED
  BY <1>3 DEF half

\* The window is within the map.
LEMMA WindowInMap ==
  ASSUME NEW p \in Int \X Int
  PROVE  LocalCells(p) \subseteq Cells
<1> DEFINE hx == LocalX \div 2
           hy == LocalY \div 2
           xs == p[1] - hx .. p[1] - hx + LocalX - 1
           ys == p[2] - hy .. p[2] - hy + LocalY - 1
<1>1. CASE LocalCells(p) = {}
  BY <1>1
<1>2. CASE /\ <<p[1] - hx, p[2] - hy>> \in Cells /\ <<p[1] + hx, p[2] + hy>> \in Cells
           /\ LocalCells(p) = xs \X ys
  <2>1. LocalX \in Nat /\ LocalY \in Nat /\ SizeX \in Nat /\ SizeY \in Nat
    BY CostmapAssumption, Zenon
  <2>2. p[1] \in Int /\ p[2] \in Int
    OBVIOUS
  <2>3. /\ p[1] - hx \in 0 .. SizeX - 1 /\ p[2] - hy \in 0 .. SizeY - 1
        /\ p[1] + hx \in 0 .. SizeX - 1 /\ p[2] + hy \in 0 .. SizeY - 1
    BY <1>2 DEF Cells
  <2>4. xs \subseteq 0 .. SizeX - 1 /\ ys \subseteq 0 .. SizeY - 1
    BY <2>1, <2>2, <2>3, AxisInMap
  <2> HIDE DEF xs, ys
  <2>5. QED
    BY <1>2, <2>4 DEF Cells
<1>3. QED
  BY <1>1, <1>2 DEF LocalCells

\* A cluster is a group of the points, and not empty.
LEMMA GroupsAre ==
  ASSUME NEW points, NEW group \in Clusters(points)
  PROVE  group \subseteq points /\ group # {}
<1>1. group \subseteq points /\ Cardinality(group) >= MinSamples
  BY DEF Clusters
<1>2. MinSamples \in Nat \ {0}
  BY CostmapAssumption, Zenon
<1>3. Cardinality({}) = 0
  BY FS_EmptySet
<1>4. QED
  BY <1>1, <1>2, <1>3

\* The box of a group holds all of it.
LEMMA BoxHolds ==
  ASSUME NEW p, NEW group, group \subseteq LocalCells(p), group # {}
  PROVE  group \subseteq BoxOf(group) /\ BoxOf(group) \subseteq Int \X Int
<1>1. PICK x1, x2, y1, y2 \in Int : LocalCells(p) \subseteq (x1 .. x2) \X (y1 .. y2)
  BY WindowIs
<1> DEFINE xs == {c[1] : c \in group}
           ys == {c[2] : c \in group}
<1>2. xs \subseteq x1 .. x2 /\ xs # {} /\ ys \subseteq y1 .. y2 /\ ys # {}
  <2>1. \A c \in group : c[1] \in x1 .. x2 /\ c[2] \in y1 .. y2
    BY <1>1
  <2>2. QED
    BY <2>1
<1>3. \A c \in group : c = <<c[1], c[2]>> /\ c[1] \in xs /\ c[2] \in ys
  BY <1>1
<1>4. BoxOf(group) = (Lowest(xs) .. Highest(xs)) \X (Lowest(ys) .. Highest(ys))
  BY DEF BoxOf
<1> HIDE DEF xs, ys
<1>5. /\ Lowest(xs) \in Int /\ Highest(xs) \in Int /\ Lowest(ys) \in Int /\ Highest(ys) \in Int
      /\ \A n \in xs : n \in Lowest(xs) .. Highest(xs)
      /\ \A n \in ys : n \in Lowest(ys) .. Highest(ys)
  <2>1. /\ Lowest(xs) \in xs /\ Highest(xs) \in xs
        /\ \A n \in xs : Lowest(xs) <= n /\ Highest(xs) >= n
    BY <1>2, LowestIs
  <2>2. /\ Lowest(ys) \in ys /\ Highest(ys) \in ys
        /\ \A n \in ys : Lowest(ys) <= n /\ Highest(ys) >= n
    BY <1>2, LowestIs
  <2>3. \A n \in xs : n \in Int
    BY <1>2
  <2>4. \A n \in ys : n \in Int
    BY <1>2
  <2>5. QED
    BY <2>1, <2>2, <2>3, <2>4
<1>6. QED
  BY <1>3, <1>4, <1>5

LEMMA BoxesKeepTheType ==
  ASSUME NEW map, NEW p
  PROVE  CalculateBoundingBoxes(map, p) \subseteq SUBSET (Int \X Int)
<1> DEFINE points == {c \in LocalCells(p) : map[c] >= Threshold}
<1>1. ASSUME NEW group \in Clusters(points)
      PROVE  BoxOf(group) \subseteq Int \X Int
  <2>1. group \subseteq LocalCells(p) /\ group # {}
    BY GroupsAre
  <2>2. QED
    BY <2>1, BoxHolds
<1>2. QED
  BY <1>1 DEF CalculateBoundingBoxes

\* However large the window, it holds finitely many clusters, each with one box.
LEMMA BoxesAreFinite ==
  ASSUME NEW map, NEW p
  PROVE  IsFiniteSet(CalculateBoundingBoxes(map, p))
<1> DEFINE points == {c \in LocalCells(p) : map[c] >= Threshold}
           groups == Clusters(points)
           box == [group \in groups |-> BoxOf(group)]
<1>1. IsFiniteSet(LocalCells(p))
  BY WindowIsFinite
<1>2. IsFiniteSet(points)
  BY <1>1, FS_Subset
<1>3. IsFiniteSet(groups)
  <2>1. groups \in SUBSET (SUBSET points)
    BY DEF Clusters
  <2> QED
    BY <1>2, <2>1, FS_SUBSET, FS_Subset
<1>4. CalculateBoundingBoxes(map, p) = {BoxOf(group) : group \in groups}
  BY DEF CalculateBoundingBoxes
<1>5. box \in Surjection(groups, CalculateBoundingBoxes(map, p))
  <2> HIDE DEF groups
  <2> QED
    BY <1>4 DEF Surjection
<1> QED
  BY <1>3, <1>5, FS_Surjection

LEMMA NearIsMutual ==
  ASSUME NEW a \in Int \X Int, NEW b \in Int \X Int, Near(a, b)
  PROVE  Near(b, a)
<1>1. Distance(a[1], b[1]) = Distance(b[1], a[1]) /\ Distance(a[2], b[2]) = Distance(b[2], a[2])
  BY DEF Distance
<1>2. QED
  BY <1>1 DEF Near

\* A group with a point next to it is a group.
LEMMA LinkedGrows ==
  ASSUME NEW g, g \subseteq Int \X Int, Linked(g), NEW a \in g, NEW b \in Int \X Int, Near(a, b)
  PROVE  Linked(g \cup {b})
<1> SUFFICES ASSUME NEW part \in SUBSET (g \cup {b}), part # {}, part # g \cup {b}
             PROVE  \E x \in part, y \in (g \cup {b}) \ part : Near(x, y)
  BY DEF Linked
<1>1. CASE g \subseteq part
  <2>1. a \in part /\ b \in (g \cup {b}) \ part
    BY <1>1
  <2>2. QED
    BY <2>1
<1>2. CASE part \cap g = {}
  <2>1. b \in part /\ a \in (g \cup {b}) \ part
    BY <1>2
  <2>2. Near(b, a)
    BY NearIsMutual
  <2>3. QED
    BY <2>1, <2>2
<1>3. CASE ~(g \subseteq part) /\ part \cap g # {}
  <2>1. PICK x \in part \cap g, y \in g \ (part \cap g) : Near(x, y)
    BY <1>3 DEF Linked
  <2>2. y \in (g \cup {b}) \ part
    OBVIOUS
  <2>3. QED
    BY <2>1, <2>2
<1>4. QED
  BY <1>1, <1>2, <1>3

\* A group in some of the points is within one of all of them.
LEMMA ClusterAround ==
  ASSUME NEW points, points \subseteq Int \X Int, IsFiniteSet(points),
         NEW fewer, fewer \subseteq points, NEW group \in Clusters(fewer)
  PROVE  \E whole \in Clusters(points) : group \subseteq whole
<1>1. /\ group \subseteq points /\ group # {} /\ Linked(group)
      /\ Cardinality(group) >= MinSamples
  BY GroupsAre DEF Clusters
<1> DEFINE Family == {g \in SUBSET points : group \subseteq g /\ Linked(g)}
           whole == UNION Family
<1>2. group \in Family /\ group \subseteq whole /\ whole \subseteq points
  BY <1>1
<1>3. \A c \in whole : \E g \in Family : c \in g
  OBVIOUS
<1>4. \A g \in Family : g \subseteq whole /\ group \subseteq g /\ Linked(g) /\ g \subseteq points
  OBVIOUS
<1>5. ASSUME NEW g \in SUBSET points, group \subseteq g, Linked(g)
      PROVE  g \in Family
  BY <1>5
<1> HIDE DEF Family, whole
<1>6. Linked(whole)
  <2> SUFFICES ASSUME NEW part \in SUBSET whole, part # {}, part # whole
               PROVE  \E x \in part, y \in whole \ part : Near(x, y)
    BY DEF Linked
  <2>1. \E g \in Family : part \cap g # {} /\ part \cap g # g
    <3>1. CASE group \subseteq part
      <4>1. PICK b \in whole : b \notin part
        OBVIOUS
      <4>2. PICK g \in Family : b \in g
        BY <1>3
      <4>3. group \subseteq g
        BY <1>4
      <4>4. part \cap g # {} /\ part \cap g # g
        BY <1>1, <3>1, <4>1, <4>2, <4>3
      <4>5. QED
        BY <4>4
    <3>2. CASE ~(group \subseteq part)
      <4>1. PICK a \in part : TRUE
        OBVIOUS
      <4>2. PICK g \in Family : a \in g
        BY <1>3
      <4>3. group \subseteq g
        BY <1>4
      <4>4. part \cap g # {} /\ part \cap g # g
        BY <3>2, <4>1, <4>2, <4>3
      <4>5. QED
        BY <4>4
    <3>3. QED
      BY <3>1, <3>2
  <2>2. PICK g \in Family : part \cap g # {} /\ part \cap g # g
    BY <2>1
  <2> DEFINE piece == part \cap g
  <2>3. \E x \in piece, y \in g \ piece : Near(x, y)
    <3>1. Linked(g)
      BY <1>4
    <3>2. piece \in SUBSET g /\ piece # {} /\ piece # g
      BY <2>2
    <3> HIDE DEF piece
    <3>3. QED
      BY <3>1, <3>2 DEF Linked
  <2>6. PICK x \in piece, y \in g \ piece : Near(x, y)
    BY <2>3
  <2>4. x \in part /\ y \in whole \ part
    BY <1>4, <2>6
  <2>5. QED
    BY <2>4, <2>6
<1>7. ASSUME NEW a \in whole, NEW b \in points \ whole, Near(a, b)
      PROVE  FALSE
  <2>1. PICK g \in Family : a \in g
    BY <1>3
  <2>2. g \subseteq points /\ group \subseteq g /\ Linked(g)
    BY <1>4
  <2>3. Linked(g \cup {b})
    <3>1. g \subseteq Int \X Int /\ b \in Int \X Int
      BY <2>2
    <3>2. QED
      BY <1>7, <2>1, <2>2, <3>1, LinkedGrows
  <2>4. g \cup {b} \in Family
    BY <1>5, <2>2, <2>3
  <2>5. QED
    BY <1>4, <1>7, <2>4
<1>8. Cardinality(whole) >= MinSamples
  <2>1. IsFiniteSet(whole)
    BY <1>2, FS_Subset
  <2>2. IsFiniteSet(group) /\ Cardinality(group) <= Cardinality(whole)
    BY <1>2, <2>1, FS_Subset
  <2>3. Cardinality(group) \in Nat /\ Cardinality(whole) \in Nat
    BY <2>1, <2>2, FS_CardinalityType
  <2>4. MinSamples \in Nat
    BY CostmapAssumption, Zenon
  <2>5. QED
    BY <1>1, <2>2, <2>3, <2>4
<1>9. whole \in Clusters(points)
  BY <1>2, <1>6, <1>7, <1>8 DEF Clusters
<1>10. QED
  BY <1>2, <1>9

-----------------------------------------------------------------------------
(* The invariant of the map. *)

\* The points of a message that are used.
LEMMA SeenIsSequence ==
  ASSUME NEW pose, NEW msg \in Clouds
  PROVE  LET pts == Seen(pose, Front(msg))
         IN Len(pts) \in Nat /\ DOMAIN pts = 1 .. Len(pts)
<1>1. msg \in Seq(Points) /\ msg # <<>>
  BY CostmapAssumption, Zenon
<1>2. Front(msg) \in Seq(Points)
  BY <1>1 DEF Front
<1> DEFINE front == Front(msg)
           origin == [i \in DOMAIN front |-> Center]
<1> HIDE DEF front
<1>3. origin \in Seq({Center})
  BY <1>2 DEF front
<1> HIDE DEF origin
<1>4. /\ Len(front) \in Nat /\ DOMAIN front = 1 .. Len(front)
      /\ Len(origin) \in Nat /\ DOMAIN origin = 1 .. Len(origin)
  BY <1>2, <1>3 DEF front
<1>5. Seen(pose, front) \in {front, origin}
  BY DEF Seen, origin
<1>6. QED
  BY <1>4, <1>5 DEF front

\* What an update does to the map and the streaks.
LEMMA UpdateKeeps ==
  ASSUME TypeOK, SeenInv, NEW pts, Len(pts) \in Nat, DOMAIN pts = 1 .. Len(pts),
         UpdateCostmap(pts)
  PROVE  /\ costmap' \in Maps
         /\ streak' \in [Cells -> -ForgetAfter .. ShowAfter]
         /\ SeenInv'
<1> DEFINE s == At(cur_pose)
           mapped == UpdateByPoints(costmap, s, pts)
<1>1. costmap \in Maps /\ streak \in [Cells -> -ForgetAfter .. ShowAfter]
  BY DEF TypeOK, Maps
<1>2. costmap' = mapped /\ streak' = [c \in Cells |-> StreakAfter(s, pts, c)]
  BY DEF UpdateCostmap
<1> HIDE DEF s
<1>3. mapped \in Maps
  BY <1>1, PointsKeepTheType
<1>4. streak' \in [Cells -> -ForgetAfter .. ShowAfter]
  BY <1>1, <1>2, StreakKeepsTheType
<1>5. ASSUME NEW c \in Cells
      PROVE  OnStreak(streak'[c], costmap'[c])
  <2> DEFINE k == streak[c]
             v == costmap[c]
             k2 == StreakAfter(s, pts, c)
             v2 == mapped[c]
             up == Lowest({ShowAfter, Highest({0, k}) + 1})
             down == Highest({-ForgetAfter, Lowest({0, k}) - 1})
             hit == c \in Range(pts)
             crossed == Crossed(s, pts, c)
  <2>1. v \in Least .. Most /\ v2 \in Least .. Most /\ k \in -ForgetAfter .. ShowAfter
        /\ OnStreak(k, v)
    BY <1>1, <1>3 DEF Maps, SeenInv
  <2>2. streak'[c] = k2 /\ costmap'[c] = v2
    BY <1>2
  <2>3. ShowAfter \in Nat /\ ForgetAfter \in Nat
    BY LimitsAre
  <2>4. k \in Int
    BY <2>1, <2>3
  <2>5. /\ up \in 1 .. ShowAfter /\ up <= (IF k > 0 THEN k + 1 ELSE 1)
        /\ down \in -ForgetAfter .. -1 /\ down >= (IF k < 0 THEN k - 1 ELSE -1)
    BY <2>1, StreakMoves
  <2>6. CASE hit /\ ~crossed
    <3>1. k2 = up
      BY <2>6 DEF StreakAfter
    <3>2. v2 >= Bounded(v + Occupied)
      BY <1>1, <2>6, HitRaises
    <3> HIDE DEF up, v, v2, k, k2
    <3>3. up \in Nat /\ up > 0
      BY <2>3, <2>5
    <3>4. OnStreak(up, v2)
      BY <2>1, <2>4, <2>5, <3>2, <3>3, StreakUp
    <3>5. QED
      BY <2>2, <3>1, <3>4
  <2>7. CASE crossed /\ ~hit
    <3>1. k2 = down
      BY <2>7 DEF StreakAfter
    <3>2. v2 <= Bounded(v + Free)
      BY <1>1, <2>7, CrossingLowers
    <3> HIDE DEF down, v, v2, k, k2
    <3> DEFINE m == -down
    <3>3. m \in Nat /\ m > 0 /\ m <= (IF k < 0 THEN (-k) + 1 ELSE 1) /\ -m = down
      BY <2>3, <2>4, <2>5
    <3> HIDE DEF m
    <3>4. OnStreak(-m, v2)
      BY <2>1, <2>4, <3>2, <3>3, StreakDown
    <3>5. QED
      BY <2>2, <3>1, <3>3, <3>4
  <2>8. CASE ~(hit /\ ~crossed) /\ ~(crossed /\ ~hit)
    <3>1. k2 = 0
      BY <2>8 DEF StreakAfter
    <3>2. QED
      BY <2>2, <3>1 DEF OnStreak
  <2>9. QED
    BY <2>6, <2>7, <2>8
<1>6. QED
  BY <1>2, <1>3, <1>4, <1>5 DEF SeenInv

\* Inductive.
MapInv == TypeOK /\ SeenInv

LEMMA MapStart == Init => MapInv
<1> SUFFICES ASSUME Init PROVE MapInv
  OBVIOUS
<1>1. 0 \in Least .. Most
  BY OddsAre
<1>2. ShowAfter \in Nat /\ ForgetAfter \in Nat /\ 0 \in -ForgetAfter .. ShowAfter
  BY LimitsAre
<1>3. Limit \in Nat
  BY CostmapAssumption, Zenon
<1>4. TypeOK
  BY <1>1, <1>2, <1>3 DEF Init, TypeOK
<1>5. SeenInv
  BY DEF Init, SeenInv, OnStreak
<1>6. QED
  BY <1>4, <1>5 DEF MapInv

LEMMA CloudKeepsMap ==
  ASSUME MapInv, NEW msg \in Clouds, PointCloudCallback(msg)
  PROVE  MapInv'
<1>1. TypeOK /\ SeenInv /\ cur_pose' = cur_pose /\ Limit \in Nat /\ cnt_iter \in 0 .. Limit
  <2>1. Limit \in Nat
    BY CostmapAssumption, Zenon
  <2>2. QED
    BY <2>1 DEF MapInv, TypeOK, PointCloudCallback
<1>2. CASE cnt_iter >= Limit
  <2> DEFINE pts == Seen(cur_pose, Front(msg))
             number == Cardinality(boxes')
  <2>1. Len(pts) \in Nat /\ DOMAIN pts = 1 .. Len(pts)
    BY SeenIsSequence
  <2>2. cnt_iter' = 0 /\ UpdateCostmap(pts) /\ PublishMarkers(number)
    BY <1>2 DEF PointCloudCallback
  <2> HIDE DEF pts
  <2>3. boxes' = CalculateBoundingBoxes(costmap', At(cur_pose))
    BY <2>2 DEF UpdateCostmap
  <2>4. boxes' \subseteq SUBSET (Int \X Int)
    BY <2>3, BoxesKeepTheType
  <2>5. number \in Nat
    BY <2>3, BoxesAreFinite, FS_CardinalityType
  <2>6. /\ costmap' \in Maps /\ streak' \in [Cells -> -ForgetAfter .. ShowAfter] /\ SeenInv'
    BY <1>1, <2>1, <2>2, UpdateKeeps
  <2> HIDE DEF number
  <2>7. last_marker_id' \in Nat /\ markers' \subseteq Nat
    BY <1>1, <2>2, <2>5 DEF PublishMarkers, TypeOK
  <2>8. TypeOK'
    BY <1>1, <2>2, <2>4, <2>6, <2>7 DEF TypeOK, Maps
  <2>9. QED
    BY <2>6, <2>8 DEF MapInv
<1>3. CASE ~(cnt_iter >= Limit)
  <2>1. cnt_iter' = cnt_iter + 1 /\ UNCHANGED <<costmap, boxes, last_marker_id, markers, streak>>
    BY <1>3 DEF PointCloudCallback
  <2>2. cnt_iter' \in 0 .. Limit
    BY <1>1, <1>3, <2>1
  <2>3. TypeOK'
    BY <1>1, <2>1, <2>2 DEF TypeOK
  <2>4. SeenInv'
    BY <1>1, <2>1 DEF SeenInv
  <2>5. QED
    BY <2>3, <2>4 DEF MapInv
<1>4. QED
  BY <1>2, <1>3

\* The map and the streaks of hits and misses keep the invariant, through any clouds.
THEOREM MapIsKept == Spec => []MapInv
<1>1. MapInv /\ [Next]_vars => MapInv'
  <2> SUFFICES ASSUME MapInv, [Next]_vars PROVE MapInv'
    OBVIOUS
  <2>1. ASSUME NEW pose \in Poses, NavStateCallback(pose) PROVE MapInv'
    BY <2>1 DEF NavStateCallback, MapInv, TypeOK, SeenInv
  <2>2. CASE UNCHANGED vars
    BY <2>2 DEF vars, MapInv, TypeOK, SeenInv
  <2>3. QED
    BY <2>1, <2>2, CloudKeepsMap DEF Next
<1>2. QED
  BY <1>1, MapStart, PTL DEF Spec

\* UpdateCell, PointCloudCallback, PublishBoundingBoxes: every update leaves the log-odds of
\* every cell within their limits, and the counter within its period.
THEOREM MapType == Spec => []TypeOK
<1>1. MapInv => TypeOK
  BY DEF MapInv
<1>2. QED
  BY <1>1, MapIsKept, PTL

LEMMA InvShows == MapInv => SeenIsShown
<1> SUFFICES ASSUME MapInv, NEW c \in Cells
             PROVE  /\ streak[c] = ShowAfter => costmap[c] >= Threshold
                    /\ streak[c] = -ForgetAfter => costmap[c] < Threshold
  BY DEF SeenIsShown
<1>1. OnStreak(streak[c], costmap[c]) /\ costmap[c] \in Int
  BY OddsAre DEF MapInv, SeenInv, TypeOK
<1>2. ASSUME streak[c] = ShowAfter PROVE costmap[c] >= Threshold
  <2> DEFINE p == ShowAfter * Occupied
  <2>1. ShowAfter > 0 /\ Least + p >= Threshold
    BY LimitsAre
  <2>2. p \in Int
    BY LimitsAre, OddsAre
  <2>3. costmap[c] >= Threshold \/ costmap[c] >= Least + p
    BY <1>1, <1>2, <2>1 DEF OnStreak
  <2> HIDE DEF p
  <2>4. QED
    BY <1>1, <2>1, <2>2, <2>3, OddsAre
<1>3. ASSUME streak[c] = -ForgetAfter PROVE costmap[c] < Threshold
  <2> DEFINE p == ForgetAfter * Free
  <2>1. /\ ForgetAfter \in Nat /\ -ForgetAfter < 0 /\ -(-ForgetAfter) = ForgetAfter
        /\ Most + p < Threshold
    BY LimitsAre
  <2>2. p \in Int
    BY LimitsAre, OddsAre
  <2>3. costmap[c] < Threshold \/ costmap[c] <= Most + p
    BY <1>1, <1>3, <2>1 DEF OnStreak
  <2> HIDE DEF p
  <2>4. QED
    BY <1>1, <2>1, <2>2, <2>3, OddsAre
<1>4. QED
  BY <1>2, <1>3

\* UpdateCell: what ShowAfter updates in a row have seen in a cell is what it shows, from
\* whatever it had before; ForgetAfter misses make it disappear, whatever the odds.
THEOREM SeenIsAlwaysShown == Spec => []SeenIsShown
  BY InvShows, MapIsKept, PTL

\* The car is on the map, also before its first pose.
LEMMA CarOnMap ==
  ASSUME NEW pose \in Poses \cup {NoPose}
  PROVE  At(pose) \in Cells /\ At(pose) \in Int \X Int
<1>1. SizeX \in Nat \ {0} /\ SizeY \in Nat \ {0} /\ Poses \subseteq Cells /\ NoPose \notin Poses
  BY CostmapAssumption, Zenon
<1>2. SizeX \div 2 \in 0 .. SizeX - 1 /\ SizeY \div 2 \in 0 .. SizeY - 1
  BY <1>1
<1>3. Center \in Cells
  BY <1>2 DEF Center, Cells
<1>4. At(pose) \in Cells
  BY <1>1, <1>3 DEF At
<1>5. QED
  BY <1>1, <1>4 DEF Cells

\* A group that was hit for long enough is in a box of the update that saw it last.
LEMMA UpdateReports ==
  ASSUME SeenIsShown', NEW pts, UpdateCostmap(pts),
         NEW group \in Clusters({c \in LocalCells(At(cur_pose)) : streak'[c] = ShowAfter}),
         LocalCells(At(cur_pose)) \subseteq Cells
  PROVE  \E box \in boxes' : group \subseteq box
<1> DEFINE p == At(cur_pose)
           fewer == {c \in LocalCells(p) : streak'[c] = ShowAfter}
           points == {c \in LocalCells(p) : costmap'[c] >= Threshold}
<1>1. fewer \subseteq points
  BY DEF SeenIsShown
<1>2. points \subseteq Int \X Int /\ IsFiniteSet(points)
  <2>1. points \subseteq LocalCells(p)
    OBVIOUS
  <2>2. QED
    BY <2>1, WindowIsFinite, FS_Subset
<1> HIDE DEF fewer, points
<1>3. PICK whole \in Clusters(points) : group \subseteq whole
  BY <1>1, <1>2, ClusterAround DEF fewer
<1>4. whole \subseteq LocalCells(p) /\ whole # {}
  BY GroupsAre DEF points
<1>5. group \subseteq BoxOf(whole)
  BY <1>3, <1>4, BoxHolds
<1>6. BoxOf(whole) \in boxes'
  BY <1>3 DEF UpdateCostmap, CalculateBoundingBoxes, points
<1>7. QED
  BY <1>5, <1>6

\* UpdateCostmap: what those updates have hit, and makes a cluster in the window, lies within
\* a box of the ones published with the last of them.
THEOREM ReportedObstacles == Spec => ObstacleIsReported
<1> DEFINE Reported ==
      cnt_iter' < cnt_iter =>
        \A group \in Clusters({c \in LocalCells(At(cur_pose)) : streak'[c] = ShowAfter}) :
          \E box \in boxes' : group \subseteq box
<1>1. MapInv /\ MapInv' /\ [Next]_vars => [Reported]_vars
  <2> SUFFICES ASSUME MapInv, MapInv', Next
               PROVE  Reported
    OBVIOUS
  <2>1. SeenIsShown'
    BY InvShows, PTL
  <2>2. cnt_iter \in Int /\ LocalCells(At(cur_pose)) \subseteq Cells
    <3>1. Limit \in Nat
      BY CostmapAssumption, Zenon
    <3>2. cnt_iter \in 0 .. Limit /\ cur_pose \in Poses \cup {NoPose}
      BY DEF MapInv, TypeOK
    <3>3. QED
      BY <3>1, <3>2, CarOnMap, WindowInMap
  <2>3. ASSUME NEW pose \in Poses, NavStateCallback(pose)
        PROVE  Reported
    BY <2>2, <2>3 DEF NavStateCallback
  <2>4. ASSUME NEW msg \in Clouds, PointCloudCallback(msg)
        PROVE  Reported
    <3>1. CASE cnt_iter >= Limit
      <4>1. UpdateCostmap(Seen(cur_pose, Front(msg)))
        BY <2>4, <3>1 DEF PointCloudCallback
      <4>2. QED
        BY <2>1, <2>2, <4>1, UpdateReports
    <3>2. CASE ~(cnt_iter >= Limit)
      <4>1. cnt_iter' = cnt_iter + 1
        BY <2>4, <3>2 DEF PointCloudCallback
      <4>2. QED
        BY <2>2, <4>1
    <3>3. QED
      BY <3>1, <3>2
  <2>5. QED
    BY <2>3, <2>4 DEF Next
<1>2. QED
  BY <1>1, MapIsKept, PTL DEF Spec, ObstacleIsReported

-----------------------------------------------------------------------------
(* The ray. *)

LEMMA DistanceIs ==
  ASSUME NEW a \in Int, NEW b \in Int
  PROVE  Distance(a, b) \in Nat /\ (Distance(a, b) = 0 <=> a = b)
  BY DEF Distance

\* The place k cells from a to b on one axis.
LEMMA AxisPlace ==
  ASSUME NEW a \in Int, NEW b \in Int, NEW k \in 0 .. Distance(a, b)
  PROVE  /\ a + Sign(a, b) * k \in Int
         /\ Distance(a, a + Sign(a, b) * k) = k
         /\ Distance(a + Sign(a, b) * k, b) = Distance(a, b) - k
<1>1. Distance(a, b) \in Nat /\ k \in Nat /\ k <= Distance(a, b)
  BY DistanceIs
<1>2. CASE b > a
  <2>1. Sign(a, b) * k = k /\ Distance(a, b) = b - a
    BY <1>1, <1>2 DEF Sign, Distance
  <2>2. QED
    BY <1>1, <1>2, <2>1 DEF Distance
<1>3. CASE ~(b > a)
  <2>1. Sign(a, b) * k = -k /\ Distance(a, b) = a - b
    BY <1>1, <1>3 DEF Sign, Distance
  <2>2. QED
    BY <1>1, <1>3, <2>1 DEF Distance
<1>4. QED
  BY <1>2, <1>3

\* Two places on one axis are as far apart as the numbers of cells to them.
LEMMA AxisPlaces ==
  ASSUME NEW a \in Int, NEW b \in Int, NEW j \in Int, NEW k \in Int
  PROVE  Distance(a + Sign(a, b) * j, a + Sign(a, b) * k) = Distance(j, k)
<1>1. CASE b > a
  <2>1. Sign(a, b) * j = j /\ Sign(a, b) * k = k
    BY <1>1 DEF Sign
  <2>2. QED
    BY <2>1 DEF Distance
<1>2. CASE ~(b > a)
  <2>1. Sign(a, b) * j = -j /\ Sign(a, b) * k = -k
    BY <1>2 DEF Sign
  <2>2. QED
    BY <2>1 DEF Distance
<1>3. QED
  BY <1>1, <1>2

\* Of the two axes of a ray.
Shorter(s, e) == LET dx == Distance(s[1], e[1])
                     dy == Distance(s[2], e[2]) IN IF dx > dy THEN dy ELSE dx

\* The longer axis has no cells only from a cell to itself.
LEMMA AxesAre ==
  ASSUME NEW s \in Int \X Int, NEW e \in Int \X Int
  PROVE  LET dx == Distance(s[1], e[1])
             dy == Distance(s[2], e[2])
         IN /\ dx \in Nat /\ dy \in Nat
            /\ Longer(s, e) = (IF dx > dy THEN dx ELSE dy)
            /\ Shorter(s, e) = (IF dx > dy THEN dy ELSE dx)
            /\ Longer(s, e) \in Nat /\ Shorter(s, e) \in 0 .. Longer(s, e)
            /\ Longer(s, e) = 0 <=> s = e
<1> DEFINE dx == Distance(s[1], e[1])
           dy == Distance(s[2], e[2])
<1>1. s[1] \in Int /\ s[2] \in Int /\ e[1] \in Int /\ e[2] \in Int
      /\ s = <<s[1], s[2]>> /\ e = <<e[1], e[2]>>
  OBVIOUS
<1>2. dx \in Nat /\ dy \in Nat /\ (dx = 0 <=> s[1] = e[1]) /\ (dy = 0 <=> s[2] = e[2])
  <2>1. dx \in Nat /\ (dx = 0 <=> s[1] = e[1])
    BY <1>1, DistanceIs
  <2>2. dy \in Nat /\ (dy = 0 <=> s[2] = e[2])
    BY <1>1, DistanceIs
  <2>3. QED
    BY <2>1, <2>2
<1>3. /\ Longer(s, e) = (IF dx > dy THEN dx ELSE dy)
      /\ Shorter(s, e) = (IF dx > dy THEN dy ELSE dx)
  BY DEF Longer, Shorter
<1>4. s = e <=> (s[1] = e[1] /\ s[2] = e[2])
  BY <1>1
<1> HIDE DEF dx, dy
<1>5. /\ Longer(s, e) \in Nat /\ Shorter(s, e) \in 0 .. Longer(s, e)
      /\ Longer(s, e) = 0 <=> (dx = 0 /\ dy = 0)
  BY <1>2, <1>3
<1>6. QED
  BY <1>2, <1>3, <1>4, <1>5 DEF dx, dy

\* Where the ray is after i cells: so far on the shorter axis, with this discriminant.
WayStep(at, long, short) ==
  IF at.d < 0 THEN [at EXCEPT !.d = @ + 2 * short]
  ELSE [d |-> at.d + 2 * (short - long), way |-> at.way + 1]

\* The discriminant is what is left between the line and the way made, within one step.
WayInv(at, i, long, short) ==
  /\ at.way >= 0
  /\ at.d = 2 * (short * i) + 2 * short - long - 2 * (long * at.way)
  /\ 2 * short - 2 * long <= at.d
  /\ at.d < 2 * short

LEMMA WayGrows ==
  ASSUME NEW long, NEW short, NEW at \in [d : Int, way : Int]
  PROVE  \/ WayStep(at, long, short).way = at.way
         \/ WayStep(at, long, short).way = at.way + 1
  BY DEF WayStep

LEMMA WayStepKeeps ==
  ASSUME NEW long \in Nat \ {0}, NEW short \in 0 .. long, NEW i \in Nat \ {0},
         NEW at \in [d : Int, way : Int], WayInv(at, i - 1, long, short)
  PROVE  /\ WayStep(at, long, short) \in [d : Int, way : Int]
         /\ WayInv(WayStep(at, long, short), i, long, short)
<1> DEFINE d == at.d
           w == at.way
           next == WayStep(at, long, short)
<1>1. /\ d \in Int /\ w \in Int /\ long \in Int /\ short \in Int
      /\ short >= 0 /\ short <= long /\ long > 0
  OBVIOUS
<1>2. /\ w >= 0 /\ d = 2 * (short * (i - 1)) + 2 * short - long - 2 * (long * w)
      /\ 2 * short - 2 * long <= d /\ d < 2 * short
  BY DEF WayInv
<1>3. short * (i - 1) = short * i - short /\ short * i \in Int
  BY <1>1
<1>4. long * (w + 1) = long * w + long /\ long * w \in Int
  BY <1>1
<1>5. CASE d < 0
  <2>1. next.d = d + 2 * short /\ next.way = w /\ next \in [d : Int, way : Int]
    BY <1>1, <1>5 DEF WayStep
  <2> DEFINE p == short * i
             q == long * w
  <2> HIDE DEF d, w, next
  <2>2. d + 2 * short = 2 * (short * i) + 2 * short - long - 2 * (long * w)
    <3>1. d = 2 * (p - short) + 2 * short - long - 2 * q /\ p \in Int /\ q \in Int
      BY <1>2, <1>3, <1>4
    <3> HIDE DEF p, q
    <3>2. d + 2 * short = 2 * p + 2 * short - long - 2 * q
      BY <1>1, <3>1
    <3>3. QED
      BY <3>2 DEF p, q
  <2>3. QED
    BY <1>1, <1>2, <1>5, <2>1, <2>2 DEF WayInv, next, d, w
<1>6. CASE ~(d < 0)
  <2>1. next.d = d + 2 * (short - long) /\ next.way = w + 1 /\ next \in [d : Int, way : Int]
    BY <1>1, <1>6 DEF WayStep
  <2> DEFINE p == short * i
             q == long * w
  <2> HIDE DEF d, w, next
  <2>2. d + 2 * (short - long) = 2 * (short * i) + 2 * short - long - 2 * (long * (w + 1))
    <3>1. d = 2 * (p - short) + 2 * short - long - 2 * q /\ p \in Int /\ q \in Int
          /\ long * (w + 1) = q + long
      BY <1>2, <1>3, <1>4
    <3> HIDE DEF p, q
    <3>2. d + 2 * (short - long) = 2 * p + 2 * short - long - 2 * (q + long)
      BY <1>1, <3>1
    <3>3. QED
      BY <3>1, <3>2 DEF p
  <2>3. QED
    BY <1>1, <1>2, <1>6, <2>1, <2>2 DEF WayInv, next, d, w
<1>7. QED
  BY <1>5, <1>6

\* What the inequalities of the way say about it.
LEMMA WayBounds ==
  ASSUME NEW long \in Nat \ {0}, NEW short \in 0 .. long, NEW i \in 0 .. long,
         NEW at \in [d : Int, way : Int], WayInv(at, i, long, short)
  PROVE  /\ at.way >= 0 /\ at.way <= short
         /\ 2 * (long * at.way) <= 2 * (short * i) + long
         /\ 2 * (short * i) < 2 * (long * at.way) + long
         /\ i = long => at.way = short
<1> DEFINE w == at.way
           p == short * i
           q == long * w
<1>1. w \in Int /\ i \in Int /\ long \in Int /\ short \in Int /\ long > 0 /\ i <= long /\ short >= 0
  OBVIOUS
<1>2. p \in Int /\ q \in Int
  BY <1>1
<1>3. 2 * q <= 2 * p + long /\ 2 * p < 2 * q + long /\ w >= 0
  <2>1. /\ w >= 0 /\ at.d = 2 * p + 2 * short - long - 2 * q
        /\ 2 * short - 2 * long <= at.d /\ at.d < 2 * short /\ at.d \in Int
    BY DEF WayInv
  <2> HIDE DEF p, q, w
  <2>2. QED
    BY <1>1, <1>2, <2>1
<1> HIDE DEF w
<1>4. p <= short * long
  <2>1. short * (long - i) >= 0
    BY <1>1
  <2>2. short * (long - i) = short * long - short * i
    BY <1>1
  <2> DEFINE r == short * long
  <2>3. r \in Int /\ r - p >= 0
    BY <1>1, <2>1, <2>2
  <2> HIDE DEF r, p
  <2>4. p <= r
    BY <1>2, <2>3
  <2>5. QED
    BY <2>4 DEF r
<1>5. w <= short
  <2> SUFFICES ASSUME w >= short + 1 PROVE FALSE
    BY <1>1
  <2>1. long * (w - short - 1) >= 0
    BY <1>1
  <2>2. long * (w - short - 1) = q - short * long - long
    BY <1>1
  <2> DEFINE r == short * long
  <2>3. r \in Int
    BY <1>1
  <2>4. q - r - long >= 0 /\ p <= r
    BY <1>4, <2>1, <2>2
  <2> HIDE DEF p, q, r
  <2>5. QED
    BY <1>1, <1>2, <1>3, <2>3, <2>4
<1>6. ASSUME i = long PROVE w >= short
  <2> SUFFICES ASSUME w <= short - 1 PROVE FALSE
    BY <1>1
  <2>1. long * (short - 1 - w) >= 0
    BY <1>1
  <2>2. long * (short - 1 - w) = short * long - long - q
    BY <1>1
  <2>3. p = short * long
    BY <1>6
  <2>4. p - long - q >= 0
    BY <2>1, <2>2, <2>3
  <2> HIDE DEF p, q
  <2>5. QED
    BY <1>1, <1>2, <1>3, <2>4
<1>7. i = long => w = short
  BY <1>1, <1>5, <1>6
<1>8. QED
  BY <1>3, <1>5, <1>7 DEF w

\* way: the cells made on the shorter axis after i cells, the nearest to the line or the
\* one above it.
WayMade(way, long, short) ==
  /\ way \in [0 .. long -> Int]
  /\ \A i \in 0 .. long :
       /\ way[i] >= 0 /\ way[i] <= short
       /\ 2 * (long * way[i]) <= 2 * (short * i) + long
       /\ 2 * (short * i) < 2 * (long * way[i]) + long
  /\ \A i \in 1 .. long : way[i] = way[i - 1] \/ way[i] = way[i - 1] + 1
  /\ way[long] = short

\* The ray with this way on the shorter axis.
RayOf(s, e, way) ==
  [i \in 1 .. Longer(s, e) |->
     IF Distance(s[1], e[1]) > Distance(s[2], e[2])
     THEN <<s[1] + Sign(s[1], e[1]) * (i - 1), s[2] + Sign(s[2], e[2]) * way[i]>>
     ELSE <<s[1] + Sign(s[1], e[1]) * way[i], s[2] + Sign(s[2], e[2]) * (i - 1)>>]

\* Discriminant and way.
WayStates == [d : Int, way : Int]

LEMMA WayIsDefined ==
  ASSUME NEW long \in Nat, NEW first \in WayStates,
         NEW step \in [1 .. long -> [WayStates -> WayStates]]
  PROVE  \E f \in [0 .. long -> WayStates] :
           f[0] = first /\ \A i \in 1 .. long : f[i] = step[i][f[i - 1]]
  BY RecursionIsDefined

LEMMA RayHasWay ==
  ASSUME NEW s \in Int \X Int, NEW e \in Int \X Int, s # e
  PROVE  \E way : /\ WayMade(way, Longer(s, e), Shorter(s, e))
                  /\ BresenhamLine(s, e) = RayOf(s, e, way)
<1> DEFINE long == Longer(s, e)
           short == Shorter(s, e)
           first == [d |-> 2 * short - long, way |-> 0]
           Steps(f) == [i \in 0 .. long |->
                          IF i = 0 THEN first
                          ELSE IF f[i - 1].d < 0 THEN [f[i - 1] EXCEPT !.d = @ + 2 * short]
                          ELSE [d |-> f[i - 1].d + 2 * (short - long), way |-> f[i - 1].way + 1]]
           at == CHOOSE f : f = Steps(f)
           way == [i \in 0 .. long |-> at[i].way]
<1>1. long \in Nat \ {0} /\ short \in 0 .. long
  BY AxesAre
<1>2. BresenhamLine(s, e) = RayOf(s, e, way)
  <2>1. \A i \in 1 .. long : way[i] = at[i].way
    <3>1. 1 .. long \subseteq 0 .. long
      BY <1>1
    <3> HIDE DEF long, at
    <3>2. QED
      BY <3>1
  <2>2. BresenhamLine(s, e) =
          [i \in 1 .. long |->
             IF Distance(s[1], e[1]) > Distance(s[2], e[2])
             THEN <<s[1] + Sign(s[1], e[1]) * (i - 1), s[2] + Sign(s[2], e[2]) * at[i].way>>
             ELSE <<s[1] + Sign(s[1], e[1]) * at[i].way, s[2] + Sign(s[2], e[2]) * (i - 1)>>]
    BY DEF BresenhamLine, RayCells, Shorter
  <2> HIDE DEF at, way
  <2>3. QED
    BY <2>1, <2>2 DEF RayOf
<1>3. first \in WayStates /\ WayInv(first, 0, long, short)
  BY <1>1 DEF WayInv, WayStates
<1>4. at = Steps(at)
  <2> DEFINE Moved(m) == IF m.d < 0 THEN [m EXCEPT !.d = @ + 2 * short]
                         ELSE [d |-> m.d + 2 * (short - long), way |-> m.way + 1]
             step == [i \in 1 .. long |-> [m \in WayStates |-> Moved(m)]]
  <2>1. step \in [1 .. long -> [WayStates -> WayStates]]
    <3>1. ASSUME NEW m \in WayStates PROVE Moved(m) \in WayStates
      BY <1>1 DEF WayStates
    <3> HIDE DEF Moved
    <3>2. QED
      BY <3>1
  <2>2. PICK f \in [0 .. long -> WayStates] :
          f[0] = first /\ \A i \in 1 .. long : f[i] = step[i][f[i - 1]]
    <3>1. long \in Nat /\ first \in WayStates
      BY <1>1, <1>3
    <3> HIDE DEF step, first, long
    <3>2. QED
      BY <2>1, <3>1, WayIsDefined
  <2>3. ASSUME NEW i \in 1 .. long
        PROVE  step[i][f[i - 1]] = Moved(f[i - 1])
    <3>1. i - 1 \in 0 .. long
      BY <1>1
    <3> HIDE DEF Moved, long
    <3>2. f[i - 1] \in WayStates
      BY <2>2, <3>1
    <3>3. QED
      BY <3>2
  <2>4. f = Steps(f)
    <3>1. \A i \in 0 .. long : i # 0 => i \in 1 .. long
      BY <1>1
    <3> HIDE DEF step, first, long, Moved
    <3>2. f = [i \in 0 .. long |-> IF i = 0 THEN first ELSE Moved(f[i - 1])]
      BY <2>2, <2>3, <3>1
    <3>3. QED
      BY <3>2 DEF Moved
  <2>5. QED
    BY <2>4
<1> HIDE DEF at
<1>5. at[0] = first /\ \A i \in 1 .. long : at[i] = WayStep(at[i - 1], long, short)
  <2>1. at[0] = first
    BY <1>1, <1>4
  <2>2. ASSUME NEW i \in 1 .. long
        PROVE  at[i] = WayStep(at[i - 1], long, short)
    <3>1. i \in 0 .. long /\ i # 0
      BY <1>1
    <3> HIDE DEF first, long, short
    <3>2. QED
      BY <1>4, <3>1 DEF WayStep
  <2>3. QED
    BY <2>1, <2>2
<1>6. \A i \in 0 .. long : at[i] \in WayStates /\ WayInv(at[i], i, long, short)
  <2> DEFINE S == {i \in 0 .. long : at[i] \in WayStates /\ WayInv(at[i], i, long, short)}
  <2>1. 0 \in S
    BY <1>1, <1>3, <1>5
  <2>2. ASSUME NEW i \in 1 .. long, i - 1 \in S
        PROVE  i \in S
    <3>1. /\ at[i - 1] \in WayStates /\ WayInv(at[i - 1], i - 1, long, short)
          /\ i \in Nat \ {0} /\ i \in 0 .. long
      BY <1>1, <2>2
    <3> HIDE DEF long, short
    <3>2. /\ WayStep(at[i - 1], long, short) \in WayStates
          /\ WayInv(WayStep(at[i - 1], long, short), i, long, short)
      BY <1>1, <3>1, WayStepKeeps DEF WayStates
    <3>3. at[i] \in WayStates /\ WayInv(at[i], i, long, short)
      BY <1>5, <3>2
    <3>4. QED
      BY <3>1, <3>3
  <2>3. long \in Nat
    BY <1>1
  <2> HIDE DEF S, long
  <2>4. 0 .. long \subseteq S
    BY <2>1, <2>2, <2>3, AllNumbers
  <2>5. QED
    BY <2>4 DEF S
<1>7. WayMade(way, long, short)
  <2>1. \A i \in 0 .. long : way[i] = at[i].way /\ way[i] \in Int
    BY <1>6 DEF WayStates
  <2>2. way \in [0 .. long -> Int]
    BY <2>1
  <2>3. ASSUME NEW i \in 0 .. long
        PROVE  /\ way[i] >= 0 /\ way[i] <= short
               /\ 2 * (long * way[i]) <= 2 * (short * i) + long
               /\ 2 * (short * i) < 2 * (long * way[i]) + long
               /\ i = long => way[i] = short
    <3>1. at[i] \in WayStates /\ WayInv(at[i], i, long, short) /\ way[i] = at[i].way
      BY <1>6, <2>1
    <3> HIDE DEF long, short, way
    <3>2. QED
      BY <1>1, <3>1, WayBounds DEF WayStates
  <2>4. ASSUME NEW i \in 1 .. long
        PROVE  way[i] = way[i - 1] \/ way[i] = way[i - 1] + 1
    <3>1. i - 1 \in 0 .. long /\ i \in 0 .. long /\ i \in Nat \ {0}
      BY <1>1
    <3>2. at[i - 1] \in WayStates /\ WayInv(at[i - 1], i - 1, long, short)
          /\ way[i - 1] = at[i - 1].way /\ way[i] = at[i].way
      BY <1>6, <2>1, <3>1
    <3> DEFINE step == WayStep(at[i - 1], long, short)
    <3>3. at[i] = step
      BY <1>5
    <3> HIDE DEF long, short, way
    <3>4. at[i - 1] \in [d : Int, way : Int]
      BY <3>2 DEF WayStates
    <3>5. step.way = at[i - 1].way \/ step.way = at[i - 1].way + 1
      BY <3>4, WayGrows
    <3> HIDE DEF step, at
    <3>6. QED
      BY <3>2, <3>3, <3>5
  <2>5. long \in 0 .. long
    BY <1>1
  <2> HIDE DEF long, short, way
  <2>6. QED
    BY <2>2, <2>3, <2>4, <2>5 DEF WayMade
<1>8. QED
  BY <1>2, <1>7

\* Off the line by less than a cell and a half.
LEMMA OffTheLine ==
  ASSUME NEW long \in Nat, NEW short \in 0 .. long, NEW i \in 1 .. long, NEW w \in Int,
         2 * (long * w) <= 2 * (short * i) + long, 2 * (short * i) < 2 * (long * w) + long
  PROVE  /\ 2 * Distance(short * (i - 1), long * w) <= 3 * long
         /\ 2 * Distance(long * w, short * (i - 1)) <= 3 * long
<1> DEFINE p == short * i
           q == long * w
<1>1. short * (i - 1) = p - short /\ p \in Int /\ q \in Int
  OBVIOUS
<1>2. short \in Int /\ long \in Int /\ 0 <= short /\ short <= long
  OBVIOUS
<1>3. 2 * q <= 2 * p + long /\ 2 * p < 2 * q + long
  OBVIOUS
<1> HIDE DEF p, q
<1>4. /\ 2 * Distance(p - short, q) <= 3 * long
      /\ 2 * Distance(q, p - short) <= 3 * long
  BY <1>1, <1>2, <1>3 DEF Distance
<1>5. QED
  BY <1>1, <1>4 DEF q

\* Both axes of the ray: i - 1 cells on the longer one, way[i] on the shorter one.
LEMMA RayOnAxes ==
  ASSUME NEW s \in Int \X Int, NEW e \in Int \X Int, NEW way,
         WayMade(way, Longer(s, e), Shorter(s, e)), NEW i \in 1 .. Longer(s, e)
  PROVE  LET c  == RayOf(s, e, way)[i]
             dx == Distance(s[1], e[1])
             dy == Distance(s[2], e[2])
             x  == IF dx > dy THEN i - 1 ELSE way[i]
             y  == IF dx > dy THEN way[i] ELSE i - 1
         IN /\ x \in 0 .. dx /\ y \in 0 .. dy
            /\ c[1] = s[1] + Sign(s[1], e[1]) * x
            /\ c[2] = s[2] + Sign(s[2], e[2]) * y
            /\ c = <<c[1], c[2]>>
<1> DEFINE long == Longer(s, e)
           short == Shorter(s, e)
           dx == Distance(s[1], e[1])
           dy == Distance(s[2], e[2])
<1>1. /\ dx \in Nat /\ dy \in Nat /\ long = (IF dx > dy THEN dx ELSE dy)
      /\ short = (IF dx > dy THEN dy ELSE dx)
  BY AxesAre
<1>2. way[i] \in Int /\ way[i] >= 0 /\ way[i] <= short
  <2>1. i \in 0 .. long /\ way \in [0 .. long -> Int]
    BY DEF WayMade
  <2> HIDE DEF long, short
  <2>2. QED
    BY <2>1 DEF WayMade, long, short
<1>3. i \in Int /\ i >= 1 /\ i <= long
  BY <1>1
<1>4. RayOf(s, e, way)[i] =
        IF dx > dy
        THEN <<s[1] + Sign(s[1], e[1]) * (i - 1), s[2] + Sign(s[2], e[2]) * way[i]>>
        ELSE <<s[1] + Sign(s[1], e[1]) * way[i], s[2] + Sign(s[2], e[2]) * (i - 1)>>
  BY DEF RayOf
<1> HIDE DEF dx, dy, long, short
<1>5. CASE dx > dy
  <2>1. i - 1 \in 0 .. dx /\ way[i] \in 0 .. dy
    BY <1>1, <1>2, <1>3, <1>5
  <2>2. QED
    BY <1>4, <1>5, <2>1 DEF dx, dy
<1>6. CASE ~(dx > dy)
  <2>1. i - 1 \in 0 .. dy /\ way[i] \in 0 .. dx
    BY <1>1, <1>2, <1>3, <1>6
  <2>2. QED
    BY <1>4, <1>6, <2>1 DEF dx, dy
<1>7. QED
  BY <1>5, <1>6

\* A function on the first numbers is a sequence.
LEMMA RowIsSequence ==
  ASSUME NEW n \in Nat, NEW S, NEW f \in [1 .. n -> S]
  PROVE  f \in Seq(S)
  OBVIOUS

\* Between any two cells, within the map or not.
LEMMA StraightRay ==
  ASSUME NEW s \in Int \X Int, NEW e \in Int \X Int
  PROVE  Straight(s, e)
<1> DEFINE ray == BresenhamLine(s, e)
           dx == Distance(s[1], e[1])
           dy == Distance(s[2], e[2])
           long == Longer(s, e)
           short == Shorter(s, e)
           Neighbours(a, b) == Distance(a[1], b[1]) <= 1 /\ Distance(a[2], b[2]) <= 1
           OnTheWay(c) ==
             /\ Distance(s[1], c[1]) + Distance(c[1], e[1]) = dx
             /\ Distance(s[2], c[2]) + Distance(c[2], e[2]) = dy
             /\ 2 * Distance(dy * Distance(s[1], c[1]), dx * Distance(s[2], c[2])) <= 3 * long
<1>0. /\ dx \in Nat /\ dy \in Nat /\ long = (IF dx > dy THEN dx ELSE dy)
      /\ short = (IF dx > dy THEN dy ELSE dx) /\ long \in Nat /\ short \in 0 .. long
      /\ long = 0 <=> s = e
  <2> HIDE DEF ray
  <2>1. QED
    BY AxesAre
<1>1. DOMAIN ray = 1 .. long /\ Len(ray) = long
  <2>1. DOMAIN ray = 1 .. long /\ ray = [i \in 1 .. long |-> ray[i]]
    <3>1. DOMAIN ray = 1 .. long
      BY DEF BresenhamLine, RayCells
    <3>2. ray = [i \in DOMAIN ray |-> ray[i]]
      BY DEF BresenhamLine, RayCells
    <3> HIDE DEF ray, long
    <3>3. QED
      BY <3>1, <3>2
  <2> HIDE DEF ray, long
  <2>2. \A i \in 1 .. long : ray[i] \in Range(ray)
    BY <2>1 DEF Range
  <2>3. ray \in Seq(Range(ray))
    <3> DEFINE S == Range(ray)
    <3>1. \A i \in 1 .. long : ray[i] \in S
      BY <2>2
    <3> HIDE DEF S
    <3>2. ray \in [1 .. long -> S]
      BY <2>1, <3>1
    <3> HIDE DEF ray
    <3>3. long \in Nat
      BY <1>0
    <3> HIDE DEF long, short, dx, dy
    <3>4. ray \in Seq(S)
      BY <3>2, <3>3, RowIsSequence
    <3>5. QED
      BY <3>4 DEF S
  <2>4. long \in Nat
    BY <1>0
  <2> HIDE DEF short, dx, dy
  <2>5. QED
    BY <2>1, <2>3, <2>4
<1>2. CASE s = e
  <2>1. long = 0 /\ DOMAIN ray = {} /\ Len(ray) - 1 < 1
    BY <1>0, <1>1, <1>2
  <2>2. e \notin Range(ray) /\ IsInjective(ray)
    BY <2>1 DEF Range, IsInjective
  <2>3. QED
    BY <1>2, <2>1, <2>2 DEF Straight
<1>3. CASE s # e
  <2>1. PICK way : WayMade(way, long, short) /\ ray = RayOf(s, e, way)
    BY <1>3, RayHasWay
  <2> DEFINE X(i) == IF dx > dy THEN i - 1 ELSE way[i]
             Y(i) == IF dx > dy THEN way[i] ELSE i - 1
  <2>2. ASSUME NEW i \in 1 .. long
        PROVE  /\ X(i) \in 0 .. dx /\ Y(i) \in 0 .. dy
               /\ ray[i][1] = s[1] + Sign(s[1], e[1]) * X(i)
               /\ ray[i][2] = s[2] + Sign(s[2], e[2]) * Y(i)
    BY <2>1, RayOnAxes
  <2>3. s[1] \in Int /\ s[2] \in Int /\ e[1] \in Int /\ e[2] \in Int
    OBVIOUS
  <2>4. ASSUME NEW i \in 1 .. long
        PROVE  /\ Distance(s[1], ray[i][1]) = X(i) /\ Distance(ray[i][1], e[1]) = dx - X(i)
               /\ Distance(s[2], ray[i][2]) = Y(i) /\ Distance(ray[i][2], e[2]) = dy - Y(i)
    BY <2>2, <2>3, AxisPlace
  <2>5. ASSUME NEW i \in 1 .. long, NEW j \in 1 .. long
        PROVE  /\ Distance(ray[i][1], ray[j][1]) = Distance(X(i), X(j))
               /\ Distance(ray[i][2], ray[j][2]) = Distance(Y(i), Y(j))
    <3>1. X(i) \in Int /\ X(j) \in Int /\ Y(i) \in Int /\ Y(j) \in Int
      BY <1>0, <2>2
    <3> HIDE DEF X, Y
    <3>2. QED
      BY <2>2, <2>3, <3>1, AxisPlaces
  <2>6. /\ way \in [0 .. long -> Int] /\ way[long] = short
        /\ \A i \in 1 .. long : way[i] = way[i - 1] \/ way[i] = way[i - 1] + 1
        /\ \A i \in 0 .. long : /\ 2 * (long * way[i]) <= 2 * (short * i) + long
                                /\ 2 * (short * i) < 2 * (long * way[i]) + long
    BY <2>1 DEF WayMade
  <2>7. long > 0 /\ \A i \in 1 .. long : i \in 0 .. long /\ way[i] \in Int
    <3>1. long > 0
      <4> HIDE DEF long
      <4>1. QED
        BY <1>0, <1>3
    <3>2. \A i \in 1 .. long : i \in 0 .. long
      BY <1>0
    <3> HIDE DEF long
    <3>3. QED
      BY <2>6, <3>1, <3>2
  <2>8. ASSUME NEW i \in 1 .. long
        PROVE  OnTheWay(ray[i])
    <3>1. /\ 2 * Distance(short * (i - 1), long * way[i]) <= 3 * long
          /\ 2 * Distance(long * way[i], short * (i - 1)) <= 3 * long
      <4> HIDE DEF long, short
      <4>1. QED
        BY <1>0, <2>6, <2>7, OffTheLine
    <3>2. 2 * Distance(dy * X(i), dx * Y(i)) <= 3 * long
      <4> HIDE DEF long, short, dx, dy
      <4>1. QED
        BY <1>0, <3>1
    <3>3. X(i) \in Int /\ Y(i) \in Int
      BY <1>0, <2>2
    <3> HIDE DEF X, Y, long, dx, dy, ray
    <3>4. QED
      BY <1>0, <2>4, <3>2, <3>3
  <2>9. ASSUME NEW i \in 1 .. long, NEW j \in 1 .. long, ray[i] = ray[j]
        PROVE  i = j
    <3>1. X(i) = X(j) /\ Y(i) = Y(j)
      <4>1. X(i) = Distance(s[1], ray[i][1]) /\ X(j) = Distance(s[1], ray[j][1])
        BY <2>4
      <4>2. Y(i) = Distance(s[2], ray[i][2]) /\ Y(j) = Distance(s[2], ray[j][2])
        BY <2>4
      <4> HIDE DEF X, Y, ray
      <4>3. QED
        BY <2>9, <4>1, <4>2
    <3>2. i - 1 = j - 1
      BY <3>1
    <3>3. QED
      BY <1>0, <3>2
  <2>10. ASSUME NEW i \in 1 .. long
         PROVE  ray[i] # e
    <3>1. SUFFICES ASSUME ray[i] = e PROVE FALSE
      OBVIOUS
    <3>2. Distance(e[1], e[1]) = 0 /\ Distance(e[2], e[2]) = 0
      BY <2>3, DistanceIs
    <3>3. dx - X(i) = 0 /\ dy - Y(i) = 0
      <4>1. dx - X(i) = Distance(ray[i][1], e[1]) /\ dy - Y(i) = Distance(ray[i][2], e[2])
        BY <2>4
      <4> HIDE DEF X, Y, ray, dx, dy
      <4>2. QED
        BY <3>1, <3>2, <4>1
    <3> HIDE DEF dx, dy, long
    <3>4. QED
      BY <1>0, <3>3
  <2>11. Neighbours(ray[long], e)
    <3>1. long \in 1 .. long
      BY <1>0, <2>7
    <3>2. /\ Distance(ray[long][1], e[1]) = dx - X(long)
          /\ Distance(ray[long][2], e[2]) = dy - Y(long)
      BY <2>4, <3>1
    <3>3. dx - X(long) <= 1 /\ dy - Y(long) <= 1
      <4> HIDE DEF dx, dy, long, short
      <4>1. QED
        BY <1>0, <2>6
    <3> HIDE DEF X, Y, ray, dx, dy
    <3>4. QED
      BY <3>2, <3>3
  <2>12. ASSUME NEW i \in 1 .. long - 1
         PROVE  Neighbours(ray[i], ray[i + 1])
    <3>1. i \in 1 .. long /\ i + 1 \in 1 .. long /\ (i + 1) - 1 = i
      BY <1>0
    <3>2. way[i + 1] = way[i] \/ way[i + 1] = way[i] + 1
      BY <2>6, <3>1
    <3>3. way[i] \in Int /\ way[i + 1] \in Int
      BY <2>7, <3>1
    <3>4. Distance(i - 1, i) <= 1 /\ Distance(way[i], way[i + 1]) <= 1
      BY <3>1, <3>2, <3>3 DEF Distance
    <3>5. Distance(X(i), X(i + 1)) <= 1 /\ Distance(Y(i), Y(i + 1)) <= 1
      <4> HIDE DEF dx, dy
      <4>1. QED
        BY <3>1, <3>4
    <3>6. /\ Distance(ray[i][1], ray[i + 1][1]) = Distance(X(i), X(i + 1))
          /\ Distance(ray[i][2], ray[i + 1][2]) = Distance(Y(i), Y(i + 1))
      BY <2>5, <3>1
    <3> HIDE DEF X, Y, ray
    <3>7. QED
      BY <3>5, <3>6
  <2>13. e \notin Range(ray) /\ IsInjective(ray)
    <3> HIDE DEF ray, long
    <3>1. QED
      BY <1>1, <2>9, <2>10 DEF Range, IsInjective
  <2>14. QED
    BY <1>1, <2>8, <2>11, <2>12, <2>13 DEF Straight
<1>4. QED
  BY <1>2, <1>3

\* UpdateCellsOnBresenhamLine: the ray from the car to any point is a chain of cells along
\* the line, none twice, up to the point and without it.
THEOREM RaysAreStraight == Spec => []RayIsStraight
<1>1. MapInv => RayIsStraight
  <2> SUFFICES ASSUME MapInv PROVE RayIsStraight
    OBVIOUS
  <2>1. cur_pose \in Poses \cup {NoPose}
    BY DEF MapInv, TypeOK
  <2>2. At(cur_pose) \in Int \X Int
    BY <2>1, CarOnMap
  <2>3. Points \subseteq Int \X Int
    BY CostmapAssumption, Zenon
  <2>4. \A e \in Points : Straight(At(cur_pose), e)
    BY <2>2, <2>3, StraightRay
  <2>5. QED
    BY <2>4 DEF RayIsStraight, CrookedFrom
<1>2. QED
  BY <1>1, MapIsKept, PTL

-----------------------------------------------------------------------------
(* The markers of the boxes. *)

\* The count that is remembered is the number of boxes published last.
MarkersInv ==
  /\ IsFiniteSet(boxes)
  /\ last_marker_id = Cardinality(boxes)
  /\ MarkersAreTheBoxes

LEMMA CloudKeepsMarkers ==
  ASSUME MarkersInv, NEW msg \in Clouds, PointCloudCallback(msg)
  PROVE  MarkersInv'
<1>1. CASE UNCHANGED <<boxes, last_marker_id, markers>>
  BY <1>1 DEF MarkersInv, MarkersAreTheBoxes
<1>2. CASE /\ UpdateCostmap(Seen(cur_pose, Front(msg)))
           /\ PublishMarkers(Cardinality(boxes'))
  <2> DEFINE number == Cardinality(boxes')
  <2>1. IsFiniteSet(boxes') /\ number \in Nat /\ last_marker_id \in Nat
    <3>1. IsFiniteSet(boxes')
      BY <1>2, BoxesAreFinite DEF UpdateCostmap
    <3> QED
      BY <3>1, FS_CardinalityType DEF MarkersInv
  <2>2. /\ markers = 0 .. last_marker_id - 1
        /\ markers' = (markers \cup (0 .. number - 1)) \ (number .. last_marker_id - 1)
        /\ last_marker_id' = number
    BY <1>2 DEF PublishMarkers, MarkersInv, MarkersAreTheBoxes
  <2> HIDE DEF number
  <2>3. markers' = 0 .. number - 1
    BY <2>1, <2>2
  <2> QED
    BY <2>1, <2>2, <2>3 DEF number, MarkersInv, MarkersAreTheBoxes
<1> QED
  BY <1>1, <1>2 DEF PointCloudCallback

\* The remembered count stays that of the boxes.
THEOREM MarkersAreKept == Spec => []MarkersInv
<1>1. Init => MarkersInv
  <2>1. IsFiniteSet({}) /\ Cardinality({}) = 0 /\ {} = 0 .. 0 - 1
    BY FS_EmptySet
  <2> QED
    BY <2>1 DEF Init, MarkersInv, MarkersAreTheBoxes
<1>2. MarkersInv /\ [Next]_vars => MarkersInv'
  <2> SUFFICES ASSUME MarkersInv, [Next]_vars PROVE MarkersInv'
    OBVIOUS
  <2>1. ASSUME NEW pose \in Poses, NavStateCallback(pose) PROVE MarkersInv'
    BY <2>1 DEF NavStateCallback, MarkersInv, MarkersAreTheBoxes
  <2>2. CASE UNCHANGED vars
    BY <2>2 DEF vars, MarkersInv, MarkersAreTheBoxes
  <2> QED
    BY <2>1, <2>2, CloudKeepsMarkers DEF Next
<1> QED
  BY <1>1, <1>2, PTL DEF Spec

\* PublishBoundingBoxes: the markers rviz shows are the boxes published last.
THEOREM RvizShowsTheBoxes == Spec => []MarkersAreTheBoxes
<1>1. MarkersInv => MarkersAreTheBoxes
  BY DEF MarkersInv
<1> QED
  BY <1>1, MarkersAreKept, PTL

=============================================================================
