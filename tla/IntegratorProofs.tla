-------------------------- MODULE IntegratorProofs --------------------------
(***************************************************************************)
(* What integrators take for granted of the cells that a measurement is    *)
(* about, for all rays, sensors and range images, and what distance fields *)
(* are, for all maps.                                                      *)
(*                                                                         *)
(* Rays: the iterator is in a cell if the boundaries it has crossed come   *)
(* before those it has not; those are the cells the segment is in.         *)
(*                                                                         *)
(* Range image bounds: each level of a pyramid bounds the pixels under its *)
(* nodes, and at most four nodes have every pixel of an interval under     *)
(* them, across the seam too.                                              *)
(*                                                                         *)
(* Distance fields: the loops over neighbours keep all signs, and seeds    *)
(* bound what the wavefront has when it enters an obstacle.                *)
(***************************************************************************)
EXTENDS RayCasting, RangeBounds, DistanceField, NumberLemmas, FiniteSetTheorems,
        SequenceTheorems, TLAPS

-----------------------------------------------------------------------------
(* Rays                                                                    *)

\* The steps of a ray along an axis, and when it makes them.
RayStart(r, a) == NearestIndex(r[1])[a]
RayEnd(r, a) == NearestIndex(r[3])[a]
Steps(r, a) == AbsOf(RayEnd(r, a) - RayStart(r, a))
StepTime(r, a, k) == FirstT(r, a) + k * StepT(r, a)

\* A point lies between the boundaries of its cell, not on them.
LEMMA PointInCell ==
  ASSUME NEW r \in Rays, NEW i \in 1..3, NEW a \in RayAxis
  PROVE  /\ r[i][a] \in Int /\ NearestIndex(r[i])[a] \in Int
         /\ NearestIndex(r[i])[a] * CellWidth < r[i][a]
         /\ r[i][a] < (NearestIndex(r[i])[a] + 1) * CellWidth
<1>1. r[i][a] \in Int BY RayAssumption
<1>2. r[i][a] % CellWidth # 0 BY RayAssumption
<1>3. CellWidth \in Nat \ {0} BY RayAssumption
<1>4. NearestIndex(r[i])[a] = r[i][a] \div CellWidth BY DEF NearestIndex, RayAxis
<1>5. ASSUME NEW x \in Int, NEW w \in Nat \ {0}, x % w # 0
      PROVE  /\ x \div w \in Int
             /\ (x \div w) * w < x /\ x < ((x \div w) + 1) * w
  <2>1. PICK q \in Int, s \in 0..(w - 1) : x = w * q + s /\ x \div w = q /\ x % w = s
    BY <1>5, DivisionIs
  <2>2. q * w < x /\ x < (q + 1) * w
    <3>1. s \in Int /\ 0 < s /\ s < w BY <1>5, <2>1
    <3>2. q * w = w * q /\ (q + 1) * w = w * q + w /\ w * q \in Int BY <1>5, <2>1
    <3>3. x = w * q + s BY <2>1
    <3> QED BY <3>1, <3>2, <3>3
  <2> QED BY <2>1, <2>2
<1> QED BY <1>1, <1>2, <1>3, <1>4, <1>5

\* The scale of a parameter: along an axis, one unit of length takes `unit`.
LEMMA ScaleIs ==
  ASSUME NEW r \in Rays, NEW a \in RayAxis
  PROVE  /\ Along(r, a) \in Int /\ Scale(r) \in Nat \ {0}
         /\ Along(r, a) # 0 =>
              /\ Scale(r) \div AbsOf(Along(r, a)) \in Nat \ {0}
              /\ Scale(r) = AbsOf(Along(r, a)) * (Scale(r) \div AbsOf(Along(r, a)))
<1>1. ASSUME NEW b \in RayAxis PROVE Along(r, b) \in Int
  BY PointInCell DEF Along
<1> DEFINE m(b) == IF Along(r, b) = 0 THEN 1 ELSE AbsOf(Along(r, b))
<1>2. ASSUME NEW b \in RayAxis PROVE m(b) \in Nat \ {0}
  BY <1>1 DEF AbsOf
<1>3. Scale(r) = m(1) * m(2) BY DEF Scale
<1>4. 1 \in RayAxis /\ 2 \in RayAxis BY DEF RayAxis
<1>5. ASSUME NEW x \in Nat \ {0}, NEW y \in Nat \ {0}
      PROVE  /\ x * y \in Nat \ {0} /\ x * y = y * x
             /\ (x * y) \div x = y /\ (x * y) \div y = x
  <2>1. x * y \in Nat \ {0} /\ x * y = y * x BY <1>5
  <2>2. ASSUME NEW u \in Nat \ {0}, NEW v \in Nat \ {0} PROVE (u * v) \div u = v
    <3>1. 0 \in 0..(u - 1) /\ v \in Int BY <2>2
    <3>2. (u * v + 0) \div u = v BY <2>2, <3>1, QuotientIs
    <3>3. u * v + 0 = u * v BY <2>2
    <3> QED BY <3>2, <3>3
  <2> QED BY <2>1, <2>2
<1>6. m(1) \in Nat \ {0} /\ m(2) \in Nat \ {0} BY <1>2, <1>4
<1>7. Along(r, a) # 0 => m(a) = AbsOf(Along(r, a)) OBVIOUS
<1> HIDE DEF m
<1>8. /\ Scale(r) \in Nat \ {0}
      /\ Scale(r) \div m(1) = m(2) /\ Scale(r) \div m(2) = m(1)
      /\ Scale(r) = m(1) * m(2) /\ Scale(r) = m(2) * m(1)
  BY <1>3, <1>5, <1>6
<1>9. a = 1 \/ a = 2 BY DEF RayAxis
<1> QED BY <1>1, <1>6, <1>7, <1>8, <1>9

\* Along an axis along which it moves, a ray crosses a boundary before it
\* ends if and only if it has steps left.
LEMMA BoundaryBeforeEnd ==
  ASSUME NEW o \in Int, NEW g \in Int, NEW w \in Nat \ {0}, NEW A \in Int, NEW B \in Int,
         A * w < o, o < (A + 1) * w, B * w < g, g < (B + 1) * w, NEW k \in Int
  PROVE  /\ g - o > 0 => /\ B - A >= 0
                         /\ k < B - A => ((A + 1) * w - o) + k * w < g - o
                         /\ k >= B - A => ((A + 1) * w - o) + k * w > g - o
         /\ g - o < 0 => /\ A - B >= 0
                         /\ k < A - B => (o - A * w) + k * w < o - g
                         /\ k >= A - B => (o - A * w) + k * w > o - g
<1> DEFINE up == (A + 1) + k
           down == A - k
<1>1. up \in Int /\ down \in Int OBVIOUS
<1>2. up * w = (A + 1) * w + k * w /\ down * w = A * w - k * w
  <2>1. k * w \in Int /\ A * w \in Int OBVIOUS
  <2> QED BY <2>1
<1>3. up < B + 1 => up * w <= B * w BY <1>1, ProductOrder
<1>4. up >= B + 1 => (B + 1) * w <= up * w BY <1>1, ProductOrder
<1>5. down > B => (B + 1) * w <= down * w
  <2>1. down > B => B + 1 <= down BY <1>1
  <2> QED BY <1>1, <2>1, ProductOrder
<1>6. down <= B => down * w <= B * w BY <1>1, ProductOrder
<1>7. B < A => (B + 1) * w <= A * w
  <2>1. B < A => B + 1 <= A OBVIOUS
  <2> QED BY <2>1, ProductOrder
<1>8. A < B => (A + 1) * w <= B * w
  <2>1. A < B => A + 1 <= B OBVIOUS
  <2> QED BY <2>1, ProductOrder
<1>9. PICK aw \in Int, bw \in Int, kw \in Int, aw1 \in Int, bw1 \in Int :
        aw = A * w /\ bw = B * w /\ kw = k * w /\ aw1 = (A + 1) * w /\ bw1 = (B + 1) * w
  OBVIOUS
<1>10. up < B + 1 <=> k < B - A OBVIOUS
<1>11. down > B <=> k < A - B OBVIOUS
<1>12. PICK u \in Int, v \in Int : u = up /\ v = down BY <1>1
<1> HIDE DEF up, down
<1>13. ASSUME g - o > 0
       PROVE /\ B - A >= 0
             /\ k < B - A => (aw1 - o) + kw < g - o
             /\ k >= B - A => (aw1 - o) + kw > g - o
  <2>1. B - A >= 0 BY <1>7, <1>9, <1>13
  <2>2. k < B - A => (aw1 - o) + kw < g - o BY <1>2, <1>3, <1>9, <1>10, <1>12
  <2>3. k >= B - A => (aw1 - o) + kw > g - o BY <1>2, <1>4, <1>9, <1>10, <1>12
  <2> QED BY <2>1, <2>2, <2>3
<1>14. ASSUME g - o < 0
       PROVE /\ A - B >= 0
             /\ k < A - B => (o - aw) + kw < o - g
             /\ k >= A - B => (o - aw) + kw > o - g
  <2>1. A - B >= 0 BY <1>8, <1>9, <1>14
  <2>2. k < A - B => (o - aw) + kw < o - g BY <1>2, <1>5, <1>9, <1>11, <1>12
  <2>3. k >= A - B => (o - aw) + kw > o - g BY <1>2, <1>6, <1>9, <1>11, <1>12
  <2> QED BY <2>1, <2>2, <2>3
<1> QED BY <1>9, <1>13, <1>14

\* How far it is to the first boundary, and to the end, along an axis.
ToBoundary(r, a) == (FirstBoundary(r, a) - r[1][a]) * SignOf(Along(r, a))
Unit(r, a) == Scale(r) \div AbsOf(Along(r, a))

\* The length along an axis after which a ray makes a step, in its time.
LEMMA MovingAxis ==
  ASSUME NEW r \in Rays, NEW a \in RayAxis, Along(r, a) # 0, NEW k \in Int
  PROVE  /\ ToBoundary(r, a) \in Int /\ 0 < ToBoundary(r, a) /\ ToBoundary(r, a) < CellWidth
         /\ Steps(r, a) \in Nat
         /\ k < Steps(r, a) => ToBoundary(r, a) + k * CellWidth < AbsOf(Along(r, a))
         /\ k >= Steps(r, a) => ToBoundary(r, a) + k * CellWidth > AbsOf(Along(r, a))
         /\ StepTime(r, a, k) = (ToBoundary(r, a) + k * CellWidth) * Unit(r, a)
         /\ StepT(r, a) = CellWidth * Unit(r, a)
<1>1. 1 \in 1..3 /\ 3 \in 1..3 OBVIOUS
<1>2. PICK o \in Int, g \in Int, A \in Int, B \in Int :
        /\ o = r[1][a] /\ g = r[3][a] /\ A = RayStart(r, a) /\ B = RayEnd(r, a)
        /\ A * CellWidth < o /\ o < (A + 1) * CellWidth
        /\ B * CellWidth < g /\ g < (B + 1) * CellWidth
  BY <1>1, PointInCell DEF RayStart, RayEnd
<1>3. PICK w \in Nat \ {0} : w = CellWidth BY RayAssumption
<1>4. Along(r, a) = g - o BY <1>2 DEF Along
<1>5. /\ g - o > 0 => /\ B - A >= 0
                      /\ k < B - A => ((A + 1) * w - o) + k * w < g - o
                      /\ k >= B - A => ((A + 1) * w - o) + k * w > g - o
      /\ g - o < 0 => /\ A - B >= 0
                      /\ k < A - B => (o - A * w) + k * w < o - g
                      /\ k >= A - B => (o - A * w) + k * w > o - g
  BY <1>2, <1>3, BoundaryBeforeEnd
<1>6. Steps(r, a) = AbsOf(B - A) BY <1>2 DEF Steps
<1>7. FirstBoundary(r, a) = (A + (IF g - o > 0 THEN 1 ELSE 0)) * w
  BY <1>2, <1>3, <1>4 DEF FirstBoundary, RayStart
<1>8. ToBoundary(r, a) = (FirstBoundary(r, a) - o) * SignOf(g - o) BY <1>2, <1>4 DEF ToBoundary
<1>9. (A + 1) * w = A * w + w /\ A * w \in Int BY <1>3
<1>10. /\ g - o > 0 => ToBoundary(r, a) = (A + 1) * w - o
       /\ g - o < 0 => ToBoundary(r, a) = o - A * w
  <2>1. g - o > 0 => ToBoundary(r, a) = ((A + 1) * w - o) * 1 BY <1>7, <1>8 DEF SignOf
  <2>2. g - o < 0 => ToBoundary(r, a) = ((A + 0) * w - o) * (-1) BY <1>7, <1>8 DEF SignOf
  <2> QED BY <2>1, <2>2, <1>9
<1>11. PICK t \in Int : t = ToBoundary(r, a)
  BY <1>10, <1>9, <1>4
<1>12. AbsOf(g - o) = (IF g - o > 0 THEN g - o ELSE o - g) /\ AbsOf(B - A) \in Nat
       /\ (B - A >= 0 => AbsOf(B - A) = B - A) /\ (A - B >= 0 => AbsOf(B - A) = A - B)
  BY DEF AbsOf
<1>13. 0 < t /\ t < w
  BY <1>2, <1>3, <1>4, <1>9, <1>10, <1>11
<1>14. /\ k < AbsOf(B - A) => t + k * w < AbsOf(g - o)
       /\ k >= AbsOf(B - A) => t + k * w > AbsOf(g - o)
  <2>1. CASE g - o > 0 BY <2>1, <1>5, <1>10, <1>11, <1>12
  <2>2. CASE g - o < 0 BY <2>2, <1>5, <1>10, <1>11, <1>12
  <2> QED BY <2>1, <2>2, <1>4
<1>15. Unit(r, a) \in Nat \ {0} BY ScaleIs DEF Unit
<1>16. FirstT(r, a) = t * Unit(r, a) /\ StepT(r, a) = w * Unit(r, a)
  BY <1>3, <1>11 DEF FirstT, StepT, ToBoundary, Unit
<1>17. StepTime(r, a, k) = (t + k * w) * Unit(r, a)
  <2>1. PICK u \in Int : u = Unit(r, a) BY <1>15
  <2>2. t * u + k * (w * u) = (t + k * w) * u BY <1>3
  <2> QED BY <2>1, <2>2, <1>16 DEF StepTime
<1> QED BY <1>3, <1>4, <1>6, <1>11, <1>12, <1>13, <1>14, <1>16, <1>17

\* The ray is in its last cell along an axis once no boundary is left before
\* its end; it is never on a boundary at its end.
LEMMA TimesAre ==
  ASSUME NEW r \in Rays, NEW a \in RayAxis
  PROVE  /\ Steps(r, a) \in Nat /\ RayStart(r, a) \in Int /\ RayEnd(r, a) \in Int
         /\ Scale(r) \in Nat \ {0}
         /\ \A k \in Int : /\ StepTime(r, a, k) \in Int
                           /\ k < Steps(r, a) => StepTime(r, a, k) < Scale(r)
                           /\ k >= Steps(r, a) => StepTime(r, a, k) > Scale(r)
                           /\ StepTime(r, a, k + 1) = StepTime(r, a, k) + StepT(r, a)
                           /\ k < 0 => StepTime(r, a, k) <= 0
                           /\ k >= 0 => StepTime(r, a, k) > 0
                           /\ Along(r, a) # 0 /\ k < 0 => StepTime(r, a, k) < 0
         /\ \A j, k \in Int : j < k => StepTime(r, a, j) < StepTime(r, a, k)
         /\ Along(r, a) = 0 => Steps(r, a) = 0 /\ RayStart(r, a) = RayEnd(r, a)
<1>1. 1 \in 1..3 /\ 3 \in 1..3 OBVIOUS
<1>2. RayStart(r, a) \in Int /\ RayEnd(r, a) \in Int BY <1>1, PointInCell DEF RayStart, RayEnd
<1>3. PICK S \in Nat \ {0} : S = Scale(r) BY ScaleIs
<1>4. CASE Along(r, a) = 0
  <2>1. r[1][a] = r[3][a]
    <3>1. r[1][a] \in Int /\ r[3][a] \in Int BY <1>1, PointInCell
    <3> QED BY <1>4, <3>1 DEF Along
  <2>2. RayStart(r, a) = RayEnd(r, a) BY <2>1 DEF RayStart, RayEnd, NearestIndex, RayAxis
  <2>3. Steps(r, a) = 0 BY <2>2, <1>2 DEF Steps, AbsOf
  <2>4. FirstT(r, a) = 2 * S /\ StepT(r, a) = 2 * S BY <1>3, <1>4 DEF FirstT, StepT
  <2>5. \A k \in Int : StepTime(r, a, k) = 2 * S + k * (2 * S) BY <2>4 DEF StepTime
  <2>6. ASSUME NEW j \in Int, NEW k \in Int, j < k PROVE StepTime(r, a, j) < StepTime(r, a, k)
    <3>1. 2 * S \in Nat \ {0} OBVIOUS
    <3>2. j * (2 * S) < k * (2 * S) BY <2>6, <3>1, ProductOrder
    <3>3. j * (2 * S) \in Int /\ k * (2 * S) \in Int BY <3>1
    <3> QED BY <2>5, <3>2, <3>3
  <2>7. ASSUME NEW k \in Int
        PROVE  /\ StepTime(r, a, k) \in Int
               /\ StepTime(r, a, k + 1) = StepTime(r, a, k) + 2 * S
               /\ k < 0 => StepTime(r, a, k) <= 0
               /\ k >= 0 => StepTime(r, a, k) > S
    <3>1. k + 1 \in Int /\ (k + 1) * (2 * S) = k * (2 * S) + 2 * S /\ k * (2 * S) \in Int OBVIOUS
    <3>2. k < 0 => k * (2 * S) + 2 * S <= 0
      <4>1. 2 * S \in Nat \ {0} OBVIOUS
      <4>2. k < 0 => k * (2 * S) + 2 * S <= 0 * (2 * S) BY <4>1, ProductOrder
      <4> QED BY <4>2
    <3>3. k >= 0 => k * (2 * S) >= 0 OBVIOUS
    <3> QED BY <2>5, <3>1, <3>2, <3>3
  <2>8. \A k \in Int : /\ StepTime(r, a, k) \in Int
                       /\ k < 0 => StepTime(r, a, k) < S
                       /\ k >= 0 => StepTime(r, a, k) > S
                       /\ StepTime(r, a, k + 1) = StepTime(r, a, k) + StepT(r, a)
                       /\ k < 0 => StepTime(r, a, k) <= 0
                       /\ k >= 0 => StepTime(r, a, k) > 0
    BY <2>4, <2>7
  <2>9. S \in Nat \ {0} OBVIOUS
  <2> QED BY <1>2, <1>3, <1>4, <2>2, <2>3, <2>6, <2>8, <2>9
<1>5. CASE Along(r, a) # 0
  <2>1. PICK t \in Int : t = ToBoundary(r, a) /\ 0 < t /\ t < CellWidth
    <3>1. 0 \in Int OBVIOUS
    <3> QED BY <1>5, <3>1, MovingAxis
  <2>2. PICK u \in Nat \ {0} : u = Unit(r, a) BY <1>5, ScaleIs DEF Unit
  <2>3. PICK w \in Nat \ {0} : w = CellWidth BY RayAssumption
  <2>4. PICK d \in Int : d = AbsOf(Along(r, a)) BY ScaleIs DEF AbsOf
  <2>5. S = d * u BY <1>3, <1>5, <2>2, <2>4, ScaleIs DEF Unit
  <2>6. PICK n \in Nat : n = Steps(r, a)
    <3>1. 0 \in Int OBVIOUS
    <3> QED BY <1>5, <3>1, MovingAxis
  <2>7. \A k \in Int : StepTime(r, a, k) = (t + k * w) * u
    BY <1>5, <2>1, <2>2, <2>3, MovingAxis
  <2>8. StepT(r, a) = w * u BY <1>5, <2>2, <2>3, MovingAxis
  <2>9. ASSUME NEW j \in Int, NEW k \in Int, j < k PROVE StepTime(r, a, j) < StepTime(r, a, k)
    <3>1. t + j * w \in Int /\ t + k * w \in Int OBVIOUS
    <3>2. t + j * w < t + k * w
      <4>1. j * w < k * w /\ j * w \in Int /\ k * w \in Int BY <2>9, ProductOrder
      <4> QED BY <4>1
    <3>3. (t + j * w) * u < (t + k * w) * u BY <3>1, <3>2, ProductOrder
    <3> QED BY <3>3, <2>7
  <2>10. ASSUME NEW k \in Int
         PROVE  /\ StepTime(r, a, k) \in Int
                /\ k < n => StepTime(r, a, k) < S
                /\ k >= n => StepTime(r, a, k) > S
                /\ StepTime(r, a, k + 1) = StepTime(r, a, k) + w * u
                /\ k < 0 => StepTime(r, a, k) < 0
                /\ k >= 0 => StepTime(r, a, k) > 0
    <3>1. PICK x \in Int : x = t + k * w OBVIOUS
    <3>2. StepTime(r, a, k) = x * u BY <2>7, <3>1
    <3>3. StepTime(r, a, k + 1) = (t + (k + 1) * w) * u
      <4>1. k + 1 \in Int OBVIOUS
      <4> QED BY <4>1, <2>7
    <3>4. (t + (k + 1) * w) * u = x * u + w * u
      <4>1. (t + (k + 1) * w) = x + w BY <3>1
      <4>2. (x + w) * u = x * u + w * u OBVIOUS
      <4> QED BY <4>1, <4>2
    <3>5. k < n => x < d BY <1>5, <2>1, <2>3, <2>4, <2>6, <3>1, MovingAxis
    <3>6. k >= n => d < x BY <1>5, <2>1, <2>3, <2>4, <2>6, <3>1, MovingAxis
    <3>7. k < n => x * u < d * u BY <3>5, ProductOrder
    <3>8. k >= n => d * u < x * u BY <3>6, ProductOrder
    <3>9. k < 0 => x < 0
      <4>1. k < 0 => k * w + w <= 0 * w BY ProductOrder
      <4> QED BY <4>1, <3>1, <2>1, <2>3
    <3>10. k >= 0 => 0 < x
      <4>1. k >= 0 => k * w >= 0 OBVIOUS
      <4> QED BY <4>1, <3>1, <2>1
    <3>11. k < 0 => x * u < 0 * u BY <3>9, ProductOrder
    <3>12. k >= 0 => 0 * u < x * u BY <3>10, ProductOrder
    <3>13. x * u \in Int /\ 0 * u = 0 OBVIOUS
    <3> QED BY <2>5, <3>2, <3>3, <3>4, <3>7, <3>8, <3>11, <3>12, <3>13
  <2>11. S \in Nat \ {0} OBVIOUS
  <2>12. \A k \in Int : /\ StepTime(r, a, k) \in Int
                        /\ k < n => StepTime(r, a, k) < S
                        /\ k >= n => StepTime(r, a, k) > S
                        /\ StepTime(r, a, k + 1) = StepTime(r, a, k) + StepT(r, a)
                        /\ k < 0 => StepTime(r, a, k) < 0
                        /\ k >= 0 => StepTime(r, a, k) > 0
    BY <2>8, <2>10
  <2>13. \A k \in Int : StepTime(r, a, k) < 0 => StepTime(r, a, k) <= 0 BY <2>12
  <2> QED BY <1>2, <1>3, <1>5, <2>6, <2>9, <2>11, <2>12, <2>13
<1> QED BY <1>4, <1>5

\* When the ray enters and leaves a cell, along an axis.
LEMMA ExtentIs ==
  ASSUME ray \in Rays, NEW a \in RayAxis, NEW c, c[a] \in Int, NEW j \in Int
  PROVE  /\ Along(ray, a) # 0 /\ c[a] = RayStart(ray, a) + SignOf(Along(ray, a)) * j =>
              Extent(c, a) = <<StepTime(ray, a, j - 1), StepTime(ray, a, j)>>
         /\ Along(ray, a) = 0 =>
              Extent(c, a) = IF c[a] = RayStart(ray, a) THEN <<0, Scale(ray)>>
                                                        ELSE <<Scale(ray) + 1, 0>>
<1>1. 1 \in 1..3 OBVIOUS
<1>2. PICK o \in Int, A \in Int :
        /\ o = Origin[a] /\ o = ray[1][a] /\ A = RayStart(ray, a)
        /\ A * CellWidth < o /\ o < (A + 1) * CellWidth
  BY <1>1, PointInCell DEF RayStart, Origin
<1>3. PICK w \in Nat \ {0} : w = CellWidth BY RayAssumption
<1>4. PICK d \in Int : d = Along(ray, a) BY ScaleIs
<1>5. PICK x \in Int : x = c[a] OBVIOUS
<1>6. ASSUME d # 0, x = A + SignOf(d) * j
      PROVE  Extent(c, a) = <<StepTime(ray, a, j - 1), StepTime(ray, a, j)>>
  <2>1. PICK u \in Nat \ {0} : u = Unit(ray, a) BY <1>4, <1>6, ScaleIs DEF Unit
  <2>2. PICK b \in Int : b = FirstBoundary(ray, a) /\ b = (A + (IF d > 0 THEN 1 ELSE 0)) * w
    BY <1>2, <1>3, <1>4 DEF FirstBoundary, RayStart
  <2>3. \A k \in Int : StepTime(ray, a, k) = ((b - o) * SignOf(d) + k * w) * u
    <3>1. \A k \in Int : StepTime(ray, a, k) = (ToBoundary(ray, a) + k * CellWidth) * Unit(ray, a)
      BY <1>4, <1>6, MovingAxis
    <3> QED BY <3>1, <2>1, <2>2, <1>2, <1>3, <1>4 DEF ToBoundary
  <2>4. j - 1 \in Int OBVIOUS
  <2>5. CASE d > 0
    <3>1. x = A + j /\ b = A * w + w /\ SignOf(d) = 1 BY <1>6, <2>2, <2>5 DEF SignOf
    <3>2. Extent(c, a) = <<(x * w - o) * u, (x * w + w - o) * u>>
      BY <1>2, <1>3, <1>4, <1>5, <2>1, <2>5 DEF Extent, Unit
    <3>3. StepTime(ray, a, j - 1) = ((b - o) * 1 + (j - 1) * w) * u
      BY <2>3, <2>4, <3>1
    <3>4. StepTime(ray, a, j) = ((b - o) * 1 + j * w) * u
      BY <2>3, <3>1
    <3>5. x * w = A * w + j * w /\ (j - 1) * w = j * w - w /\ A * w \in Int /\ j * w \in Int BY <3>1
    <3>6. (b - o) * 1 + (j - 1) * w = x * w - o /\ (b - o) * 1 + j * w = x * w + w - o
      BY <3>1, <3>5
    <3> QED BY <3>2, <3>3, <3>4, <3>6
  <2>6. CASE d < 0
    <3>1. x = A - j /\ b = A * w /\ SignOf(d) = -1 BY <1>6, <2>2, <2>6 DEF SignOf
    <3>2. Extent(c, a) = <<(o - (x * w + w)) * u, (o - x * w) * u>>
      BY <1>2, <1>3, <1>4, <1>5, <2>1, <2>6 DEF Extent, Unit
    <3>3. StepTime(ray, a, j - 1) = ((b - o) * (-1) + (j - 1) * w) * u
      BY <2>3, <2>4, <3>1
    <3>4. StepTime(ray, a, j) = ((b - o) * (-1) + j * w) * u
      BY <2>3, <3>1
    <3>5. x * w = A * w - j * w /\ (j - 1) * w = j * w - w /\ A * w \in Int /\ j * w \in Int BY <3>1
    <3>6. (b - o) * (-1) + (j - 1) * w = o - (x * w + w) /\ (b - o) * (-1) + j * w = o - x * w
      BY <3>1, <3>5
    <3> QED BY <3>2, <3>3, <3>4, <3>6
  <2> QED BY <1>6, <2>5, <2>6
<1>7. ASSUME d = 0
      PROVE  Extent(c, a) = IF x = A THEN <<0, Scale(ray)>> ELSE <<Scale(ray) + 1, 0>>
  <2>1. x * w < o /\ o < x * w + w <=> x = A
    <3>1. x < A => x * w + w <= A * w BY ProductOrder
    <3>2. A < x => A * w + w <= x * w BY ProductOrder
    <3>3. A * w \in Int /\ x * w \in Int /\ (A + 1) * w = A * w + w OBVIOUS
    <3> QED BY <3>1, <3>2, <3>3, <1>2, <1>3
  <2>2. Extent(c, a) = IF x * w < o /\ o < x * w + w THEN <<0, Scale(ray)>> ELSE <<Scale(ray) + 1, 0>>
    BY <1>2, <1>3, <1>4, <1>5, <1>7 DEF Extent
  <2> QED BY <2>1, <2>2
<1> QED BY <1>2, <1>4, <1>5, <1>6, <1>7

\* The cell after so many steps along each axis; the iterator is there if the
\* boundaries it has crossed come before those it has not.
CellOn(r, j, k) == <<RayStart(r, 1) + SignOf(Along(r, 1)) * j, RayStart(r, 2) + SignOf(Along(r, 2)) * k>>
OnRay(r, j, k) == /\ StepTime(r, 1, j - 1) <= StepTime(r, 2, k)
                  /\ StepTime(r, 2, k - 1) < StepTime(r, 1, j)
Passed(r, c, m) == \E j \in 0..Steps(r, 1), k \in 0..Steps(r, 2) :
                     c = CellOn(r, j, k) /\ OnRay(r, j, k) /\ j + k < m

\* No two cells after the same number of steps.
LEMMA OneCellAtATime ==
  ASSUME NEW r \in Rays, NEW i \in Int, NEW j \in Int, NEW k \in Int, NEW l \in Int,
         OnRay(r, i, j), OnRay(r, k, l), i + j = k + l
  PROVE  i = k /\ j = l
<1>1. 1 \in RayAxis /\ 2 \in RayAxis BY DEF RayAxis
<1>2. ASSUME NEW a \in Int, NEW b \in Int, NEW c \in Int, NEW d \in Int,
             OnRay(r, a, b), OnRay(r, c, d), a + b = c + d, a < c
      PROVE  FALSE
  <2>1. /\ StepTime(r, 1, c - 1) <= StepTime(r, 2, d)
        /\ StepTime(r, 2, b - 1) < StepTime(r, 1, a)
    BY <1>2 DEF OnRay
  <2>2. a = c - 1 \/ a < c - 1 BY <1>2
  <2>3. d = b - 1 \/ d < b - 1 BY <1>2
  <2>4. c - 1 \in Int /\ b - 1 \in Int OBVIOUS
  <2>5. /\ \A n \in Int : StepTime(r, 1, n) \in Int /\ StepTime(r, 2, n) \in Int
        /\ a < c - 1 => StepTime(r, 1, a) < StepTime(r, 1, c - 1)
        /\ d < b - 1 => StepTime(r, 2, d) < StepTime(r, 2, b - 1)
    BY <1>1, <2>4, TimesAre
  <2>6. PICK p \in Int, q \in Int, s \in Int, t \in Int :
          /\ p = StepTime(r, 1, a) /\ q = StepTime(r, 1, c - 1)
          /\ s = StepTime(r, 2, d) /\ t = StepTime(r, 2, b - 1)
    BY <2>4, <2>5
  <2>7. p <= q /\ s <= t BY <2>2, <2>3, <2>5, <2>6
  <2> QED BY <2>1, <2>6, <2>7
<1>3. ~(i < k) BY <1>2
<1>4. ~(k < i) BY <1>2
<1> QED BY <1>3, <1>4

\* The boundary that comes first is the next one to be crossed, and it is one
\* before the end.
LEMMA NextOnRay ==
  ASSUME NEW r \in Rays, NEW j \in Nat, NEW k \in Nat, OnRay(r, j, k)
  PROVE  /\ StepTime(r, 1, j) <= StepTime(r, 2, k) =>
              /\ OnRay(r, j + 1, k)
              /\ k <= Steps(r, 2) /\ j + k < Steps(r, 1) + Steps(r, 2) => j < Steps(r, 1)
         /\ ~(StepTime(r, 1, j) <= StepTime(r, 2, k)) =>
              /\ OnRay(r, j, k + 1)
              /\ j <= Steps(r, 1) /\ j + k < Steps(r, 1) + Steps(r, 2) => k < Steps(r, 2)
<1>1. 1 \in RayAxis /\ 2 \in RayAxis BY DEF RayAxis
<1>2. PICK S \in Int, n \in Int, m \in Int : S = Scale(r) /\ n = Steps(r, 1) /\ m = Steps(r, 2)
  BY <1>1, TimesAre
<1>3. PICK p \in Int, q \in Int, s \in Int, t \in Int :
        /\ p = StepTime(r, 1, j) /\ q = StepTime(r, 1, j + 1)
        /\ s = StepTime(r, 2, k) /\ t = StepTime(r, 2, k + 1)
  <2>1. j \in Int /\ j + 1 \in Int /\ k \in Int /\ k + 1 \in Int OBVIOUS
  <2>2. \A i \in Int : StepTime(r, 1, i) \in Int /\ StepTime(r, 2, i) \in Int BY <1>1, TimesAre
  <2> QED BY <2>1, <2>2
<1>4. PICK x \in Int, y \in Int : x = StepTime(r, 1, j - 1) /\ y = StepTime(r, 2, k - 1)
  <2>1. j - 1 \in Int /\ k - 1 \in Int OBVIOUS
  <2> QED BY <1>1, <2>1, TimesAre
<1>5. p < q /\ s < t
  <2>1. j < j + 1 /\ k < k + 1 /\ j + 1 \in Int /\ k + 1 \in Int OBVIOUS
  <2> QED BY <1>1, <1>3, <2>1, TimesAre
<1>6. x <= s /\ y < p BY <1>3, <1>4 DEF OnRay
<1>7. (j + 1) - 1 = j /\ (k + 1) - 1 = k OBVIOUS
<1>8. /\ j < n => p < S
      /\ j >= n => p > S
      /\ k < m => s < S
      /\ k >= m => s > S
  <2>1. j \in Int /\ k \in Int OBVIOUS
  <2>2. /\ \A i \in Int : i < n => StepTime(r, 1, i) < S
        /\ \A i \in Int : i >= n => StepTime(r, 1, i) > S
    BY <1>1, <1>2, TimesAre
  <2>3. /\ \A i \in Int : i < m => StepTime(r, 2, i) < S
        /\ \A i \in Int : i >= m => StepTime(r, 2, i) > S
    BY <1>1, <1>2, TimesAre
  <2> QED BY <1>3, <2>1, <2>2, <2>3
<1>9. OnRay(r, j + 1, k) <=> p <= s /\ y < q BY <1>3, <1>4, <1>7 DEF OnRay
<1>10. OnRay(r, j, k + 1) <=> x <= t /\ s < p BY <1>3, <1>4, <1>7 DEF OnRay
<1>11. ASSUME p <= s PROVE /\ OnRay(r, j + 1, k)
                           /\ k <= m /\ j + k < n + m => j < n
  BY <1>5, <1>6, <1>8, <1>9, <1>11
<1>12. ASSUME ~(p <= s) PROVE /\ OnRay(r, j, k + 1)
                              /\ j <= n /\ j + k < n + m => k < m
  BY <1>5, <1>6, <1>8, <1>10, <1>12
<1> QED BY <1>2, <1>3, <1>11, <1>12

LEMMA CellsDiffer ==
  ASSUME NEW r \in Rays, NEW a \in RayAxis, NEW j \in 0..Steps(r, a), NEW k \in 0..Steps(r, a),
         RayStart(r, a) + SignOf(Along(r, a)) * j = RayStart(r, a) + SignOf(Along(r, a)) * k
  PROVE  j = k
<1>1. PICK d \in Int, A \in Int, n \in Nat : d = Along(r, a) /\ A = RayStart(r, a) /\ n = Steps(r, a)
  BY ScaleIs, TimesAre
<1>0. j \in 0..n /\ k \in 0..n BY <1>1
<1>2. j \in 0..n /\ k \in 0..n /\ A + SignOf(d) * j = A + SignOf(d) * k BY <1>1
<1>3. CASE d = 0
  <2>1. n = 0 BY <1>1, <1>3, TimesAre
  <2> QED BY <1>0, <2>1
<1>4. CASE d > 0
  <2>1. SignOf(d) = 1 BY <1>4 DEF SignOf
  <2> QED BY <1>2, <2>1
<1>5. CASE d < 0
  <2>1. SignOf(d) = -1 BY <1>5 DEF SignOf
  <2> QED BY <1>2, <2>1
<1>6. d = 0 \/ d > 0 \/ d < 0 OBVIOUS
<1> QED BY <1>3, <1>4, <1>5, <1>6

\* The cell the iterator is at is the one that is passed next.
LEMMA PassedNext ==
  ASSUME NEW r \in Rays, NEW j \in 0..Steps(r, 1), NEW k \in 0..Steps(r, 2), OnRay(r, j, k)
  PROVE  /\ ~Passed(r, CellOn(r, j, k), j + k)
         /\ \A c : Passed(r, c, j + k + 1) <=> Passed(r, c, j + k) \/ c = CellOn(r, j, k)
<1>1. 1 \in RayAxis /\ 2 \in RayAxis BY DEF RayAxis
<1>2. Steps(r, 1) \in Nat /\ Steps(r, 2) \in Nat BY <1>1, TimesAre
<1>3. ASSUME Passed(r, CellOn(r, j, k), j + k) PROVE FALSE
  <2>1. PICK x \in 0..Steps(r, 1), y \in 0..Steps(r, 2) :
          CellOn(r, j, k) = CellOn(r, x, y) /\ x + y < j + k
    BY <1>3 DEF Passed
  <2>2. j = x BY <1>1, <2>1, CellsDiffer DEF CellOn
  <2>3. k = y BY <1>1, <2>1, CellsDiffer DEF CellOn
  <2> QED BY <1>2, <2>1, <2>2, <2>3
<1>4. ASSUME NEW c, Passed(r, c, j + k + 1) PROVE Passed(r, c, j + k) \/ c = CellOn(r, j, k)
  <2>1. PICK x \in 0..Steps(r, 1), y \in 0..Steps(r, 2) :
          c = CellOn(r, x, y) /\ OnRay(r, x, y) /\ x + y < j + k + 1
    BY <1>4 DEF Passed
  <2>2. x \in Int /\ y \in Int /\ j \in Int /\ k \in Int BY <1>2
  <2>3. x + y < j + k \/ x + y = j + k BY <2>1, <2>2
  <2>4. CASE x + y < j + k BY <2>1, <2>4 DEF Passed
  <2>5. CASE x + y = j + k
    <3>1. x = j /\ y = k BY <2>1, <2>2, <2>5, OneCellAtATime
    <3> QED BY <2>1, <3>1
  <2> QED BY <2>3, <2>4, <2>5
<1>5. ASSUME NEW c, Passed(r, c, j + k) PROVE Passed(r, c, j + k + 1)
  <2>1. PICK x \in 0..Steps(r, 1), y \in 0..Steps(r, 2) :
          c = CellOn(r, x, y) /\ OnRay(r, x, y) /\ x + y < j + k
    BY <1>5 DEF Passed
  <2>2. x + y < j + k + 1 BY <1>2, <2>1
  <2> QED BY <2>1, <2>2 DEF Passed
<1>6. ASSUME NEW c, c = CellOn(r, j, k) PROVE Passed(r, c, j + k + 1)
  <2>1. j + k < j + k + 1 BY <1>2
  <2> QED BY <1>6, <2>1 DEF Passed
<1> QED BY <1>3, <1>4, <1>5, <1>6

LEMMA ExtentOnRay ==
  ASSUME ray \in Rays, NEW a \in RayAxis, NEW c, NEW j \in 0..Steps(ray, a),
         c[a] = RayStart(ray, a) + SignOf(Along(ray, a)) * j
  PROVE  \/ /\ Extent(c, a) = <<StepTime(ray, a, j - 1), StepTime(ray, a, j)>>
            /\ StepTime(ray, a, j - 1) < Scale(ray) /\ StepTime(ray, a, j) > 0
            /\ StepTime(ray, a, j - 1) < StepTime(ray, a, j)
         \/ /\ Extent(c, a) = <<0, Scale(ray)>>
            /\ StepTime(ray, a, j - 1) <= 0 /\ StepTime(ray, a, j) > Scale(ray)
<1>1. Steps(ray, a) \in Nat /\ RayStart(ray, a) \in Int /\ j \in Int /\ j - 1 \in Int
  BY TimesAre
<1>2. Along(ray, a) \in Int /\ SignOf(Along(ray, a)) \in {-1, 0, 1} BY ScaleIs DEF SignOf
<1>3. c[a] \in Int
  <2>1. PICK s \in {-1, 0, 1} : s = SignOf(Along(ray, a)) BY <1>2
  <2>2. s * j \in Int BY <1>1, <2>1
  <2> QED BY <1>1, <2>1, <2>2
<1>4. CASE Along(ray, a) # 0
  <2>1. Extent(c, a) = <<StepTime(ray, a, j - 1), StepTime(ray, a, j)>> BY <1>1, <1>3, <1>4, ExtentIs
  <2>2. j - 1 < Steps(ray, a) /\ j >= 0 /\ j - 1 < j BY <1>1
  <2> QED BY <1>1, <2>1, <2>2, TimesAre
<1>5. CASE Along(ray, a) = 0
  <2>1. Steps(ray, a) = 0 BY <1>5, TimesAre
  <2>2. j = 0 /\ SignOf(Along(ray, a)) = 0 BY <1>5, <2>1 DEF SignOf
  <2>3. c[a] = RayStart(ray, a) BY <1>1, <2>2
  <2>4. Extent(c, a) = <<0, Scale(ray)>> BY <1>3, <1>5, <1>1, <2>3, ExtentIs
  <2>5. j - 1 < 0 /\ j >= Steps(ray, a) BY <2>1, <2>2
  <2> QED BY <1>1, <2>4, <2>5, TimesAre
<1> QED BY <1>4, <1>5

LEMMA CrossedAlong ==
  ASSUME ray \in Rays, NEW a \in RayAxis, NEW c, c[a] \in Int,
         Extent(c, a)[1] < Scale(ray), 0 < Extent(c, a)[2]
  PROVE  \E j \in 0..Steps(ray, a) : c[a] = RayStart(ray, a) + SignOf(Along(ray, a)) * j
<1>1. Steps(ray, a) \in Nat /\ RayStart(ray, a) \in Int /\ Scale(ray) \in Nat BY TimesAre
<1>2. PICK d \in Int, A \in Int, n \in Nat :
        d = Along(ray, a) /\ A = RayStart(ray, a) /\ n = Steps(ray, a)
  BY <1>1, ScaleIs
<1>3. PICK x \in Int : x = c[a] OBVIOUS
<1>4. CASE d = 0
  <2>1. Extent(c, a) = IF c[a] = A THEN <<0, Scale(ray)>> ELSE <<Scale(ray) + 1, 0>>
    <3>1. 0 \in Int OBVIOUS
    <3> QED BY <1>2, <1>4, <3>1, ExtentIs
  <2>2. x = A BY <1>1, <1>3, <2>1
  <2>3. x = A + SignOf(d) * 0 BY <2>2, <1>4 DEF SignOf
  <2>4. 0 \in 0..n OBVIOUS
  <2> QED BY <1>2, <1>3, <2>3, <2>4
<1>5. CASE d # 0
  <2>1. PICK j \in Int : x = A + SignOf(d) * j
    <3>1. CASE d > 0
      <4>1. x = A + 1 * (x - A) /\ x - A \in Int OBVIOUS
      <4> QED BY <3>1, <4>1 DEF SignOf
    <3>2. CASE d < 0
      <4>1. x = A + (-1) * (A - x) /\ A - x \in Int OBVIOUS
      <4> QED BY <3>2, <4>1 DEF SignOf
    <3> QED BY <3>1, <3>2, <1>5
  <2>2. Extent(c, a) = <<StepTime(ray, a, j - 1), StepTime(ray, a, j)>>
    BY <1>2, <1>3, <1>5, <2>1, ExtentIs
  <2>3. StepTime(ray, a, j - 1) < Scale(ray) /\ 0 < StepTime(ray, a, j) BY <2>2
  <2>4. j - 1 \in Int OBVIOUS
  <2>5. PICK p \in Int, q \in Int : p = StepTime(ray, a, j - 1) /\ q = StepTime(ray, a, j)
    BY <2>4, TimesAre
  <2>6. j - 1 < n
    <3>1. j - 1 >= n => p > Scale(ray) BY <1>2, <2>4, <2>5, TimesAre
    <3> QED BY <1>1, <2>3, <2>4, <2>5, <3>1
  <2>7. j >= 0
    <3>1. j < 0 => q < 0 BY <1>2, <1>5, <2>5, TimesAre
    <3> QED BY <2>3, <2>5, <3>1
  <2> QED BY <1>2, <1>3, <2>1, <2>6, <2>7
<1> QED BY <1>4, <1>5

\* The cells on the way are those that the segment crosses, and of those it
\* only touches some.
LEMMA WayIsCrossed ==
  ASSUME ray \in Rays, NEW c \in Int \X Int, NEW m, m = Steps(ray, 1) + Steps(ray, 2) + 1
  PROVE  /\ Crosses(c) => Passed(ray, c, m)
         /\ Passed(ray, c, m) => Touches(c)
<1>1. 1 \in RayAxis /\ 2 \in RayAxis /\ c[1] \in Int /\ c[2] \in Int /\ c = <<c[1], c[2]>>
  BY DEF RayAxis
<1>2. Steps(ray, 1) \in Nat /\ Steps(ray, 2) \in Nat /\ Scale(ray) \in Nat \ {0} BY <1>1, TimesAre
<1> DEFINE Enters1(j) == StepTime(ray, 1, j - 1)
           Leaves1(j) == StepTime(ray, 1, j)
           Enters2(k) == StepTime(ray, 2, k - 1)
           Leaves2(k) == StepTime(ray, 2, k)
<1>3. ASSUME NEW j \in 0..Steps(ray, 1), NEW k \in 0..Steps(ray, 2), c = CellOn(ray, j, k)
      PROVE  /\ \/ /\ Extent(c, 1) = <<Enters1(j), Leaves1(j)>>
                   /\ Enters1(j) < Scale(ray) /\ Leaves1(j) > 0 /\ Enters1(j) < Leaves1(j)
                \/ /\ Extent(c, 1) = <<0, Scale(ray)>>
                   /\ Enters1(j) <= 0 /\ Leaves1(j) > Scale(ray)
             /\ \/ /\ Extent(c, 2) = <<Enters2(k), Leaves2(k)>>
                   /\ Enters2(k) < Scale(ray) /\ Leaves2(k) > 0 /\ Enters2(k) < Leaves2(k)
                \/ /\ Extent(c, 2) = <<0, Scale(ray)>>
                   /\ Enters2(k) <= 0 /\ Leaves2(k) > Scale(ray)
             /\ Enters1(j) \in Int /\ Leaves1(j) \in Int /\ Enters2(k) \in Int /\ Leaves2(k) \in Int
  <2>1. /\ c[1] = RayStart(ray, 1) + SignOf(Along(ray, 1)) * j
        /\ c[2] = RayStart(ray, 2) + SignOf(Along(ray, 2)) * k
    BY <1>3 DEF CellOn
  <2>2. j \in Int /\ j - 1 \in Int /\ k \in Int /\ k - 1 \in Int BY <1>2
  <2>3. \A i \in Int : StepTime(ray, 1, i) \in Int /\ StepTime(ray, 2, i) \in Int BY <1>1, TimesAre
  <2>4. \/ /\ Extent(c, 1) = <<Enters1(j), Leaves1(j)>>
           /\ Enters1(j) < Scale(ray) /\ Leaves1(j) > 0 /\ Enters1(j) < Leaves1(j)
        \/ /\ Extent(c, 1) = <<0, Scale(ray)>>
           /\ Enters1(j) <= 0 /\ Leaves1(j) > Scale(ray)
    BY <1>1, <2>1, ExtentOnRay
  <2>5. \/ /\ Extent(c, 2) = <<Enters2(k), Leaves2(k)>>
           /\ Enters2(k) < Scale(ray) /\ Leaves2(k) > 0 /\ Enters2(k) < Leaves2(k)
        \/ /\ Extent(c, 2) = <<0, Scale(ray)>>
           /\ Enters2(k) <= 0 /\ Leaves2(k) > Scale(ray)
    BY <1>1, <2>1, ExtentOnRay
  <2> QED BY <2>2, <2>3, <2>4, <2>5
<1>4. ASSUME NEW j \in 0..Steps(ray, 1), NEW k \in 0..Steps(ray, 2)
      PROVE  OnRay(ray, j, k) <=> Enters1(j) <= Leaves2(k) /\ Enters2(k) < Leaves1(j)
  BY DEF OnRay
<1> HIDE DEF Enters1, Leaves1, Enters2, Leaves2
<1>5. ASSUME Crosses(c) PROVE Passed(ray, c, m)
  <2>1. \A e \in {Extent(c, 1)[1], Extent(c, 2)[1], 0}, l \in {Extent(c, 1)[2], Extent(c, 2)[2], Scale(ray)} : e < l
    BY <1>5 DEF Crosses, Enter, Leave
  <2>2. /\ Extent(c, 1)[1] < Scale(ray) /\ 0 < Extent(c, 1)[2]
        /\ Extent(c, 2)[1] < Scale(ray) /\ 0 < Extent(c, 2)[2]
        /\ Extent(c, 1)[1] < Extent(c, 2)[2] /\ Extent(c, 2)[1] < Extent(c, 1)[2]
    BY <2>1
  <2>3. PICK j \in 0..Steps(ray, 1) : c[1] = RayStart(ray, 1) + SignOf(Along(ray, 1)) * j
    BY <1>1, <2>2, CrossedAlong
  <2>4. PICK k \in 0..Steps(ray, 2) : c[2] = RayStart(ray, 2) + SignOf(Along(ray, 2)) * k
    BY <1>1, <2>2, CrossedAlong
  <2>5. c = CellOn(ray, j, k) BY <1>1, <2>3, <2>4 DEF CellOn
  <2>6. Enters1(j) <= Leaves2(k) /\ Enters2(k) < Leaves1(j) BY <1>2, <1>3, <2>2, <2>5
  <2>7. j + k < m BY <1>2
  <2> QED BY <1>4, <2>5, <2>6, <2>7 DEF Passed
<1>6. ASSUME Passed(ray, c, m) PROVE Touches(c)
  <2>1. PICK j \in 0..Steps(ray, 1), k \in 0..Steps(ray, 2) :
          c = CellOn(ray, j, k) /\ OnRay(ray, j, k)
    BY <1>6 DEF Passed
  <2>2. Enters1(j) <= Leaves2(k) /\ Enters2(k) < Leaves1(j) BY <1>4, <2>1
  <2>3. /\ Extent(c, 1)[1] <= Extent(c, 1)[2] /\ Extent(c, 1)[1] <= Extent(c, 2)[2]
        /\ Extent(c, 1)[1] <= Scale(ray) /\ 0 <= Extent(c, 1)[2]
        /\ Extent(c, 2)[1] <= Extent(c, 1)[2] /\ Extent(c, 2)[1] <= Extent(c, 2)[2]
        /\ Extent(c, 2)[1] <= Scale(ray) /\ 0 <= Extent(c, 2)[2] /\ 0 <= Scale(ray)
    BY <1>2, <1>3, <2>1, <2>2
  <2> QED BY <2>3 DEF Touches, Enter, Leave
<1> QED BY <1>5, <1>6

-----------------------------------------------------------------------------
(* The grid of blocks                                                      *)

GridSound == \A b \in DOMAIN cellBlocks :
               cellBlocks[b] \in [0..(CellsPerSide * CellsPerSide - 1) -> Int]

LEMMA CellPlace ==
  ASSUME NEW c \in Int \X Int
  PROVE  /\ LinearIndex(c) \in 0..(CellsPerSide * CellsPerSide - 1)
         /\ \A d \in Int \X Int :
              BlockOf(d) = BlockOf(c) /\ LinearIndex(d) = LinearIndex(c) => d = c
<1>1. PICK n \in Nat \ {0} : n = CellsPerSide BY RayAssumption
<1>2. ASSUME NEW d \in Int \X Int
      PROVE  \E p \in Int, q \in Int, s \in 0..(n - 1), t \in 0..(n - 1) :
               /\ d = <<n * p + s, n * q + t>>
               /\ BlockOf(d) = <<p, q>> /\ LinearIndex(d) = s + n * t
  <2>1. PICK x \in Int, y \in Int : d = <<x, y>> OBVIOUS
  <2>2. PICK p \in Int, s \in 0..(n - 1) : x = n * p + s /\ x \div n = p /\ x % n = s
    BY DivisionIs
  <2>3. PICK q \in Int, t \in 0..(n - 1) : y = n * q + t /\ y \div n = q /\ y % n = t
    BY DivisionIs
  <2>4. BlockOf(d) = <<p, q>> BY <1>1, <2>1, <2>2, <2>3 DEF BlockOf
  <2>5. LinearIndex(d) = s + n * t BY <1>1, <2>1, <2>2, <2>3 DEF LinearIndex, CellIn
  <2> QED BY <2>1, <2>2, <2>3, <2>4, <2>5
<1>3. PICK p \in Int, q \in Int, s \in 0..(n - 1), t \in 0..(n - 1) :
        /\ c = <<n * p + s, n * q + t>>
        /\ BlockOf(c) = <<p, q>> /\ LinearIndex(c) = s + n * t
  BY <1>2
<1>4. s + n * t \in 0..(n * n - 1)
  <2>1. 0 <= n * t /\ n * t <= n * (n - 1) /\ n * (n - 1) = n * n - n /\ n * t \in Int /\ n * n \in Int
    <3>1. t * n <= (n - 1) * n BY ProductOrder
    <3>2. t * n = n * t /\ (n - 1) * n = n * n - n /\ n * (n - 1) = n * n - n OBVIOUS
    <3> QED BY <3>1, <3>2
  <2> QED BY <2>1
<1>5. ASSUME NEW d \in Int \X Int, BlockOf(d) = BlockOf(c), LinearIndex(d) = LinearIndex(c)
      PROVE  d = c
  <2>1. PICK x \in Int, y \in Int, u \in 0..(n - 1), v \in 0..(n - 1) :
        /\ d = <<n * x + u, n * y + v>>
        /\ BlockOf(d) = <<x, y>> /\ LinearIndex(d) = u + n * v
    BY <1>2
  <2>2. x = p /\ y = q BY <1>3, <1>5, <2>1
  <2>3. n * v + u = n * t + s
    <3>1. u + n * v = s + n * t BY <1>3, <1>5, <2>1
    <3> QED BY <3>1
  <2>4. v = t /\ u = s
    <3>1. (n * v + u) \div n = v /\ (n * v + u) % n = u BY QuotientIs
    <3>2. (n * t + s) \div n = t /\ (n * t + s) % n = s
      <4>1. t \in Int BY <1>3
      <4> QED BY <4>1, QuotientIs
    <3> QED BY <2>3, <3>1, <3>2
  <2> QED BY <1>3, <2>1, <2>2, <2>4
<1> QED BY <1>1, <1>3, <1>4, <1>5

LEMMA CellsHaveValues ==
  ASSUME GridSound, NEW c \in Int \X Int
  PROVE  CellValueAt(c) \in Int
<1>1. LinearIndex(c) \in 0..(CellsPerSide * CellsPerSide - 1) BY CellPlace
<1>2. ASSUME BlockOf(c) \in DOMAIN cellBlocks PROVE cellBlocks[BlockOf(c)][LinearIndex(c)] \in Int
  BY <1>1, <1>2 DEF GridSound
<1> QED BY <1>2 DEF CellValueAt

LEMMA AddedToCell ==
  ASSUME GridSound, NEW c \in Int \X Int, NEW u \in Int, AddToCell(c, u)
  PROVE  /\ GridSound'
         /\ \A d \in Int \X Int :
              CellValueAt(d)' = IF d = c THEN ClampCell(CellValueAt(c) + u) ELSE CellValueAt(d)
<1> DEFINE I == 0..(CellsPerSide * CellsPerSide - 1)
           block == IF BlockOf(c) \in DOMAIN cellBlocks THEN cellBlocks[BlockOf(c)] ELSE ZeroBlock
           added == [block EXCEPT ![LinearIndex(c)] = ClampCell(@ + u)]
           B == DOMAIN cellBlocks \cup {BlockOf(c)}
<1>1. LinearIndex(c) \in I BY CellPlace
<1>2. block \in [I -> Int] /\ block[LinearIndex(c)] = CellValueAt(c)
  <2>1. ZeroBlock \in [I -> Int] /\ ZeroBlock[LinearIndex(c)] = 0 BY <1>1 DEF ZeroBlock
  <2> QED BY <1>1, <2>1 DEF GridSound, CellValueAt
<1>3. \A v \in Int : ClampCell(v) \in Int BY RayAssumption DEF ClampCell
<1>4. added \in [I -> Int]
  <2>1. block[LinearIndex(c)] + u \in Int
    <3> HIDE DEF I, block
    <3> QED BY <1>1, <1>2
  <2>2. ClampCell(block[LinearIndex(c)] + u) \in Int
    <3> HIDE DEF block
    <3> QED BY <1>3, <2>1
  <2> HIDE DEF I, block
  <2> QED BY <1>2, <2>2
<1>5. added[LinearIndex(c)] = ClampCell(CellValueAt(c) + u) BY <1>1, <1>2
<1>6. \A i \in I : i # LinearIndex(c) => added[i] = block[i]
  <2> HIDE DEF I, block
  <2> QED BY <1>2
<1>7. cellBlocks' = [b \in B |-> IF b = BlockOf(c) THEN added ELSE cellBlocks[b]]
  BY DEF AddToCell
<1> HIDE DEF added, block
<1>8. /\ DOMAIN cellBlocks' = B
      /\ cellBlocks'[BlockOf(c)] = added
      /\ \A b \in DOMAIN cellBlocks : b # BlockOf(c) => cellBlocks'[b] = cellBlocks[b]
  BY <1>7
<1>9. GridSound' BY <1>4, <1>8 DEF GridSound
<1>10. ASSUME NEW d \in Int \X Int
       PROVE  CellValueAt(d)' = IF d = c THEN ClampCell(CellValueAt(c) + u) ELSE CellValueAt(d)
  <2>1. CellValueAt(d)' = IF BlockOf(d) \in DOMAIN cellBlocks' THEN cellBlocks'[BlockOf(d)][LinearIndex(d)] ELSE 0
    BY DEF CellValueAt, BlockOf, LinearIndex, CellIn
  <2>2. CASE d = c BY <1>5, <1>8, <2>1, <2>2
  <2>3. CASE BlockOf(d) # BlockOf(c)
    BY <1>8, <2>1, <2>3 DEF CellValueAt
  <2>4. CASE d # c /\ BlockOf(d) = BlockOf(c)
    <3>1. LinearIndex(d) \in I /\ LinearIndex(d) # LinearIndex(c) BY <2>4, CellPlace
    <3>2. CellValueAt(d)' = block[LinearIndex(d)] BY <1>6, <1>8, <2>1, <2>4, <3>1
    <3>3. CellValueAt(d) = block[LinearIndex(d)] BY <2>4, <3>1 DEF CellValueAt, block, ZeroBlock
    <3> QED BY <2>4, <3>2, <3>3
  <2> QED BY <2>2, <2>3, <2>4
<1> QED BY <1>9, <1>10

-----------------------------------------------------------------------------
(* The walk                                                                *)

UpdateOf(r, c) == IF c = NearestIndex(r[2]) THEN Hit ELSE Miss
CellsSeen == [c \in Window |-> CellValueAt(c)]

\* The ray has made so many steps along each axis, and updated the cells that
\* it has passed.
Walking(r, values, before, cellAt, times, left) ==
  \E j, k \in Nat :
    /\ j + k + left = Steps(r, 1) + Steps(r, 2) + 1
    /\ left > 0 =>
         /\ j <= Steps(r, 1) /\ k <= Steps(r, 2)
         /\ cellAt = CellOn(r, j, k)
         /\ times = [a \in RayAxis |-> StepTime(r, a, IF a = 1 THEN j ELSE k)]
         /\ OnRay(r, j, k)
    /\ \A c \in Window :
         values[c] = IF Passed(r, c, j + k) THEN ClampCell(before[c] + UpdateOf(r, c)) ELSE before[c]

RayInv ==
  /\ GridSound
  /\ ray = <<>> \/ ray \in Rays
  /\ stepsLeft \in Nat
  /\ beforeRay \in [Window -> Int]
  /\ ray # <<>> => Walking(ray, CellsSeen, beforeRay, at, nextT, stepsLeft)

LEMMA RayTyped ==
  /\ \A r \in Rays : r # <<>>
  /\ \A r \in Rays : Steps(r, 1) \in Nat /\ Steps(r, 2) \in Nat
  /\ \A r \in Rays, j, k \in Int : CellOn(r, j, k) \in Int \X Int
<1>1. 1 \in RayAxis /\ 2 \in RayAxis BY DEF RayAxis
<1>2. ASSUME NEW r \in Rays PROVE r # <<>>
  <2>1. DOMAIN r = 1..3 BY RayAssumption
  <2>2. DOMAIN <<>> = {} OBVIOUS
  <2>3. 1 \in 1..3 OBVIOUS
  <2> QED BY <2>1, <2>2, <2>3
<1>3. ASSUME NEW r \in Rays, NEW j \in Int, NEW k \in Int PROVE CellOn(r, j, k) \in Int \X Int
  <2>1. \A a \in RayAxis : SignOf(Along(r, a)) \in {-1, 0, 1} BY DEF SignOf
  <2>2. PICK s \in {-1, 0, 1}, t \in {-1, 0, 1} : s = SignOf(Along(r, 1)) /\ t = SignOf(Along(r, 2))
    BY <1>1, <2>1
  <2>3. s * j \in Int /\ t * k \in Int BY <2>2
  <2>4. PICK x \in Int, y \in Int : x = RayStart(r, 1) /\ y = RayStart(r, 2) BY <1>1, TimesAre
  <2>5. CellOn(r, j, k) = <<x + s * j, y + t * k>> BY <2>2, <2>4 DEF CellOn
  <2> QED BY <2>3, <2>5
<1> QED BY <1>1, <1>2, <1>3, TimesAre

LEMMA WalkBegins ==
  ASSUME NEW r \in Rays, NEW before
  PROVE  /\ Walking(r, before, before, NearestIndex(r[1]), [a \in RayAxis |-> FirstT(r, a)], NumCells(r))
         /\ NumCells(r) \in Nat
<1>2. 1 \in RayAxis /\ 2 \in RayAxis BY DEF RayAxis
<1>5. /\ RayStart(r, 1) \in Int /\ RayEnd(r, 1) \in Int /\ Steps(r, 1) \in Nat
      /\ RayStart(r, 2) \in Int /\ RayEnd(r, 2) \in Int /\ Steps(r, 2) \in Nat
  BY <1>2, TimesAre
<1>6. NumCells(r) = Steps(r, 1) + Steps(r, 2) + 1 BY DEF NumCells, Steps, RayStart, RayEnd
<1>7. NearestIndex(r[1]) = CellOn(r, 0, 0)
  <2>1. \A a \in RayAxis : SignOf(Along(r, a)) * 0 = 0 BY DEF SignOf
  <2>2. CellOn(r, 0, 0) = <<RayStart(r, 1), RayStart(r, 2)>> BY <1>2, <1>5, <2>1 DEF CellOn
  <2> QED BY <2>2 DEF RayStart, NearestIndex
<1>8. [a \in RayAxis |-> FirstT(r, a)] = [a \in RayAxis |-> StepTime(r, a, IF a = 1 THEN 0 ELSE 0)]
  <2>1. ASSUME NEW a \in RayAxis PROVE StepTime(r, a, IF a = 1 THEN 0 ELSE 0) = FirstT(r, a)
    <3>1. FirstT(r, a) \in Int /\ StepT(r, a) \in Int
      <4>1. CASE Along(r, a) = 0
        <5>1. PICK S \in Nat : S = Scale(r) BY ScaleIs
        <5> QED BY <4>1, <5>1 DEF FirstT, StepT
      <4>2. CASE Along(r, a) # 0
        <5>1. ToBoundary(r, a) \in Int /\ StepT(r, a) = CellWidth * Unit(r, a)
          <6>1. 0 \in Int OBVIOUS
          <6> QED BY <4>2, <6>1, MovingAxis
        <5>2. Unit(r, a) \in Nat BY <4>2, ScaleIs DEF Unit
        <5>3. FirstT(r, a) = ToBoundary(r, a) * Unit(r, a) BY <4>2 DEF FirstT, ToBoundary, Unit
        <5> QED BY <5>1, <5>2, <5>3, RayAssumption
      <4> QED BY <4>1, <4>2
    <3> QED BY <3>1 DEF StepTime
  <2> QED BY <2>1
<1>9. OnRay(r, 0, 0)
  <2>1. 0 - 1 \in Int /\ 0 - 1 < 0 OBVIOUS
  <2>2. StepTime(r, 1, 0 - 1) <= 0 /\ StepTime(r, 2, 0 - 1) <= 0
    BY <1>2, <2>1, TimesAre
  <2>3. StepTime(r, 1, 0) > 0 /\ StepTime(r, 2, 0) > 0 BY <1>2, TimesAre
  <2>4. \A i \in Int : StepTime(r, 1, i) \in Int /\ StepTime(r, 2, i) \in Int BY <1>2, TimesAre
  <2> QED BY <2>1, <2>2, <2>3, <2>4 DEF OnRay
<1>10. \A c : ~Passed(r, c, 0 + 0) BY <1>5 DEF Passed
<1>11. 0 \in Nat /\ 0 + 0 + NumCells(r) = Steps(r, 1) + Steps(r, 2) + 1 BY <1>5, <1>6
<1>12. 0 <= Steps(r, 1) /\ 0 <= Steps(r, 2) BY <1>5
<1>13. Walking(r, before, before, NearestIndex(r[1]), [a \in RayAxis |-> FirstT(r, a)], NumCells(r))
  <2> SUFFICES \E j, k \in Nat :
        /\ j + k + NumCells(r) = Steps(r, 1) + Steps(r, 2) + 1
        /\ NumCells(r) > 0 =>
             /\ j <= Steps(r, 1) /\ k <= Steps(r, 2)
             /\ NearestIndex(r[1]) = CellOn(r, j, k)
             /\ [a \in RayAxis |-> FirstT(r, a)] = [a \in RayAxis |-> StepTime(r, a, IF a = 1 THEN j ELSE k)]
             /\ OnRay(r, j, k)
        /\ \A c \in Window :
             before[c] = IF Passed(r, c, j + k) THEN ClampCell(before[c] + UpdateOf(r, c)) ELSE before[c]
    BY DEF Walking
  <2> WITNESS 0 \in Nat, 0 \in Nat
  <2> QED BY <1>7, <1>8, <1>9, <1>10, <1>11, <1>12
<1> QED BY <1>5, <1>6, <1>13

LEMMA PairChanged ==
  ASSUME NEW p, NEW q, NEW u
  PROVE  [<<p, q>> EXCEPT ![1] = u] = <<u, q>> /\ [<<p, q>> EXCEPT ![2] = u] = <<p, u>>
OBVIOUS

\* One step: the cell that is updated had the value from before the ray.
LEMMA WalkContinues ==
  ASSUME NEW r \in Rays, NEW values, NEW before, NEW cellAt, NEW times, NEW left \in Nat, left > 0,
         Walking(r, values, before, cellAt, times, left), NEW new,
         \A c \in Window : new[c] = IF c = cellAt THEN ClampCell(values[c] + UpdateOf(r, c)) ELSE values[c],
         NEW a, a = IF times[1] <= times[2] THEN 1 ELSE 2
  PROVE  Walking(r, new, before, [cellAt EXCEPT ![a] = @ + SignOf(Along(r, a))],
                 [times EXCEPT ![a] = @ + StepT(r, a)], left - 1)
<1>1. 1 \in RayAxis /\ 2 \in RayAxis /\ RayAxis = {1, 2} BY DEF RayAxis
<1>2. Steps(r, 1) \in Nat /\ Steps(r, 2) \in Nat BY <1>1, TimesAre
<1>3. PICK j \in Nat, k \in Nat :
        /\ j + k + left = Steps(r, 1) + Steps(r, 2) + 1
        /\ j <= Steps(r, 1) /\ k <= Steps(r, 2)
        /\ cellAt = CellOn(r, j, k)
        /\ times = [b \in RayAxis |-> StepTime(r, b, IF b = 1 THEN j ELSE k)]
        /\ OnRay(r, j, k)
        /\ \A c \in Window :
             values[c] = IF Passed(r, c, j + k) THEN ClampCell(before[c] + UpdateOf(r, c)) ELSE before[c]
  BY DEF Walking
<1>4. j \in 0..Steps(r, 1) /\ k \in 0..Steps(r, 2) /\ j \in Int /\ k \in Int BY <1>2, <1>3
<1>5. times[1] = StepTime(r, 1, j) /\ times[2] = StepTime(r, 2, k) BY <1>1, <1>3
<1>6. \A c \in Window :
        new[c] = IF Passed(r, c, j + k + 1) THEN ClampCell(before[c] + UpdateOf(r, c)) ELSE before[c]
  <2>1. /\ ~Passed(r, CellOn(r, j, k), j + k)
        /\ \A c : Passed(r, c, j + k + 1) <=> Passed(r, c, j + k) \/ c = CellOn(r, j, k)
    BY <1>3, <1>4, PassedNext
  <2> QED BY <1>3, <2>1
<1>7. \A b \in RayAxis : SignOf(Along(r, b)) \in {-1, 0, 1} BY DEF SignOf
<1>8. PICK s \in {-1, 0, 1}, t \in {-1, 0, 1}, x \in Int, y \in Int :
        s = SignOf(Along(r, 1)) /\ t = SignOf(Along(r, 2)) /\ x = RayStart(r, 1) /\ y = RayStart(r, 2)
  BY <1>1, <1>7, TimesAre
<1>9. \A m, n \in Int : CellOn(r, m, n) = <<x + s * m, y + t * n>> BY <1>8 DEF CellOn
<1>10. /\ StepTime(r, 1, j + 1) = StepTime(r, 1, j) + StepT(r, 1)
       /\ StepTime(r, 2, k + 1) = StepTime(r, 2, k) + StepT(r, 2)
  BY <1>1, <1>4, TimesAre
<1>11. CASE times[1] <= times[2]
  <2>1. a = 1 BY <1>11
  <2>2. OnRay(r, j + 1, k) /\ (j + k < Steps(r, 1) + Steps(r, 2) => j < Steps(r, 1))
    BY <1>3, <1>5, <1>11, NextOnRay
  <2>3. [cellAt EXCEPT ![a] = @ + SignOf(Along(r, a))] = CellOn(r, j + 1, k)
    <3>1. cellAt = <<x + s * j, y + t * k>> BY <1>3, <1>4, <1>9
    <3>2. CellOn(r, j + 1, k) = <<x + s * (j + 1), y + t * k>>
      <4>1. j + 1 \in Int BY <1>4
      <4> QED BY <1>4, <4>1, <1>9
    <3>3. [cellAt EXCEPT ![1] = @ + s] = <<(x + s * j) + s, y + t * k>>
      <4>1. cellAt[1] + s = (x + s * j) + s BY <3>1
      <4> QED BY <3>1, <4>1, PairChanged
    <3>4. (x + s * j) + s = x + s * (j + 1) BY <1>4
    <3> QED BY <2>1, <1>8, <3>2, <3>3, <3>4
  <2>4. [times EXCEPT ![a] = @ + StepT(r, a)] = [b \in RayAxis |-> StepTime(r, b, IF b = 1 THEN j + 1 ELSE k)]
    BY <1>1, <1>3, <1>10, <2>1
  <2>5. /\ (j + 1) + k + (left - 1) = Steps(r, 1) + Steps(r, 2) + 1
        /\ left - 1 > 0 => j + 1 <= Steps(r, 1)
    BY <1>2, <1>3, <2>2
  <2>6. j + 1 \in Nat /\ (j + 1) + k = j + k + 1 OBVIOUS
  <2>7. PICK m \in Nat, n \in Nat : m = j + 1 /\ n = k BY <2>6
  <2>8. m + n = j + k + 1 /\ m + n + (left - 1) = Steps(r, 1) + Steps(r, 2) + 1
    BY <2>5, <2>6, <2>7
  <2>9. left - 1 > 0 =>
          /\ m <= Steps(r, 1) /\ n <= Steps(r, 2)
          /\ [cellAt EXCEPT ![a] = @ + SignOf(Along(r, a))] = CellOn(r, m, n)
          /\ [times EXCEPT ![a] = @ + StepT(r, a)] = [b \in RayAxis |-> StepTime(r, b, IF b = 1 THEN m ELSE n)]
          /\ OnRay(r, m, n)
    BY <1>3, <2>2, <2>3, <2>4, <2>5, <2>7
  <2>10. \A c \in Window :
           new[c] = IF Passed(r, c, m + n) THEN ClampCell(before[c] + UpdateOf(r, c)) ELSE before[c]
    BY <1>6, <2>8
  <2> QED BY <2>8, <2>9, <2>10 DEF Walking
<1>12. CASE ~(times[1] <= times[2])
  <2>1. a = 2 BY <1>12
  <2>2. OnRay(r, j, k + 1) /\ (j + k < Steps(r, 1) + Steps(r, 2) => k < Steps(r, 2))
    BY <1>3, <1>5, <1>12, NextOnRay
  <2>3. [cellAt EXCEPT ![a] = @ + SignOf(Along(r, a))] = CellOn(r, j, k + 1)
    <3>1. cellAt = <<x + s * j, y + t * k>> BY <1>3, <1>4, <1>9
    <3>2. CellOn(r, j, k + 1) = <<x + s * j, y + t * (k + 1)>>
      <4>1. k + 1 \in Int BY <1>4
      <4> QED BY <1>4, <4>1, <1>9
    <3>3. [cellAt EXCEPT ![2] = @ + t] = <<x + s * j, (y + t * k) + t>>
      <4>1. cellAt[2] + t = (y + t * k) + t BY <3>1
      <4> QED BY <3>1, <4>1, PairChanged
    <3>4. (y + t * k) + t = y + t * (k + 1) BY <1>4
    <3> QED BY <2>1, <1>8, <3>2, <3>3, <3>4
  <2>4. [times EXCEPT ![a] = @ + StepT(r, a)] = [b \in RayAxis |-> StepTime(r, b, IF b = 1 THEN j ELSE k + 1)]
    BY <1>1, <1>3, <1>10, <2>1
  <2>5. /\ j + (k + 1) + (left - 1) = Steps(r, 1) + Steps(r, 2) + 1
        /\ left - 1 > 0 => k + 1 <= Steps(r, 2)
    BY <1>2, <1>3, <2>2
  <2>6. k + 1 \in Nat /\ j + (k + 1) = j + k + 1 OBVIOUS
  <2>7. PICK m \in Nat, n \in Nat : m = j /\ n = k + 1 BY <2>6
  <2>8. m + n = j + k + 1 /\ m + n + (left - 1) = Steps(r, 1) + Steps(r, 2) + 1
    BY <2>5, <2>6, <2>7
  <2>9. left - 1 > 0 =>
          /\ m <= Steps(r, 1) /\ n <= Steps(r, 2)
          /\ [cellAt EXCEPT ![a] = @ + SignOf(Along(r, a))] = CellOn(r, m, n)
          /\ [times EXCEPT ![a] = @ + StepT(r, a)] = [b \in RayAxis |-> StepTime(r, b, IF b = 1 THEN m ELSE n)]
          /\ OnRay(r, m, n)
    BY <1>3, <2>2, <2>3, <2>4, <2>5, <2>7
  <2>10. \A c \in Window :
           new[c] = IF Passed(r, c, m + n) THEN ClampCell(before[c] + UpdateOf(r, c)) ELSE before[c]
    BY <1>6, <2>8
  <2> QED BY <2>8, <2>9, <2>10 DEF Walking
<1> QED BY <1>11, <1>12

LEMMA CastRayStep ==
  ASSUME RayInv, NEW r \in Rays, CastRay(r) PROVE RayInv'
<1>1. /\ ray' = r /\ cellBlocks' = cellBlocks /\ at' = NearestIndex(r[1])
      /\ nextT' = [a \in RayAxis |-> FirstT(r, a)] /\ stepsLeft' = NumCells(r)
      /\ beforeRay' = [c \in Window |-> CellValueAt(c)]
  BY DEF CastRay
<1>2. GridSound' BY <1>1 DEF GridSound, RayInv
<1>3. beforeRay' \in [Window -> Int] BY <1>1, CellsHaveValues, RayAssumption DEF RayInv
<1>4. CellsSeen' = beforeRay' BY <1>1 DEF CellsSeen, CellValueAt, BlockOf, LinearIndex, CellIn
<1>5. Walking(r, beforeRay', beforeRay', NearestIndex(r[1]), [a \in RayAxis |-> FirstT(r, a)], NumCells(r))
      /\ NumCells(r) \in Nat
  BY WalkBegins
<1> QED BY <1>1, <1>2, <1>3, <1>4, <1>5 DEF RayInv

LEMMA VisitCellStep ==
  ASSUME RayInv, VisitCell PROVE RayInv'
<1>1. /\ ray # <<>> /\ stepsLeft > 0 /\ AddToCell(at, RayUpdate(at))
      /\ at' = [at EXCEPT ![NextAxis] = @ + SignOf(Along(ray, NextAxis))]
      /\ nextT' = [nextT EXCEPT ![NextAxis] = @ + StepT(ray, NextAxis)]
      /\ stepsLeft' = stepsLeft - 1 /\ ray' = ray /\ beforeRay' = beforeRay
  BY DEF VisitCell
<1>2. PICK r \in Rays : r = ray BY <1>1 DEF RayInv
<1>3. Walking(r, CellsSeen, beforeRay, at, nextT, stepsLeft) BY <1>1, <1>2 DEF RayInv
<1>4. PICK c \in Int \X Int : c = at
  <2>1. PICK j \in Nat, k \in Nat : at = CellOn(r, j, k) BY <1>1, <1>3 DEF Walking
  <2>2. j \in Int /\ k \in Int OBVIOUS
  <2> QED BY <2>1, <2>2, RayTyped
<1>5. \A d : RayUpdate(d) = UpdateOf(r, d) BY <1>2 DEF RayUpdate, UpdateOf
<1>6. UpdateOf(r, c) \in Int BY RayAssumption DEF UpdateOf
<1>7. AddToCell(c, UpdateOf(r, c)) BY <1>1, <1>4, <1>5
<1>8. /\ GridSound'
      /\ \A d \in Int \X Int :
           CellValueAt(d)' = IF d = c THEN ClampCell(CellValueAt(c) + UpdateOf(r, c)) ELSE CellValueAt(d)
  BY <1>6, <1>7, AddedToCell DEF RayInv
<1>9. ASSUME NEW d \in Window
      PROVE  CellsSeen'[d] = IF d = at THEN ClampCell(CellsSeen[d] + UpdateOf(r, d)) ELSE CellsSeen[d]
  <2>1. d \in Int \X Int BY RayAssumption
  <2>2. CellsSeen[d] = CellValueAt(d) /\ CellsSeen'[d] = CellValueAt(d)' BY DEF CellsSeen
  <2> QED BY <1>4, <1>8, <2>1, <2>2
<1>10. PICK a : a = NextAxis /\ a = IF nextT[1] <= nextT[2] THEN 1 ELSE 2 BY DEF NextAxis
<1>11. stepsLeft \in Nat /\ stepsLeft' \in Nat BY <1>1 DEF RayInv
<1>12. PICK new : new = CellsSeen' OBVIOUS
<1>13. \A d \in Window : new[d] = IF d = at THEN ClampCell(CellsSeen[d] + UpdateOf(r, d)) ELSE CellsSeen[d]
  BY <1>9, <1>12
<1>14. Walking(r, new, beforeRay, [at EXCEPT ![a] = @ + SignOf(Along(r, a))],
               [nextT EXCEPT ![a] = @ + StepT(r, a)], stepsLeft - 1)
  BY <1>1, <1>3, <1>10, <1>11, <1>13, WalkContinues
<1>15. Walking(r, new, beforeRay', at', nextT', stepsLeft')
  BY <1>1, <1>2, <1>10, <1>14
<1> QED BY <1>1, <1>2, <1>8, <1>11, <1>12, <1>15 DEF RayInv

LEMMA RayStep == RayInv /\ [RayNext]_rayVars => RayInv'
<1> SUFFICES ASSUME RayInv, [RayNext]_rayVars PROVE RayInv' OBVIOUS
<1>1. ASSUME NEW r \in Rays, CastRay(r) PROVE RayInv' BY <1>1, CastRayStep
<1>2. CASE VisitCell BY <1>2, VisitCellStep
<1>3. CASE EndRay
  <2>1. /\ ray' = <<>> /\ cellBlocks' = cellBlocks /\ stepsLeft' = stepsLeft
        /\ beforeRay' = [c \in Window |-> 0]
    BY <1>3 DEF EndRay
  <2> QED BY <2>1 DEF RayInv, GridSound
<1>4. CASE PruneDense
  <2>1. /\ ray = <<>> /\ ray' = ray /\ stepsLeft' = stepsLeft /\ beforeRay' = beforeRay
        /\ cellBlocks' = [b \in {k \in DOMAIN cellBlocks : cellBlocks[k] # ZeroBlock} |-> cellBlocks[b]]
    BY <1>4 DEF PruneDense
  <2>2. \A b \in DOMAIN cellBlocks' : b \in DOMAIN cellBlocks /\ cellBlocks'[b] = cellBlocks[b]
    BY <2>1
  <2> QED BY <2>1, <2>2 DEF RayInv, GridSound
<1>5. CASE ClearBlocks
  <2>1. /\ ray = <<>> /\ ray' = ray /\ stepsLeft' = stepsLeft /\ beforeRay' = beforeRay
        /\ cellBlocks' = [b \in {} |-> ZeroBlock]
    BY <1>5 DEF ClearBlocks
  <2>2. DOMAIN cellBlocks' = {} BY <2>1
  <2> QED BY <2>1, <2>2 DEF RayInv, GridSound
<1>6. CASE UNCHANGED rayVars
  <2>1. /\ ray' = ray /\ cellBlocks' = cellBlocks /\ stepsLeft' = stepsLeft /\ beforeRay' = beforeRay
        /\ at' = at /\ nextT' = nextT
    BY <1>6 DEF rayVars
  <2>2. GridSound' = GridSound BY <2>1 DEF GridSound
  <2>3. CellsSeen' = CellsSeen BY <2>1 DEF CellsSeen, CellValueAt, BlockOf, LinearIndex, CellIn
  <2>4. ray # <<>> => Walking(ray', CellsSeen', beforeRay', at', nextT', stepsLeft')
    BY <2>1, <2>3 DEF RayInv
  <2> QED BY <2>1, <2>2, <2>4 DEF RayInv
<1> QED BY <1>1, <1>2, <1>3, <1>4, <1>5, <1>6 DEF RayNext

LEMMA RayInvHolds == RaySpec => []RayInv
<1>1. RayInit => RayInv
  <2> SUFFICES ASSUME RayInit PROVE RayInv OBVIOUS
  <2>1. DOMAIN cellBlocks = {} BY DEF RayInit
  <2> QED BY <2>1 DEF RayInit, RayInv, GridSound
<1> QED BY <1>1, RayStep, PTL DEF RaySpec

(***************************************************************************)
(* A ray that has been cast has updated the cells its segment crosses and  *)
(* no cell it does not touch, whatever the size of cells and blocks, and   *)
(* wherever the ray begins and ends.                                       *)
(***************************************************************************)
THEOREM RaysHitTheirCells == RaySpec => []RayHitsItsCells
<1>1. RayInv => RayHitsItsCells
  <2> SUFFICES ASSUME RayInv, RayDone, NEW c \in Window
               PROVE LET hit == CellValueAt(c) = ClampCell(beforeRay[c] + RayUpdate(c))
                         missed == CellValueAt(c) = beforeRay[c]
                     IN /\ Crosses(c) => hit
                        /\ ~Touches(c) => missed
                        /\ hit \/ missed
    BY DEF RayHitsItsCells
  <2>1. ray # <<>> /\ stepsLeft = 0 /\ ray \in Rays BY DEF RayDone, RayInv
  <2>2. PICK j \in Nat, k \in Nat :
          /\ j + k + stepsLeft = Steps(ray, 1) + Steps(ray, 2) + 1
          /\ CellsSeen[c] = IF Passed(ray, c, j + k) THEN ClampCell(beforeRay[c] + UpdateOf(ray, c))
                                                     ELSE beforeRay[c]
    BY <2>1 DEF RayInv, Walking
  <2>3. CellsSeen[c] = CellValueAt(c) /\ UpdateOf(ray, c) = RayUpdate(c)
    BY DEF CellsSeen, UpdateOf, RayUpdate
  <2>4. c \in Int \X Int BY RayAssumption
  <2>5. PICK m : m = j + k OBVIOUS
  <2>6. m = Steps(ray, 1) + Steps(ray, 2) + 1 BY <2>1, <2>2, <2>5
  <2>7. (Crosses(c) => Passed(ray, c, m)) /\ (Passed(ray, c, m) => Touches(c))
    BY <2>1, <2>4, <2>6, WayIsCrossed
  <2> QED BY <2>2, <2>3, <2>5, <2>7
<1> QED BY <1>1, RayInvHolds, PTL

-----------------------------------------------------------------------------
(* Range image bounds                                                      *)

\* No more levels than that are looked at.
LevelLimit == 2 * (sensor.rows + sensor.columns)

LEMMA SensorIs ==
  ASSUME sensor \in Sensors
  PROVE  /\ sensor.rows \in Nat \ {0} /\ sensor.columns \in Nat \ {0}
         /\ sensor.scale[1] \in {1, 2} /\ sensor.scale[2] \in {1, 2}
         /\ ScaledRows \in Nat \ {0} /\ ScaledColumns \in Nat \ {0}
         /\ Greater(ScaledRows, ScaledColumns) \in 1..LevelLimit /\ LevelLimit \in Nat
         /\ ScaledRows <= Greater(ScaledRows, ScaledColumns)
         /\ ScaledColumns <= Greater(ScaledRows, ScaledColumns)
         /\ PowerOf2(0) = 1
         /\ \A k \in 0..LevelLimit : PowerOf2(k) \in Nat \ {0} /\ PowerOf2(k + 1) = 2 * PowerOf2(k)
<1>1. sensor.rows \in Nat \ {0} /\ sensor.columns \in Nat \ {0} BY BoundsAssumption
<1>2. sensor.scale \in {<<1, 1>>, <<1, 2>>, <<2, 1>>} BY BoundsAssumption
<1>3. sensor.scale[1] \in {1, 2} /\ sensor.scale[2] \in {1, 2} BY <1>2
<1>4. PICK m \in Nat \ {0}, n \in Nat \ {0}, s \in {1, 2}, t \in {1, 2} :
        m = sensor.rows /\ n = sensor.columns /\ s = sensor.scale[1] /\ t = sensor.scale[2]
  BY <1>1, <1>3
<1>5. ScaledRows = m * s /\ ScaledColumns = n * t /\ LevelLimit = 2 * (m + n)
  BY <1>4 DEF ScaledRows, ScaledColumns, LevelLimit
<1>6. /\ m * s \in Nat \ {0} /\ n * t \in Nat \ {0} /\ 2 * (m + n) \in Nat
      /\ Greater(m * s, n * t) \in 1..(2 * (m + n))
      /\ m * s <= Greater(m * s, n * t) /\ n * t <= Greater(m * s, n * t)
  <2>1. (m * s = m \/ m * s = 2 * m) /\ (n * t = n \/ n * t = 2 * n) OBVIOUS
  <2> QED BY <2>1 DEF Greater
<1>7. PowerOf2(0) = 1 BY BoundsPowers
<1>8. \A k \in 0..LevelLimit : PowerOf2(k) \in Nat \ {0} /\ PowerOf2(k + 1) = 2 * PowerOf2(k)
  BY BoundsPowers DEF LevelLimit
<1> QED BY <1>1, <1>3, <1>5, <1>6, <1>7, <1>8

LEMMA LevelPowersGrow ==
  ASSUME sensor \in Sensors
  PROVE  /\ \A k \in 0..LevelLimit : k < PowerOf2(k)
         /\ \A j, k \in 0..LevelLimit : j < k => 2 * PowerOf2(j) <= PowerOf2(k)
<1>0. LevelLimit \in Nat BY SensorIs
<1>1. PICK L \in Nat : L = LevelLimit BY <1>0
<1>2. /\ PowerOf2(0) = 1
      /\ \A k \in 0..L : PowerOf2(k) \in Nat \ {0} /\ PowerOf2(k + 1) = 2 * PowerOf2(k)
  BY <1>1, SensorIs
<1> DEFINE S == {k \in Nat : k <= L => k < PowerOf2(k)}
           T(j) == {k \in Nat : j < k /\ k <= L => 2 * PowerOf2(j) <= PowerOf2(k)}
<1>3. Nat \subseteq S
  <2>1. 0 \in S BY <1>2
  <2>2. ASSUME NEW k \in Nat, k \in S PROVE k + 1 \in S
    <3> SUFFICES ASSUME k + 1 <= L PROVE k + 1 < PowerOf2(k + 1) OBVIOUS
    <3>1. k \in 0..L /\ k < PowerOf2(k) BY <2>2
    <3>2. PICK p \in Nat : p = PowerOf2(k) BY <1>2, <3>1
    <3>3. PowerOf2(k + 1) = 2 * p BY <1>2, <3>1, <3>2
    <3> QED BY <3>1, <3>2, <3>3
  <2> HIDE DEF S
  <2> QED BY <2>1, <2>2, NatInductionSet
<1>4. ASSUME NEW j \in 0..L PROVE Nat \subseteq T(j)
  <2>1. 0 \in T(j) OBVIOUS
  <2>2. ASSUME NEW k \in Nat, k \in T(j) PROVE k + 1 \in T(j)
    <3> SUFFICES ASSUME j < k + 1, k + 1 <= L PROVE 2 * PowerOf2(j) <= PowerOf2(k + 1) OBVIOUS
    <3>1. k \in 0..L BY <1>1
    <3>2. PICK p \in Nat \ {0}, q \in Nat \ {0} : p = PowerOf2(k) /\ q = PowerOf2(j) BY <1>2, <3>1
    <3>3. PowerOf2(k + 1) = 2 * p BY <1>2, <3>1, <3>2
    <3>4. j = k \/ j < k OBVIOUS
    <3>5. CASE j = k BY <3>2, <3>3, <3>5
    <3>6. CASE j < k
      <4>1. 2 * q <= p BY <2>2, <3>1, <3>2, <3>6
      <4> QED BY <3>2, <3>3, <4>1
    <3> QED BY <3>4, <3>5, <3>6
  <2> HIDE DEF T
  <2> QED BY <2>1, <2>2, NatInductionSet
<1> QED BY <1>1, <1>3, <1>4

LEMMA Log2FloorIs ==
  ASSUME sensor \in Sensors, NEW n \in 1..LevelLimit
  PROVE  /\ Log2Floor(n) \in 0..LevelLimit /\ PowerOf2(Log2Floor(n)) <= n
         /\ n < PowerOf2(Log2Floor(n) + 1)
<1>1. PICK L \in Nat : L = LevelLimit BY SensorIs
<1>2. /\ PowerOf2(0) = 1
      /\ \A k \in 0..L : PowerOf2(k) \in Nat \ {0}
      /\ \A k \in 0..L : k < PowerOf2(k)
  BY <1>1, SensorIs, LevelPowersGrow
<1>3. n \in 1..L BY <1>1
<1>4. \E k \in 0..n : PowerOf2(k) <= n /\ n < PowerOf2(k + 1)
  <2> SUFFICES ASSUME \A k \in 0..n : PowerOf2(k) <= n => ~(n < PowerOf2(k + 1)) PROVE FALSE OBVIOUS
  <2> DEFINE S == {k \in Nat : k <= n => PowerOf2(k) <= n}
  <2>1. 0 \in S BY <1>2, <1>3
  <2>2. ASSUME NEW k \in Nat, k \in S PROVE k + 1 \in S
    <3> SUFFICES ASSUME k + 1 <= n PROVE PowerOf2(k + 1) <= n OBVIOUS
    <3>1. k \in 0..n /\ PowerOf2(k) <= n BY <1>3, <2>2
    <3>2. ~(n < PowerOf2(k + 1)) BY <3>1
    <3>3. PowerOf2(k + 1) \in Nat BY <1>2, <1>3
    <3> QED BY <1>3, <3>2, <3>3
  <2> HIDE DEF S
  <2>3. Nat \subseteq S BY <2>1, <2>2, NatInductionSet
  <2>4. PowerOf2(n) <= n BY <1>3, <2>3 DEF S
  <2>5. n < PowerOf2(n) /\ PowerOf2(n) \in Nat BY <1>2, <1>3
  <2> QED BY <1>3, <2>4, <2>5
<1>5. PICK k \in 0..n : k = Log2Floor(n) /\ PowerOf2(k) <= n /\ n < PowerOf2(k + 1)
  BY <1>4 DEF Log2Floor
<1> QED BY <1>1, <1>3, <1>5

LEMMA HalvingsAre ==
  ASSUME sensor \in Sensors
  PROVE  /\ Halvings \in 0..LevelLimit
         /\ ScaledRows <= PowerOf2(Halvings) /\ ScaledColumns <= PowerOf2(Halvings)
<1>1. PICK L \in Nat : L = LevelLimit BY SensorIs
<1>2. /\ PowerOf2(0) = 1
      /\ \A k \in 0..L : PowerOf2(k) \in Nat \ {0}
      /\ \A k \in 0..L : k < PowerOf2(k)
  BY <1>1, SensorIs, LevelPowersGrow
<1>3. PICK n \in 1..L : n = Greater(ScaledRows, ScaledColumns) BY <1>1, SensorIs
<1> DEFINE S == {k \in Nat : k <= n /\ n <= PowerOf2(k)}
<1>4. n \in S BY <1>2, <1>3
<1>5. PICK k \in S : \A j \in S : k <= j BY <1>4, LeastNumber
<1>6. \E m \in 0..n : n <= PowerOf2(m) /\ \A j \in 0..(m - 1) : PowerOf2(j) < n
  <2>1. ASSUME NEW j \in 0..(k - 1) PROVE PowerOf2(j) < n
    <3>1. j \in Nat /\ j < k /\ k <= n BY <1>5
    <3>2. j \notin S BY <1>5, <3>1
    <3>3. PowerOf2(j) \in Nat BY <1>2, <1>3, <3>1
    <3> QED BY <1>3, <3>1, <3>2, <3>3
  <2> QED BY <1>5, <2>1
<1>7. PICK m \in 0..n : m = Log2Ceil(n) /\ n <= PowerOf2(m) BY <1>6 DEF Log2Ceil
<1>8. PowerOf2(m) \in Nat BY <1>2, <1>3
<1>9. PICK r \in Nat, c \in Nat : r = ScaledRows /\ c = ScaledColumns /\ r <= n /\ c <= n
  BY <1>3, SensorIs
<1> QED BY <1>1, <1>3, <1>7, <1>8, <1>9 DEF Halvings



\* The node of a level that a pixel is under.
NodeOver(h, q) == IF h = 0 THEN q
                  ELSE <<(q[1] * sensor.scale[1]) \div PowerOf2(h), (q[2] * sensor.scale[2]) \div PowerOf2(h)>>

LEMMA CeilCovers ==
  ASSUME sensor \in Sensors, NEW h \in 0..LevelLimit, NEW n \in Nat \ {0}
  PROVE  /\ CeilDiv(n, h) \in Nat \ {0}
         /\ \A x \in 0..(n - 1) : x \div PowerOf2(h) \in 0..(CeilDiv(n, h) - 1)
<1>1. PICK w \in Nat \ {0} : w = PowerOf2(h) BY SensorIs
<1>2. CeilDiv(n, h) = (n + w - 1) \div w /\ n + w - 1 \in Int BY <1>1 DEF CeilDiv
<1>3. ASSUME NEW x \in 0..(n - 1) PROVE 0 <= x \div w /\ x \div w + 1 <= (n + w - 1) \div w
                                        /\ x \div w \in Int
  <2>1. x \in Int /\ w * 1 + x \in Int /\ w * 1 + x <= n + w - 1 /\ 1 \in Int OBVIOUS
  <2>2. (w * 1 + x) \div w = 1 + (x \div w) /\ 0 <= x \div w BY <2>1, QuotientsKeepOrder
  <2>3. (w * 1 + x) \div w <= (n + w - 1) \div w BY <1>2, <2>1, QuotientsKeepOrder
  <2>4. x \div w \in Int BY <2>1, QuotientsKeepOrder
  <2> QED BY <2>2, <2>3, <2>4
<1>4. 0 \in 0..(n - 1) OBVIOUS
<1>5. (n + w - 1) \div w \in Int BY <1>2, QuotientsKeepOrder
<1>6. PICK c \in Int : c = CeilDiv(n, h) BY <1>2, <1>5
<1>7. \A x \in 0..(n - 1) : x \div w \in Int /\ 0 <= x \div w /\ x \div w + 1 <= c BY <1>2, <1>3, <1>6
<1>8. PICK z \in Int : z = 0 \div w /\ 0 <= z /\ z + 1 <= c BY <1>4, <1>7
<1>9. c \in Nat \ {0} BY <1>8
<1>10. ASSUME NEW x \in 0..(n - 1) PROVE x \div w \in 0..(c - 1)
  <2>1. PICK y \in Int : y = x \div w /\ 0 <= y /\ y + 1 <= c BY <1>7
  <2> QED BY <2>1
<1> QED BY <1>1, <1>6, <1>9, <1>10

LEMMA LevelsAre ==
  ASSUME sensor \in Sensors, NEW h \in 0..Halvings
  PROVE  /\ h \in 0..LevelLimit
         /\ Rows(h) \in Nat \ {0} /\ Columns(h) \in Nat \ {0}
         /\ Pixels(h) = (0..(Rows(h) - 1)) \X (0..(Columns(h) - 1))
         /\ \A q \in Pixels(0) : NodeOver(h, q) \in Pixels(h)
<1>1. h \in 0..LevelLimit
  <2>1. PICK a \in Int, b \in Int : a = Halvings /\ b = LevelLimit /\ a \in 0..b BY HalvingsAre, SensorIs
  <2> QED BY <2>1
<1>2. Rows(h) \in Nat \ {0} /\ Columns(h) \in Nat \ {0}
  BY <1>1, SensorIs, CeilCovers DEF Rows, Columns
<1>3. ASSUME NEW q \in Pixels(0) PROVE NodeOver(h, q) \in Pixels(h)
  <2>1. CASE h = 0 BY <2>1 DEF NodeOver
  <2>2. CASE h # 0
    <3>1. PICK m \in Nat \ {0}, n \in Nat \ {0}, s \in {1, 2}, t \in {1, 2} :
            m = sensor.rows /\ n = sensor.columns /\ s = sensor.scale[1] /\ t = sensor.scale[2]
      BY SensorIs
    <3>2. q \in (0..(m - 1)) \X (0..(n - 1)) BY <3>1 DEF Pixels, Rows, Columns
    <3>3. PICK x \in 0..(m - 1), y \in 0..(n - 1) : q = <<x, y>> BY <3>2
    <3>4. x * s \in 0..(m * s - 1) /\ y * t \in 0..(n * t - 1) OBVIOUS
    <3>5. ScaledRows = m * s /\ ScaledColumns = n * t BY <3>1 DEF ScaledRows, ScaledColumns
    <3>6. Rows(h) = CeilDiv(m * s, h) /\ Columns(h) = CeilDiv(n * t, h)
      BY <2>2, <3>5 DEF Rows, Columns
    <3>7. m * s \in Nat \ {0} /\ n * t \in Nat \ {0} BY <3>5, SensorIs
    <3>8. (x * s) \div PowerOf2(h) \in 0..(CeilDiv(m * s, h) - 1) BY <1>1, <3>4, <3>7, CeilCovers
    <3>9. (y * t) \div PowerOf2(h) \in 0..(CeilDiv(n * t, h) - 1) BY <1>1, <3>4, <3>7, CeilCovers
    <3>10. NodeOver(h, q) = <<(x * s) \div PowerOf2(h), (y * t) \div PowerOf2(h)>>
      BY <2>2, <3>1, <3>3 DEF NodeOver
    <3> QED BY <3>6, <3>8, <3>9, <3>10 DEF Pixels
  <2> QED BY <2>1, <2>2
<1> QED BY <1>1, <1>2, <1>3 DEF Pixels

\* A level of a pyramid, given the one below it.
LevelAbove(below, h, reducer, init) ==
  [p \in Pixels(h) |->
     LET scale == IF h = 1 THEN sensor.scale ELSE <<1, 1>>
         x(i) == (2 * p[1] + i) \div scale[1]
         y(i) == (2 * p[2] + i) \div scale[2]
         node(i, j) == Padded(below, h - 1, x(i), y(j), init)
     IN  IF x(0) >= Rows(h - 1) \/ y(0) >= Columns(h - 1) THEN init
         ELSE Reduced(reducer, {node(i, j) : i, j \in 0..1})]

LEMMA PyramidIs ==
  ASSUME sensor \in Sensors, NEW image, NEW reducer, NEW init
  PROVE  /\ Pyramid(image, reducer, init)[0] = image
         /\ \A h \in 1..Halvings : Pyramid(image, reducer, init)[h] =
              LevelAbove(Pyramid(image, reducer, init)[h - 1], h, reducer, init)
         /\ DOMAIN Pyramid(image, reducer, init) = 0..Halvings
<1>1. PICK H \in Nat : H = Halvings BY HalvingsAre, SensorIs
<1> DEFINE Body(f, h) == IF h = 0 THEN image ELSE LevelAbove(f[h - 1], h, reducer, init)
           S == {n \in Nat : n <= H => \E f : f = [h \in 0..n |-> Body(f, h)]}
<1>2. 0 \in S
  <2> DEFINE f == [h \in 0..0 |-> image]
  <2>1. f = [h \in 0..0 |-> Body(f, h)] OBVIOUS
  <2> HIDE DEF f, Body
  <2> QED BY <2>1
<1>3. ASSUME NEW n \in Nat, n \in S PROVE n + 1 \in S
  <2> SUFFICES ASSUME n + 1 <= H PROVE \E f : f = [h \in 0..(n + 1) |-> Body(f, h)] OBVIOUS
  <2>1. PICK f : f = [h \in 0..n |-> Body(f, h)] BY <1>3
  <2> DEFINE g == [h \in 0..(n + 1) |-> IF h <= n THEN f[h] ELSE Body(f, h)]
  <2>2. ASSUME NEW h \in 0..(n + 1) PROVE Body(g, h) = Body(f, h)
    <3>1. CASE h = 0 BY <3>1
    <3>2. CASE h # 0
      <4>1. h - 1 \in 0..(n + 1) /\ h - 1 <= n BY <3>2
      <4>2. g[h - 1] = f[h - 1] BY <4>1
      <4> QED BY <3>2, <4>2
    <3> QED BY <3>1, <3>2
  <2>3. ASSUME NEW h \in 0..(n + 1) PROVE g[h] = Body(f, h)
    <3> HIDE DEF Body
    <3>1. h <= n => f[h] = Body(f, h)
      <4>1. h <= n => h \in 0..n OBVIOUS
      <4> QED BY <2>1, <4>1
    <3> QED BY <3>1
  <2>4. g = [h \in 0..(n + 1) |-> Body(g, h)]
    <3>1. \A h \in 0..(n + 1) : g[h] = Body(g, h) BY <2>2, <2>3
    <3>2. DOMAIN g = 0..(n + 1) /\ g = [h \in 0..(n + 1) |-> g[h]] OBVIOUS
    <3> HIDE DEF g, Body
    <3> QED BY <3>1, <3>2
  <2> HIDE DEF g, Body
  <2> QED BY <2>4
<1> HIDE DEF S
<1>4. H \in S BY <1>2, <1>3, NatInductionSet
<1>5. \E f : f = [h \in 0..Halvings |-> Body(f, h)] BY <1>1, <1>4 DEF S
<1>6. PICK levels : levels = Pyramid(image, reducer, init) OBVIOUS
<1>7. levels = CHOOSE f : f = [h \in 0..Halvings |-> Body(f, h)]
  BY <1>6 DEF Pyramid, LevelAbove
<1>8. levels = [h \in 0..Halvings |-> Body(levels, h)]
  <2> HIDE DEF Body
  <2> QED BY <1>5, <1>7
<1>9. DOMAIN levels = 0..Halvings /\ \A h \in 0..Halvings : levels[h] = Body(levels, h)
  <2> HIDE DEF Body
  <2> QED BY <1>8
<1>10. 0 \in 0..Halvings /\ \A h \in 1..Halvings : h \in 0..Halvings /\ h # 0 BY <1>1
<1> QED BY <1>6, <1>9, <1>10

\* A value of a pyramid and what it bounds.
Reducers == {"min", "max", "or"}
ValuesOf(reducer) == IF reducer = "or" THEN BOOLEAN ELSE Int
IsBound(reducer, v, w) == IF reducer = "min" THEN v <= w
                          ELSE IF reducer = "max" THEN w <= v ELSE w => v

LEMMA ReducedIs ==
  ASSUME NEW reducer \in Reducers, NEW a \in ValuesOf(reducer), NEW b \in ValuesOf(reducer),
         NEW c \in ValuesOf(reducer), NEW d \in ValuesOf(reducer)
  PROVE  /\ Reduced(reducer, {a, b, c, d}) \in ValuesOf(reducer)
         /\ \A v \in {a, b, c, d} : IsBound(reducer, Reduced(reducer, {a, b, c, d}), v)
<1>1. CASE reducer = "min"
  <2>1. a \in Int /\ b \in Int /\ c \in Int /\ d \in Int BY <1>1 DEF ValuesOf
  <2>2. \E x \in {a, b, c, d} : \A y \in {a, b, c, d} : x <= y BY <2>1
  <2>3. Min({a, b, c, d}) \in {a, b, c, d} /\ \A y \in {a, b, c, d} : Min({a, b, c, d}) <= y
    BY <2>2 DEF Min
  <2> QED BY <1>1, <2>1, <2>3 DEF Reduced, IsBound, ValuesOf
<1>2. CASE reducer = "max"
  <2>1. a \in Int /\ b \in Int /\ c \in Int /\ d \in Int BY <1>2 DEF ValuesOf
  <2>2. \E x \in {a, b, c, d} : \A y \in {a, b, c, d} : x >= y BY <2>1
  <2>3. Max({a, b, c, d}) \in {a, b, c, d} /\ \A y \in {a, b, c, d} : Max({a, b, c, d}) >= y
    BY <2>2 DEF Max
  <2>4. \A y \in {a, b, c, d} : y <= Max({a, b, c, d}) BY <2>1, <2>3
  <2> QED BY <1>2, <2>1, <2>3, <2>4 DEF Reduced, IsBound, ValuesOf
<1>3. CASE reducer = "or"
  <2>1. Reduced(reducer, {a, b, c, d}) = (TRUE \in {a, b, c, d}) BY <1>3 DEF Reduced
  <2>2. ASSUME NEW v \in {a, b, c, d}, v PROVE TRUE \in {a, b, c, d}
    <3>1. v \in BOOLEAN BY <1>3 DEF ValuesOf
    <3>2. v = TRUE BY <2>2, <3>1
    <3> QED BY <3>2
  <2>3. \A v \in {a, b, c, d} : v => (TRUE \in {a, b, c, d}) BY <2>2
  <2>4. ValuesOf(reducer) = BOOLEAN BY <1>3 DEF ValuesOf
  <2>5. \A x, v : IsBound(reducer, x, v) <=> (v => x) BY <1>3 DEF IsBound
  <2>6. (TRUE \in {a, b, c, d}) \in BOOLEAN OBVIOUS
  <2>7. Reduced(reducer, {a, b, c, d}) \in ValuesOf(reducer) BY <2>1, <2>4, <2>6
  <2>8. \A v \in {a, b, c, d} : IsBound(reducer, Reduced(reducer, {a, b, c, d}), v)
    BY Zenon, <2>1, <2>3, <2>5
  <2> QED BY <2>7, <2>8
<1> QED BY <1>1, <1>2, <1>3 DEF Reducers

LEMMA BoundOfBound ==
  ASSUME NEW reducer \in Reducers, NEW u \in ValuesOf(reducer), NEW v \in ValuesOf(reducer),
         NEW w \in ValuesOf(reducer), IsBound(reducer, u, v), IsBound(reducer, v, w)
  PROVE  IsBound(reducer, u, w)
<1>1. CASE reducer = "or" BY <1>1 DEF IsBound, ValuesOf
<1>2. CASE reducer # "or"
  <2>1. u \in Int /\ v \in Int /\ w \in Int BY <1>2 DEF ValuesOf
  <2> QED BY <1>2, <2>1 DEF IsBound
<1> QED BY <1>1, <1>2

\* The node over a pixel is among the four that make up the one above.
LEMMA NodeBelow ==
  ASSUME sensor \in Sensors, NEW h \in 1..Halvings, NEW q \in Pixels(0), NEW scale,
         scale = (IF h = 1 THEN sensor.scale ELSE <<1, 1>>)
  PROVE  LET p == NodeOver(h, q)
             r == NodeOver(h - 1, q)
         IN /\ \E i \in 0..1 : (2 * p[1] + i) \div scale[1] = r[1]
            /\ \E i \in 0..1 : (2 * p[2] + i) \div scale[2] = r[2]
            /\ (2 * p[1]) \div scale[1] <= r[1]
            /\ (2 * p[2]) \div scale[2] <= r[2]
<1>0. PICK L \in Nat : L = LevelLimit BY SensorIs
<1>1. h \in 0..L /\ h - 1 \in 0..L /\ h - 1 \in 0..Halvings /\ (h - 1) + 1 = h /\ h \in Nat
  <2>1. PICK H \in Nat : H = Halvings /\ H <= L BY <1>0, HalvingsAre
  <2> QED BY <2>1
<1>2. PICK m \in Nat \ {0}, n \in Nat \ {0}, s \in {1, 2}, t \in {1, 2} :
        m = sensor.rows /\ n = sensor.columns /\ s = sensor.scale[1] /\ t = sensor.scale[2]
  BY SensorIs
<1>3. q \in (0..(m - 1)) \X (0..(n - 1)) BY <1>2 DEF Pixels, Rows, Columns
<1>4. PICK x \in Nat, y \in Nat : q = <<x, y>> BY <1>3
<1>5. PICK w \in Nat \ {0} : w = PowerOf2(h - 1) BY <1>0, <1>1, SensorIs
<1>6. PowerOf2(h) = 2 * w
  <2>1. PowerOf2((h - 1) + 1) = 2 * PowerOf2(h - 1) BY <1>0, <1>1, SensorIs
  <2> QED BY <1>1, <1>5, <2>1
<1>7. NodeOver(h, q) = <<(x * s) \div (2 * w), (y * t) \div (2 * w)>>
  BY <1>1, <1>2, <1>4, <1>6 DEF NodeOver
<1>8. ASSUME NEW z \in Nat, NEW v \in {1, 2}
      PROVE  /\ (h # 1 => LET c == 2 * ((z * v) \div (2 * w)) IN
                          /\ \E i \in 0..1 : (c + i) \div 1 = (z * v) \div w
                          /\ c \div 1 <= (z * v) \div w)
             /\ (h = 1 => LET c == 2 * ((z * v) \div (2 * w)) IN
                          /\ \E i \in 0..1 : (c + i) \div v = z
                          /\ c \div v <= z)
  <2>1. PICK k \in Nat : k = z * v OBVIOUS
  <2>2. k \div (w * 2) = (k \div w) \div 2
    <3>1. k \in Int /\ 2 \in Nat \ {0} OBVIOUS
    <3> QED BY <3>1, ShiftTwice
  <2>3. w * 2 = 2 * w OBVIOUS
  <2>4. PICK a \in Int : a = k \div w BY QuotientsKeepOrder
  <2>5. PICK b \in Int, r \in 0..1 : a = 2 * b + r /\ a \div 2 = b
    <3>1. 2 \in Nat \ {0} /\ 0..(2 - 1) = 0..1 OBVIOUS
    <3> QED BY <3>1, DivisionIs
  <2>6. k \div (2 * w) = b BY <2>2, <2>3, <2>4, <2>5
  <2>7. ASSUME NEW e \in Int PROVE e \div 1 = e BY <2>7
  <2>8. ASSUME h = 1 PROVE a = k
    <3>1. w = 1 BY <1>5, <2>8, SensorIs
    <3> QED BY <2>4, <2>7, <3>1
  <2>9. h # 1 => \E i \in 0..1 : (2 * b + i) \div 1 = a BY <2>5, <2>7
  <2>10. (2 * b) \div 1 <= a
    <3>1. (2 * b) \div 1 = 2 * b BY <2>7
    <3> QED BY <2>5, <3>1
  <2>11. ASSUME h = 1 PROVE (\E i \in 0..1 : (2 * b + i) \div v = z) /\ (2 * b) \div v <= z
    <3>1. CASE v = 1
      <4>1. z = 2 * b + r BY <2>1, <2>5, <2>8, <2>11, <3>1
      <4>2. (2 * b + r) \div 1 = z /\ (2 * b) \div 1 = 2 * b BY <2>7, <4>1
      <4> QED BY <3>1, <4>1, <4>2
    <3>2. CASE v = 2
      <4>1. b = z BY <2>1, <2>5, <2>8, <2>11, <3>2
      <4>2. (2 * z + 0) \div 2 = z
        <5>1. 0 \in 0..(2 - 1) /\ 2 \in Nat \ {0} /\ z \in Int OBVIOUS
        <5> QED BY <5>1, QuotientIs
      <4>3. 2 * z + 0 = 2 * z OBVIOUS
      <4> QED BY <3>2, <4>1, <4>2, <4>3
    <3> QED BY <3>1, <3>2
  <2> QED BY <2>1, <2>4, <2>6, <2>9, <2>10, <2>11
<1>9. CASE h = 1
  <2>1. NodeOver(h - 1, q) = <<x, y>> BY <1>1, <1>4, <1>9 DEF NodeOver
  <2>2. scale[1] = s /\ scale[2] = t BY <1>2, <1>9
  <2> QED BY <1>7, <1>8, <1>9, <2>1, <2>2
<1>10. CASE h # 1
  <2>1. NodeOver(h - 1, q) = <<(x * s) \div w, (y * t) \div w>>
    BY <1>1, <1>2, <1>4, <1>5, <1>10 DEF NodeOver
  <2>2. scale[1] = 1 /\ scale[2] = 1 BY <1>10
  <2> QED BY <1>7, <1>8, <1>10, <2>1, <2>2
<1> QED BY <1>9, <1>10

LEMMA LevelAboveBounds ==
  ASSUME sensor \in Sensors, NEW reducer \in Reducers, NEW init \in ValuesOf(reducer),
         NEW h \in 1..Halvings, NEW image \in [Pixels(0) -> ValuesOf(reducer)],
         NEW below \in [Pixels(h - 1) -> ValuesOf(reducer)],
         \A q \in Pixels(0) : IsBound(reducer, below[NodeOver(h - 1, q)], image[q])
  PROVE  /\ LevelAbove(below, h, reducer, init) \in [Pixels(h) -> ValuesOf(reducer)]
         /\ \A q \in Pixels(0) :
              IsBound(reducer, LevelAbove(below, h, reducer, init)[NodeOver(h, q)], image[q])
<1>1. h \in 0..Halvings /\ h - 1 \in 0..Halvings /\ h \in Nat BY HalvingsAre, SensorIs
<1>2. PICK rows \in Nat \ {0}, columns \in Nat \ {0} :
        /\ rows = Rows(h - 1) /\ columns = Columns(h - 1)
        /\ Pixels(h - 1) = (0..(rows - 1)) \X (0..(columns - 1))
  BY <1>1, LevelsAre
<1>3. /\ Pixels(h) = (0..(Rows(h) - 1)) \X (0..(Columns(h) - 1))
      /\ Rows(h) \in Nat /\ Columns(h) \in Nat
      /\ \A q \in Pixels(0) : NodeOver(h, q) \in Pixels(h) /\ NodeOver(h - 1, q) \in Pixels(h - 1)
  BY <1>1, LevelsAre
<1>4. PICK scale : scale = IF h = 1 THEN sensor.scale ELSE <<1, 1>> OBVIOUS
<1>5. PICK u \in Nat \ {0}, v \in Nat \ {0} : u = scale[1] /\ v = scale[2]
  <2>1. sensor.scale[1] \in Nat \ {0} /\ sensor.scale[2] \in Nat \ {0} BY SensorIs
  <2> QED BY <1>4, <2>1
<1> DEFINE x(p, i) == (2 * p[1] + i) \div u
           y(p, i) == (2 * p[2] + i) \div v
           node(p, i, j) == Padded(below, h - 1, x(p, i), y(p, j), init)
           four(p) == {node(p, 0, 0), node(p, 0, 1), node(p, 1, 0), node(p, 1, 1)}
           V == ValuesOf(reducer)
<1>6. LevelAbove(below, h, reducer, init) =
        [p \in Pixels(h) |-> IF x(p, 0) >= rows \/ y(p, 0) >= columns THEN init
                             ELSE Reduced(reducer, {node(p, i, j) : i, j \in 0..1})]
  BY <1>2, <1>4, <1>5 DEF LevelAbove
<1>7. ASSUME NEW p \in Pixels(h), NEW i \in 0..1 PROVE x(p, i) \in Nat /\ y(p, i) \in Nat
  <2>1. p[1] \in Nat /\ p[2] \in Nat BY <1>3
  <2>2. 2 * p[1] + i \in Nat /\ 2 * p[2] + i \in Nat BY <2>1
  <2>3. PICK a \in Nat, b \in Nat : a = 2 * p[1] + i /\ b = 2 * p[2] + i BY <2>2
  <2>4. a \div u \in Int /\ 0 <= a \div u /\ b \div v \in Int /\ 0 <= b \div v BY QuotientsKeepOrder
  <2>5. PICK c \in Int, d \in Int : c = a \div u /\ d = b \div v /\ 0 <= c /\ 0 <= d BY <2>4
  <2> QED BY <2>3, <2>5
<1>8. ASSUME NEW p \in Pixels(h), NEW i \in 0..1, NEW j \in 0..1
      PROVE  /\ node(p, i, j) \in V
             /\ x(p, i) < rows /\ y(p, j) < columns => node(p, i, j) = below[<<x(p, i), y(p, j)>>]
  <2>1. PICK a \in Nat, b \in Nat : a = x(p, i) /\ b = y(p, j) BY <1>7
  <2>2. node(p, i, j) = IF a >= rows THEN init
                        ELSE IF b < columns THEN below[<<a, b>>]
                        ELSE IF sensor.wraps /\ b = columns THEN below[<<a, 0>>]
                        ELSE init
    BY <1>2, <2>1 DEF Padded
  <2>3. /\ a < rows /\ b < columns => <<a, b>> \in Pixels(h - 1)
        /\ a < rows => <<a, 0>> \in Pixels(h - 1)
    BY <1>2
  <2>4. /\ a < rows /\ b < columns => below[<<a, b>>] \in V
        /\ a < rows => below[<<a, 0>>] \in V
    BY <2>3
  <2>5. a >= rows \/ a < rows OBVIOUS
  <2>6. a < rows => ~(a >= rows) OBVIOUS
  <2> HIDE DEF x, y, node, V
  <2> QED BY <2>1, <2>2, <2>4, <2>5, <2>6 DEF V
<1>9. ASSUME NEW p \in Pixels(h) PROVE {node(p, i, j) : i, j \in 0..1} = four(p)
  <2>1. 0..1 = {0, 1} OBVIOUS
  <2> HIDE DEF node
  <2> QED BY <2>1
<1>10. ASSUME NEW p \in Pixels(h)
       PROVE  /\ Reduced(reducer, four(p)) \in V
              /\ \A i, j \in 0..1 : IsBound(reducer, Reduced(reducer, four(p)), node(p, i, j))
  <2>1. 0 \in 0..1 /\ 1 \in 0..1 /\ \A i \in 0..1 : i = 0 \/ i = 1 OBVIOUS
  <2>2. PICK a \in V, b \in V, c \in V, d \in V :
          a = node(p, 0, 0) /\ b = node(p, 0, 1) /\ c = node(p, 1, 0) /\ d = node(p, 1, 1)
    BY <1>8, <2>1
  <2>3. /\ Reduced(reducer, {a, b, c, d}) \in V
        /\ \A e \in {a, b, c, d} : IsBound(reducer, Reduced(reducer, {a, b, c, d}), e)
    BY ReducedIs
  <2>4. four(p) = {a, b, c, d} BY <2>2
  <2>5. \A i, j \in 0..1 : node(p, i, j) \in four(p)
    <3> HIDE DEF node
    <3> QED BY <2>1
  <2> HIDE DEF node, four, V
  <2> QED BY <2>3, <2>4, <2>5
<1> HIDE DEF node, four
<1>11. ASSUME NEW p \in Pixels(h)
       PROVE  (IF x(p, 0) >= rows \/ y(p, 0) >= columns THEN init
               ELSE Reduced(reducer, {node(p, i, j) : i, j \in 0..1})) \in V
  <2>1. {node(p, i, j) : i, j \in 0..1} = four(p) BY <1>9
  <2>2. Reduced(reducer, {node(p, i, j) : i, j \in 0..1}) \in V BY <1>10, <2>1
  <2> HIDE DEF x, y, V
  <2>3. init \in V BY DEF V
  <2> QED BY <2>2, <2>3
<1>12. LevelAbove(below, h, reducer, init) \in [Pixels(h) -> V] BY <1>6, <1>11
<1>13. ASSUME NEW q \in Pixels(0)
       PROVE  IsBound(reducer, LevelAbove(below, h, reducer, init)[NodeOver(h, q)], image[q])
  <2>1. PICK p : p = NodeOver(h, q) OBVIOUS
  <2>2. PICK r : r = NodeOver(h - 1, q) OBVIOUS
  <2>3. p \in Pixels(h) /\ r \in Pixels(h - 1) BY <1>3, <2>1, <2>2
  <2>4. /\ \E i \in 0..1 : (2 * p[1] + i) \div u = r[1]
        /\ \E i \in 0..1 : (2 * p[2] + i) \div v = r[2]
        /\ (2 * p[1]) \div u <= r[1] /\ (2 * p[2]) \div v <= r[2]
    BY <1>4, <1>5, <2>1, <2>2, NodeBelow
  <2>5. PICK i \in 0..1, j \in 0..1 : x(p, i) = r[1] /\ y(p, j) = r[2] BY <2>4
  <2>6. r[1] \in 0..(rows - 1) /\ r[2] \in 0..(columns - 1) /\ r = <<r[1], r[2]>> BY <1>2, <2>3
  <2>7. ~(x(p, 0) >= rows) /\ ~(y(p, 0) >= columns)
    <3>1. p[1] \in Nat /\ p[2] \in Nat BY <1>3, <2>3
    <3>2. 2 * p[1] + 0 = 2 * p[1] /\ 2 * p[2] + 0 = 2 * p[2] BY <3>1
    <3>3. x(p, 0) = (2 * p[1]) \div u /\ y(p, 0) = (2 * p[2]) \div v BY <3>2
    <3>4. 0 \in 0..1 OBVIOUS
    <3>5. PICK a \in Nat, b \in Nat : a = x(p, 0) /\ b = y(p, 0) BY <1>7, <2>3, <3>4
    <3>6. a <= r[1] /\ b <= r[2] BY <2>4, <3>3, <3>5
    <3> QED BY <2>6, <3>5, <3>6
  <2>8. LevelAbove(below, h, reducer, init)[p] = Reduced(reducer, four(p))
    <3> HIDE DEF x, y
    <3> QED BY <1>6, <1>9, <2>3, <2>7
  <2>9. IsBound(reducer, Reduced(reducer, four(p)), node(p, i, j))
    BY <1>10, <2>3
  <2>10. node(p, i, j) = below[r]
    <3>1. x(p, i) < rows /\ y(p, j) < columns BY <2>5, <2>6
    <3>2. <<x(p, i), y(p, j)>> = r BY <2>5, <2>6
    <3> HIDE DEF x, y
    <3> QED BY <1>8, <2>3, <3>1, <3>2
  <2>11. IsBound(reducer, below[r], image[q]) BY <2>2
  <2>12. below[r] \in V /\ image[q] \in V BY <2>3
  <2>13. Reduced(reducer, four(p)) \in V BY <1>10, <2>3
  <2>14. IsBound(reducer, LevelAbove(below, h, reducer, init)[p], image[q])
    BY <2>8, <2>9, <2>10, <2>11, <2>12, <2>13, BoundOfBound
  <2> QED BY <2>1, <2>14
<1> QED BY <1>12, <1>13

\* A value of a pyramid bounds all pixels under it.
LEMMA PyramidBounds ==
  ASSUME sensor \in Sensors, NEW reducer \in Reducers, NEW init \in ValuesOf(reducer),
         NEW image \in [Pixels(0) -> ValuesOf(reducer)]
  PROVE  \A h \in 0..Halvings :
           /\ Pyramid(image, reducer, init)[h] \in [Pixels(h) -> ValuesOf(reducer)]
           /\ \A q \in Pixels(0) :
                IsBound(reducer, Pyramid(image, reducer, init)[h][NodeOver(h, q)], image[q])
<1>1. PICK H \in Nat : H = Halvings BY HalvingsAre, SensorIs
<1>2. PICK level : level = Pyramid(image, reducer, init) OBVIOUS
<1>3. /\ level[0] = image
      /\ \A h \in 1..H : level[h] = LevelAbove(level[h - 1], h, reducer, init)
  BY <1>1, <1>2, PyramidIs
<1> DEFINE Good(h) == /\ level[h] \in [Pixels(h) -> ValuesOf(reducer)]
                      /\ \A q \in Pixels(0) : IsBound(reducer, level[h][NodeOver(h, q)], image[q])
           S == {h \in Nat : h <= H => Good(h)}
<1>4. 0 \in S
  <2>1. ASSUME NEW q \in Pixels(0) PROVE IsBound(reducer, image[q], image[q])
    <3>1. CASE reducer = "or" BY <3>1 DEF IsBound
    <3>2. CASE reducer # "or"
      <4>1. PICK v \in Int : v = image[q] BY <3>2 DEF ValuesOf
      <4>2. v <= v OBVIOUS
      <4> QED BY <3>2, <4>1, <4>2 DEF IsBound
    <3> QED BY <3>1, <3>2
  <2> QED BY <1>3, <2>1 DEF NodeOver
<1>5. ASSUME NEW h \in Nat, h \in S PROVE h + 1 \in S
  <2> SUFFICES ASSUME h + 1 <= H PROVE Good(h + 1) OBVIOUS
  <2>1. Good(h) BY <1>5
  <2>2. PICK g \in 1..H : g = h + 1 /\ g - 1 = h BY <1>1
  <2>3. /\ LevelAbove(level[h], g, reducer, init) \in [Pixels(g) -> ValuesOf(reducer)]
        /\ \A q \in Pixels(0) :
             IsBound(reducer, LevelAbove(level[h], g, reducer, init)[NodeOver(g, q)], image[q])
    BY <1>1, <2>1, <2>2, LevelAboveBounds
  <2>4. level[g] = LevelAbove(level[h], g, reducer, init) BY <1>3, <2>2
  <2> QED BY <2>2, <2>3, <2>4
<1> HIDE DEF Good
<1>6. Nat \subseteq S BY <1>4, <1>5, NatInductionSet
<1>7. \A h \in 0..H : Good(h) BY <1>1, <1>6
<1> QED BY <1>1, <1>2, <1>7 DEF Good


\* A power of two is a multiple of each smaller one.
LEMMA PowersDivide ==
  ASSUME sensor \in Sensors, NEW h \in 0..LevelLimit, NEW e \in 0..LevelLimit
  PROVE  \/ \E m \in Nat \ {0} : PowerOf2(e) = PowerOf2(h) * m
         \/ PowerOf2(e) <= PowerOf2(h)
<1>1. PICK L \in Nat : L = LevelLimit BY SensorIs
<1>2. PowerOf2(0) = 1 /\ \A k \in 0..L : PowerOf2(k) \in Nat \ {0} /\ PowerOf2(k + 1) = 2 * PowerOf2(k)
  BY <1>1, SensorIs
<1>3. PICK w \in Nat \ {0} : w = PowerOf2(h) BY <1>1, <1>2
<1> DEFINE Multiple(k) == \E m \in Nat \ {0} : PowerOf2(k) = w * m
           S == {k \in Nat : h <= k /\ k <= L => Multiple(k)}
<1>4. 0 \in S
  <2>1. h <= 0 => PowerOf2(0) = w * 1
    <3>1. h <= 0 => h = 0 BY <1>1
    <3> QED BY <1>2, <1>3, <3>1
  <2>2. 1 \in Nat \ {0} OBVIOUS
  <2> QED BY <2>1, <2>2
<1>5. ASSUME NEW k \in Nat, k \in S PROVE k + 1 \in S
  <2> SUFFICES ASSUME h <= k + 1, k + 1 <= L PROVE Multiple(k + 1)
    <3> HIDE DEF Multiple
    <3> QED OBVIOUS
  <2>1. h = k + 1 \/ h <= k BY <1>1
  <2>2. CASE h = k + 1
    <3>1. PowerOf2(k + 1) = w * 1 BY <1>3, <2>2
    <3> QED BY <3>1
  <2>3. CASE h <= k
    <3>1. PICK m \in Nat \ {0} : PowerOf2(k) = w * m BY <1>5, <2>3
    <3>2. PowerOf2(k + 1) = 2 * (w * m) BY <1>1, <1>2, <3>1
    <3>3. 2 * (w * m) = w * (2 * m) /\ 2 * m \in Nat \ {0} OBVIOUS
    <3> QED BY <3>2, <3>3
  <2> QED BY <2>1, <2>2, <2>3
<1> HIDE DEF S
<1>6. Nat \subseteq S BY <1>4, <1>5, NatInductionSet
<1>7. CASE h <= e
  <2>1. e \in S /\ e <= L /\ e \in Nat BY <1>1, <1>6
  <2> QED BY <1>3, <1>7, <2>1 DEF S
<1>8. CASE e < h
  <2>1. 2 * PowerOf2(e) <= PowerOf2(h) BY <1>1, <1>8, LevelPowersGrow
  <2>2. PICK p \in Nat, q \in Nat : p = PowerOf2(e) /\ q = PowerOf2(h) BY <1>1, <1>2
  <2> QED BY <2>1, <2>2
<1> QED BY <1>1, <1>7, <1>8

\* Along one axis: neighbours cover what lies between the ends, also across the seam.
LEMMA NeighboursCover ==
  ASSUME NEW w \in Nat \ {0}, NEW a \in Nat, NEW b \in Nat, NEW x \in Nat,
         a <= x, x <= b, b \div w <= (a \div w) + 1
  PROVE  x \div w \in {a \div w, b \div w}
<1>1. PICK i \in Int, j \in Int, k \in Int : i = a \div w /\ j = b \div w /\ k = x \div w
  BY QuotientsKeepOrder
<1>2. i <= k /\ k <= j BY <1>1, QuotientsKeepOrder
<1> QED BY <1>1, <1>2

LEMMA NeighboursCoverSeam ==
  ASSUME NEW w \in Nat \ {0}, NEW c \in Nat \ {0}, c <= w \/ \E m \in Nat \ {0} : c = w * m,
         NEW a \in 0..(c - 1), NEW b \in 0..(c - 1), NEW x \in 0..(c - 1),
         a <= x \/ x <= b, (b + c) \div w <= (a \div w) + 1
  PROVE  x \div w \in {a \div w, b \div w}
<1>0. a \in Int /\ b \in Int /\ x \in Int OBVIOUS
<1>1. PICK i \in Int, j \in Int, k \in Int : i = a \div w /\ j = b \div w /\ k = x \div w
  BY <1>0, QuotientsKeepOrder
<1>2. CASE c <= w
  <2>1. ASSUME NEW y \in 0..(c - 1) PROVE y \div w = 0
    <3>1. y \in Int /\ 0 <= y /\ y < w BY <1>2
    <3> QED BY <3>1, QuotientsKeepOrder
  <2> QED BY <2>1
<1>3. CASE \E m \in Nat \ {0} : c = w * m
  <2>1. PICK m \in Nat \ {0} : c = w * m BY <1>3
  <2>2. (w * m + b) \div w = m + j BY <1>1, QuotientsKeepOrder
  <2>3. w * m + b = b + c BY <2>1
  <2>4. m + j <= i + 1 BY <1>1, <2>2, <2>3
  <2>5. ASSUME NEW y \in 0..(c - 1) PROVE 0 <= y \div w /\ y \div w < m
    <3>1. y \in Int /\ 0 <= y /\ y < w * m /\ m \in Int BY <2>1
    <3> QED BY <3>1, QuotientsKeepOrder
  <2>6. 0 <= i /\ i < m /\ 0 <= j /\ j < m /\ 0 <= k /\ k < m BY <1>1, <2>5
  <2>7. j = 0 /\ i = m - 1 BY <2>4, <2>6
  <2>8. a <= x => i <= k BY <1>1, QuotientsKeepOrder
  <2>9. x <= b => k <= j BY <1>1, QuotientsKeepOrder
  <2>10. k = i \/ k = j BY <2>6, <2>7, <2>8, <2>9
  <2> QED BY <1>1, <2>10
<1> QED BY <1>2, <1>3

\* On an axis of n pixels, each s long.
LEMMA AxisCovered ==
  ASSUME sensor \in Sensors, NEW h \in 0..LevelLimit, NEW n \in Nat \ {0}, NEW s \in {1, 2},
         NEW a \in 0..(n - 1), NEW b \in 0..(n - 1), NEW x \in 0..(n - 1), Between(x, a, b),
         a <= b \/ \E e \in 0..LevelLimit : n * s = PowerOf2(e),
         ((IF b < a THEN b + n ELSE b) * s) \div PowerOf2(h) <= ((a * s) \div PowerOf2(h)) + 1
  PROVE  (x * s) \div PowerOf2(h) \in {(a * s) \div PowerOf2(h), (b * s) \div PowerOf2(h)}
<1>1. PICK w \in Nat \ {0} : w = PowerOf2(h) BY SensorIs
<1>2. PICK p \in Nat, q \in Nat, r \in Nat, c \in Nat \ {0} : p = a * s /\ q = b * s /\ r = x * s /\ c = n * s
  OBVIOUS
<1>3. p \in 0..(c - 1) /\ q \in 0..(c - 1) /\ r \in 0..(c - 1) BY <1>2
<1>4. (b + n) * s = q + c BY <1>2
<1>5. CASE a <= b
  <2>1. a <= x /\ x <= b BY <1>5 DEF Between
  <2>2. p <= r /\ r <= q BY <1>2, <2>1
  <2>3. q \div w <= (p \div w) + 1 BY <1>1, <1>2, <1>5
  <2>4. r \div w \in {p \div w, q \div w} BY <2>2, <2>3, NeighboursCover
  <2> QED BY <1>1, <1>2, <2>4
<1>6. CASE b < a
  <2>1. a <= x \/ x <= b BY <1>6 DEF Between
  <2>2. p <= r \/ r <= q BY <1>2, <2>1
  <2>3. (q + c) \div w <= (p \div w) + 1 BY <1>1, <1>2, <1>4, <1>6
  <2>4. c <= w \/ \E m \in Nat \ {0} : c = w * m
    <3>1. PICK e \in 0..LevelLimit : c = PowerOf2(e) BY <1>2, <1>6
    <3> QED BY <1>1, <3>1, PowersDivide
  <2>5. r \div w \in {p \div w, q \div w} BY <1>3, <2>2, <2>3, <2>4, NeighboursCoverSeam
  <2> QED BY <1>1, <1>2, <2>5
<1> QED BY <1>5, <1>6

\* The number of columns of an image whose seam is exact, in lengths of its lowest level.
LEMMA SeamIsPower ==
  ASSUME sensor \in Sensors, SeamIsExact
  PROVE  \E e \in 0..LevelLimit : sensor.columns * sensor.scale[2] = PowerOf2(e)
<1>1. PICK m \in Nat \ {0}, n \in Nat \ {0}, t \in {1, 2} :
        m = sensor.rows /\ n = sensor.columns /\ t = sensor.scale[2]
  BY SensorIs
<1>2. PICK e \in 0..n : n = PowerOf2(e) BY <1>1 DEF SeamIsExact
<1>3. PICK L \in Nat : L = LevelLimit /\ L = 2 * (m + n) BY <1>1, SensorIs DEF LevelLimit
<1>4. e \in 0..L /\ e + 1 \in 0..L BY <1>3
<1>5. PowerOf2(e + 1) = 2 * n BY <1>2, <1>3, <1>4, SensorIs
<1>6. n * 1 = n /\ n * 2 = 2 * n OBVIOUS
<1> QED BY <1>1, <1>2, <1>3, <1>4, <1>5, <1>6

\* The column of an interval's end, past the seam if the interval lies across it.
EndColumn(a, b) == IF b[2] < a[2] THEN b[2] + sensor.columns ELSE b[2]

\* An interval's larger side, and the height where it is at most two nodes long.
LEMMA SidesAre ==
  ASSUME sensor \in Sensors, NEW a \in Pixels(0), NEW b \in Pixels(0), a[1] <= b[1],
         a[2] <= b[2] \/ sensor.wraps, a # b,
         NEW m \in Nat \ {0}, NEW n \in Nat \ {0}, NEW s \in {1, 2}, NEW t \in {1, 2},
         m = sensor.rows, n = sensor.columns, s = sensor.scale[1], t = sensor.scale[2]
  PROVE  LET D == Greater(b[1] * s - a[1] * s, EndColumn(a, b) * t - a[2] * t)
         IN  /\ D \in 1..LevelLimit
             /\ Log2Floor(D) \in Nat /\ Log2Floor(D) + 1 \in 0..Halvings
             /\ b[1] * s - a[1] * s < PowerOf2(Log2Floor(D) + 1)
             /\ EndColumn(a, b) * t - a[2] * t < PowerOf2(Log2Floor(D) + 1)
<1>1. PICK L \in Nat : L = LevelLimit BY SensorIs
<1>2. PICK G \in 1..L : G = Greater(ScaledRows, ScaledColumns) /\ m * s <= G /\ n * t <= G
  BY <1>1, SensorIs DEF ScaledRows, ScaledColumns
<1>3. PICK H \in 0..L : H = Halvings BY <1>1, HalvingsAre
<1>4. \A k \in 0..L : PowerOf2(k) \in Nat BY <1>1, SensorIs
<1>5. PICK W \in Nat : W = PowerOf2(H) BY <1>4
<1>6. G <= W
  <2>1. ScaledRows <= W /\ ScaledColumns <= W BY <1>3, <1>5, HalvingsAre
  <2> QED BY <1>2, <2>1 DEF Greater
<1>7. a \in (0..(m - 1)) \X (0..(n - 1)) /\ b \in (0..(m - 1)) \X (0..(n - 1)) BY DEF Pixels, Rows, Columns
<1>8. PICK p \in 0..(m - 1), q \in 0..(n - 1) : a = <<p, q>> BY <1>7
<1>9. PICK x \in 0..(m - 1), y \in 0..(n - 1) : b = <<x, y>> BY <1>7
<1>10. PICK z \in Nat : z = EndColumn(a, b) /\ z - q \in 0..(n - 1) 
  BY <1>8, <1>9 DEF EndColumn
<1>11. p <= x /\ (x # p \/ z # q)
  <2>1. CASE y < q BY <1>8, <1>9, <1>10, <2>1 DEF EndColumn
  <2>2. CASE ~(y < q)
    <3>1. z = y BY <1>8, <1>9, <1>10, <2>2 DEF EndColumn
    <3> QED BY <1>8, <1>9, <3>1
  <2> QED BY <2>1, <2>2
<1>12. PICK u \in Int, v \in Int : u = x * s - p * s /\ v = z * t - q * t OBVIOUS
<1>13. 0 <= u /\ 0 <= v /\ u < m * s /\ v < n * t /\ (0 < u \/ 0 < v)
  <2>1. (s = 1 /\ u = x - p /\ m * s = m) \/ (s = 2 /\ u = 2 * (x - p) /\ m * s = 2 * m) BY <1>12
  <2>2. (t = 1 /\ v = z - q /\ n * t = n) \/ (t = 2 /\ v = 2 * (z - q) /\ n * t = 2 * n) BY <1>12
  <2>3. x - p \in Int /\ z - q \in Int /\ 0 <= x - p /\ x - p < m BY <1>11
  <2>4. x # p => 0 < x - p BY <1>11
  <2>5. z # q => 0 < z - q BY <1>10
  <2> QED BY <1>10, <1>11, <2>1, <2>2, <2>3, <2>4, <2>5
<1>14. PICK D \in Int : D = Greater(u, v) /\ u <= D /\ v <= D /\ 0 < D /\ D < G
  BY <1>2, <1>13 DEF Greater
<1>15. D \in 1..L BY <1>14
<1>16. PICK k \in 0..L : k = Log2Floor(D) /\ PowerOf2(k) <= D /\ D < PowerOf2(k + 1)
  BY <1>1, <1>15, Log2FloorIs
<1>17. k < H
  <2> SUFFICES ASSUME H <= k PROVE FALSE BY <1>3
  <2>1. PICK K \in Nat : K = PowerOf2(k) BY <1>4
  <2>2. H = k \/ H < k BY <1>3
  <2>3. H = k => W = K BY <1>5, <2>1
  <2>4. H < k => 2 * W <= K BY <1>1, <1>5, <2>1, LevelPowersGrow
  <2>5. W <= K BY <2>2, <2>3, <2>4
  <2> QED BY <1>6, <1>14, <1>16, <2>1, <2>5
<1>18. k + 1 \in 0..H /\ k + 1 \in 0..L BY <1>3, <1>17
<1>19. PICK K \in Nat : K = PowerOf2(k + 1) BY <1>4, <1>18
<1>20. u < K /\ v < K BY <1>14, <1>16, <1>19
<1>21. b[1] * s - a[1] * s = u /\ EndColumn(a, b) * t - a[2] * t = v BY <1>8, <1>9, <1>10, <1>12
<1> QED BY <1>1, <1>3, <1>14, <1>15, <1>16, <1>18, <1>19, <1>20, <1>21

LEMMA CoverCases ==
  ASSUME sensor \in Sensors, NEW a \in Pixels(0), NEW b \in Pixels(0), a[1] <= b[1],
         a[2] <= b[2] \/ sensor.wraps,
         NEW m \in Nat \ {0}, NEW n \in Nat \ {0}, NEW s \in {1, 2}, NEW t \in {1, 2},
         m = sensor.rows, n = sensor.columns, s = sensor.scale[1], t = sensor.scale[2]
  PROVE  \E h \in 0..Halvings :
           /\ Cover(a, b) = [height |-> h, nodes |-> Corners(NodeOver(h, a), NodeOver(h, b))]
           /\ (b[1] * s) \div PowerOf2(h) <= ((a[1] * s) \div PowerOf2(h)) + 1
           /\ (EndColumn(a, b) * t) \div PowerOf2(h) <= ((a[2] * t) \div PowerOf2(h)) + 1
<1>1. PICK L \in Nat : L = LevelLimit BY SensorIs
<1>2. PICK H \in 0..L : H = Halvings BY <1>1, HalvingsAre
<1>3. /\ PowerOf2(0) = 1
      /\ \A k \in 0..L : PowerOf2(k) \in Nat \ {0} /\ PowerOf2(k + 1) = 2 * PowerOf2(k)
  BY <1>1, SensorIs
<1>4. a \in (0..(m - 1)) \X (0..(n - 1)) /\ b \in (0..(m - 1)) \X (0..(n - 1)) BY DEF Pixels, Rows, Columns
<1>5. PICK p \in 0..(m - 1), q \in 0..(n - 1) : a = <<p, q>> BY <1>4
<1>6. PICK x \in 0..(m - 1), y \in 0..(n - 1) : b = <<x, y>> BY <1>4
<1>7. PICK z \in Nat : z = EndColumn(a, b) BY <1>5, <1>6 DEF EndColumn
<1>8. CASE a = b
  <2>1. Cover(a, b) = [height |-> 0, nodes |-> {a}] BY <1>8 DEF Cover
  <2>2. Corners(NodeOver(0, a), NodeOver(0, b)) = {a} BY <1>5, <1>8 DEF Corners, NodeOver
  <2>3. 0 \in 0..H BY <1>2
  <2>4. z = q BY <1>5, <1>7, <1>8 DEF EndColumn
  <2>5. (x * s) \div 1 <= ((p * s) \div 1) + 1 /\ (z * t) \div 1 <= ((q * t) \div 1) + 1
    BY <1>5, <1>6, <1>8, <2>4
  <2> QED BY <1>2, <1>3, <1>5, <1>6, <1>7, <2>1, <2>2, <2>3, <2>5
<1>9. CASE a # b
  <2> DEFINE D == Greater(x * s - p * s, z * t - q * t)
  <2>1. PICK up \in Nat : up = Log2Floor(D) /\ up + 1 \in 0..H /\ D # 0
                          /\ x * s - p * s < PowerOf2(up + 1) /\ z * t - q * t < PowerOf2(up + 1)
    BY <1>2, <1>5, <1>6, <1>7, <1>9, SidesAre
  <2>2. up \in 0..L /\ up \in 0..H BY <1>2, <2>1
  <2>3. PICK w \in Nat \ {0}, W \in Nat \ {0} : w = PowerOf2(up) /\ W = PowerOf2(up + 1) /\ W = w * 2
    BY <1>3, <2>1, <2>2
  <2>4. Unwrapped(a, b) = <<x, z>> BY <1>5, <1>6, <1>7 DEF Unwrapped, EndColumn
  <2>5. \A i, l : Scaled(<<i, l>>) = <<i * s, l * t>> BY DEF Scaled
  <2>6. ChildHeight(a, b) = up
    <3>1. Scaled(Unwrapped(a, b)) = <<x * s, z * t>> /\ Scaled(a) = <<p * s, q * t>>
      BY <1>5, <2>4, <2>5
    <3> HIDE DEF D
    <3>2. ChildHeight(a, b) = IF D = 0 THEN 0 ELSE Log2Floor(D) BY <3>1 DEF ChildHeight, D
    <3> QED BY <2>1, <3>2
  <2> DEFINE child(r) == <<Scaled(r)[1] \div w, Scaled(r)[2] \div w>>
             par(r) == <<child(r)[1] \div 2, child(r)[2] \div 2>>
             near == child(a)
             far == child(<<x, z>>)
             neighbours == far[1] - near[1] <= 1 /\ far[2] - near[2] <= 1
             apart == far[1] = near[1] \/ far[2] = near[2] \/ par(<<x, z>>) # par(a)
  <2>7. Cover(a, b) =
          IF neighbours /\ apart
          THEN [height |-> up, nodes |-> IF up = 0 THEN Corners(a, b) ELSE Corners(near, child(b))]
          ELSE [height |-> up + 1, nodes |-> Corners(par(a), par(b))]
    BY <1>9, <2>3, <2>4, <2>6 DEF Cover
  <2>8. near = <<(p * s) \div w, (q * t) \div w>> /\ far = <<(x * s) \div w, (z * t) \div w>>
        /\ child(b) = <<(x * s) \div w, (y * t) \div w>>
    BY <1>5, <1>6, <2>5
  <2>9. p * s \in Int /\ q * t \in Int /\ x * s \in Int /\ y * t \in Int /\ z * t \in Int OBVIOUS
  <2>10. par(a) = <<(p * s) \div W, (q * t) \div W>> /\ par(b) = <<(x * s) \div W, (y * t) \div W>>
    <3>1. \A i \in Int : (i \div w) \div 2 = i \div W BY <2>3, ShiftTwice
    <3>2. /\ par(a) = <<((p * s) \div w) \div 2, ((q * t) \div w) \div 2>>
          /\ par(b) = <<((x * s) \div w) \div 2, ((y * t) \div w) \div 2>>
      <4> HIDE DEF child
      <4> QED BY <2>8 DEF near
    <3> HIDE DEF par
    <3> QED BY <2>9, <3>1, <3>2
  <2>11. CASE neighbours /\ apart
    <3>1. Cover(a, b) = [height |-> up, nodes |-> Corners(NodeOver(up, a), NodeOver(up, b))]
      <4>1. CASE up = 0 BY <2>7, <2>11, <4>1 DEF NodeOver
      <4>2. CASE up # 0
        <5>1. NodeOver(up, a) = near /\ NodeOver(up, b) = child(b)
          BY <1>5, <1>6, <2>3, <2>8, <4>2 DEF NodeOver
        <5> QED BY <2>7, <2>11, <4>2, <5>1
      <4> QED BY <4>1, <4>2
    <3>2. far[1] - near[1] <= 1 /\ far[2] - near[2] <= 1 BY <2>11
    <3>3. PICK i \in Int, j \in Int, k \in Int, l \in Int :
            i = (p * s) \div w /\ j = (q * t) \div w /\ k = (x * s) \div w /\ l = (z * t) \div w
      <4>1. \A u \in Int : u \div w \in Int BY QuotientsKeepOrder
      <4> QED BY <2>9, <4>1
    <3>4. k <= i + 1 /\ l <= j + 1 BY <2>8, <3>2, <3>3
    <3> QED BY <1>2, <1>5, <1>6, <1>7, <2>2, <2>3, <3>1, <3>3, <3>4
  <2>12. CASE ~(neighbours /\ apart)
    <3>1. NodeOver(up + 1, a) = par(a) /\ NodeOver(up + 1, b) = par(b)
      <4>1. up + 1 # 0 OBVIOUS
      <4> QED BY <1>5, <1>6, <2>3, <2>10, <4>1 DEF NodeOver
    <3>2. Cover(a, b) = [height |-> up + 1, nodes |-> Corners(NodeOver(up + 1, a), NodeOver(up + 1, b))]
      BY <2>7, <2>12, <3>1
    <3>3. (x * s) \div W <= ((p * s) \div W) + 1 /\ (z * t) \div W <= ((q * t) \div W) + 1
      <4>1. PICK i \in Int, j \in Int, k \in Int, l \in Int : i = p * s /\ j = q * t /\ k = x * s /\ l = z * t
        BY <2>9
      <4>2. k - i < W /\ l - j < W BY <2>1, <2>3, <4>1
      <4>3. k \div W <= (i \div W) + 1 /\ l \div W <= (j \div W) + 1 BY <4>2, QuotientsKeepOrder
      <4> QED BY <4>1, <4>3
    <3> QED BY <1>2, <1>5, <1>6, <1>7, <2>1, <2>3, <3>2, <3>3
  <2> QED BY <2>11, <2>12
<1> QED BY <1>8, <1>9

\* The cover of an interval has a node over each pixel of it.
LEMMA CoverIs ==
  ASSUME sensor \in Sensors, NEW a \in Pixels(0), NEW b \in Pixels(0), a[1] <= b[1],
         a[2] <= b[2] \/ sensor.wraps, a[2] <= b[2] \/ SeamIsExact
  PROVE  \E h \in 0..Halvings : \E c, d, e, f \in Pixels(h) :
           /\ Cover(a, b) = [height |-> h, nodes |-> {c, d, e, f}]
           /\ \A g \in Pixels(0) : a[1] <= g[1] /\ g[1] <= b[1] /\ Between(g[2], a[2], b[2])
                                     => NodeOver(h, g) \in {c, d, e, f}
<1>1. PICK m \in Nat \ {0}, n \in Nat \ {0}, s \in {1, 2}, t \in {1, 2} :
        m = sensor.rows /\ n = sensor.columns /\ s = sensor.scale[1] /\ t = sensor.scale[2]
  BY SensorIs
<1>2. PICK h \in 0..Halvings :
        /\ Cover(a, b) = [height |-> h, nodes |-> Corners(NodeOver(h, a), NodeOver(h, b))]
        /\ (b[1] * s) \div PowerOf2(h) <= ((a[1] * s) \div PowerOf2(h)) + 1
        /\ (EndColumn(a, b) * t) \div PowerOf2(h) <= ((a[2] * t) \div PowerOf2(h)) + 1
  BY <1>1, CoverCases
<1>3. h \in 0..LevelLimit /\ Pixels(h) = (0..(Rows(h) - 1)) \X (0..(Columns(h) - 1)) BY LevelsAre
<1>4. \A g \in Pixels(0) : NodeOver(h, g) \in Pixels(h) BY LevelsAre
<1>5. Pixels(0) = (0..(m - 1)) \X (0..(n - 1)) BY <1>1 DEF Pixels, Rows, Columns
<1>6. PICK A, B : A = NodeOver(h, a) /\ B = NodeOver(h, b) OBVIOUS
<1>7. A \in Pixels(h) /\ B \in Pixels(h) BY <1>4, <1>6
<1>8. <<A[1], A[2]>> \in Pixels(h) /\ <<A[1], B[2]>> \in Pixels(h)
      /\ <<B[1], A[2]>> \in Pixels(h) /\ <<B[1], B[2]>> \in Pixels(h)
  BY <1>3, <1>7
<1>9. Corners(A, B) = {<<A[1], A[2]>>, <<A[1], B[2]>>, <<B[1], A[2]>>, <<B[1], B[2]>>}
  BY DEF Corners
<1>10. ASSUME NEW g \in Pixels(0), a[1] <= g[1], g[1] <= b[1], Between(g[2], a[2], b[2])
       PROVE  NodeOver(h, g) \in Corners(A, B)
  <2>1. /\ a[1] \in 0..(m - 1) /\ b[1] \in 0..(m - 1) /\ g[1] \in 0..(m - 1)
        /\ a[2] \in 0..(n - 1) /\ b[2] \in 0..(n - 1) /\ g[2] \in 0..(n - 1)
        /\ a = <<a[1], a[2]>> /\ b = <<b[1], b[2]>> /\ g = <<g[1], g[2]>>
    BY <1>5
  <2>2. Between(g[1], a[1], b[1]) /\ ~(b[1] < a[1]) BY <1>10, <2>1 DEF Between
  <2>3. (g[1] * s) \div PowerOf2(h) \in {(a[1] * s) \div PowerOf2(h), (b[1] * s) \div PowerOf2(h)}
    BY <1>2, <1>3, <2>1, <2>2, AxisCovered
  <2>4. a[2] <= b[2] \/ \E e \in 0..LevelLimit : n * t = PowerOf2(e) BY <1>1, SeamIsPower
  <2>5. ((IF b[2] < a[2] THEN b[2] + n ELSE b[2]) * t) \div PowerOf2(h) <= ((a[2] * t) \div PowerOf2(h)) + 1
    BY <1>1, <1>2 DEF EndColumn
  <2>6. (g[2] * t) \div PowerOf2(h) \in {(a[2] * t) \div PowerOf2(h), (b[2] * t) \div PowerOf2(h)}
    BY <1>3, <1>10, <2>1, <2>4, <2>5, AxisCovered
  <2>7. CASE h = 0
    <3>1. PowerOf2(h) = 1 BY <2>7, SensorIs
    <3>2. g[1] * s \in {a[1] * s, b[1] * s} /\ g[2] * t \in {a[2] * t, b[2] * t}
      BY <2>1, <2>3, <2>6, <3>1
    <3>3. g[1] \in {a[1], b[1]} /\ g[2] \in {a[2], b[2]} BY <2>1, <3>2
    <3>4. A = a /\ B = b /\ NodeOver(h, g) = g BY <1>6, <2>7 DEF NodeOver
    <3> QED BY <2>1, <3>3, <3>4 DEF Corners
  <2>8. CASE h # 0
    <3>1. /\ A = <<(a[1] * s) \div PowerOf2(h), (a[2] * t) \div PowerOf2(h)>>
          /\ B = <<(b[1] * s) \div PowerOf2(h), (b[2] * t) \div PowerOf2(h)>>
          /\ NodeOver(h, g) = <<(g[1] * s) \div PowerOf2(h), (g[2] * t) \div PowerOf2(h)>>
      BY <1>1, <1>6, <2>8 DEF NodeOver
    <3> QED BY <2>3, <2>6, <3>1 DEF Corners
  <2> QED BY <2>7, <2>8
<1>11. PICK c \in Pixels(h), d \in Pixels(h), e \in Pixels(h), f \in Pixels(h) : Corners(A, B) = {c, d, e, f}
  BY <1>8, <1>9
<1>12. Cover(a, b) = [height |-> h, nodes |-> {c, d, e, f}] BY <1>2, <1>6, <1>11
<1>13. \A g \in Pixels(0) : a[1] <= g[1] /\ g[1] <= b[1] /\ Between(g[2], a[2], b[2])
                              => NodeOver(h, g) \in {c, d, e, f}
  BY <1>10, <1>11
<1> QED BY <1>12, <1>13


\* All levels bound the pixels of an image under their nodes.
PyramidBound(levels, reducer, image) ==
  \A h \in 0..Halvings :
    /\ levels[h] \in [Pixels(h) -> ValuesOf(reducer)]
    /\ \A q \in Pixels(0) : IsBound(reducer, levels[h][NodeOver(h, q)], image[q])

PyramidsAreBuilt ==
  /\ PyramidBound(lowerBounds, "min", ValueOrInit(UnknownLower))
  /\ PyramidBound(upperBounds, "max", ValueOrInit(UnknownUpper))
  /\ PyramidBound(unobservedMask, "or", [p \in Pixels(0) |-> IsUnobserved(rangeImage[p])])

\* Nodes that cover a pixel bound it, for each of the reductions.
LEMMA ReducedBounds ==
  ASSUME sensor \in Sensors, NEW reducer \in Reducers,
         NEW image \in [Pixels(0) -> ValuesOf(reducer)], NEW h \in 0..Halvings,
         NEW c \in Pixels(h), NEW d \in Pixels(h), NEW e \in Pixels(h), NEW f \in Pixels(h),
         NEW levels, PyramidBound(levels, reducer, image),
         NEW r, r = Reduced(reducer, {levels[h][n] : n \in {c, d, e, f}})
  PROVE  /\ r \in ValuesOf(reducer)
         /\ \A g \in Pixels(0) : NodeOver(h, g) \in {c, d, e, f} => IsBound(reducer, r, image[g])
<1>0. PICK level : level = levels[h] OBVIOUS
<1>1. /\ level \in [Pixels(h) -> ValuesOf(reducer)]
      /\ \A q \in Pixels(0) : IsBound(reducer, level[NodeOver(h, q)], image[q])
  BY <1>0 DEF PyramidBound
<1>2. PICK w \in ValuesOf(reducer), x \in ValuesOf(reducer), y \in ValuesOf(reducer), z \in ValuesOf(reducer) :
        w = level[c] /\ x = level[d] /\ y = level[e] /\ z = level[f]
  BY <1>1
<1>3. {levels[h][n] : n \in {c, d, e, f}} = {w, x, y, z} BY <1>0, <1>2
<1>4. r \in ValuesOf(reducer) /\ \A v \in {w, x, y, z} : IsBound(reducer, r, v)
  <2>1. r = Reduced(reducer, {w, x, y, z}) BY <1>3
  <2> QED BY <2>1, ReducedIs
<1>5. ASSUME NEW g \in Pixels(0), NodeOver(h, g) \in {c, d, e, f}
      PROVE  IsBound(reducer, r, image[g])
  <2>1. level[NodeOver(h, g)] \in {w, x, y, z} BY <1>2, <1>5
  <2>2. level[NodeOver(h, g)] \in ValuesOf(reducer) /\ image[g] \in ValuesOf(reducer) BY <2>1
  <2> QED BY <1>1, <1>4, <2>1, <2>2, BoundOfBound
<1> QED BY <1>4, <1>5

LEMMA IntervalBounds ==
  ASSUME sensor \in Sensors, rangeImage \in [Pixels(0) -> Nat], PyramidsAreBuilt,
         NEW a \in Pixels(0), NEW b \in Pixels(0), a[1] <= b[1], a[2] <= b[2] \/ sensor.wraps,
         a[2] <= b[2] \/ SeamIsExact
  PROVE  /\ LowerBound(a, b) \in Int /\ UpperBound(a, b) \in Int
         /\ \A g \in Pixels(0) : a[1] <= g[1] /\ g[1] <= b[1] /\ Between(g[2], a[2], b[2]) =>
              /\ IsUnobserved(rangeImage[g]) => HasUnobserved(a, b)
              /\ ~IsUnobserved(rangeImage[g]) => /\ LowerBound(a, b) <= rangeImage[g]
                                                 /\ rangeImage[g] <= UpperBound(a, b)
<1>0. PICK h \in 0..Halvings : \E c, d, e, f \in Pixels(h) :
           /\ Cover(a, b) = [height |-> h, nodes |-> {c, d, e, f}]
           /\ \A g \in Pixels(0) : a[1] <= g[1] /\ g[1] <= b[1] /\ Between(g[2], a[2], b[2])
                                     => NodeOver(h, g) \in {c, d, e, f}
  BY CoverIs
<1>1. PICK c \in Pixels(h), d \in Pixels(h), e \in Pixels(h), f \in Pixels(h) :
        /\ Cover(a, b) = [height |-> h, nodes |-> {c, d, e, f}]
        /\ \A g \in Pixels(0) : a[1] <= g[1] /\ g[1] <= b[1] /\ Between(g[2], a[2], b[2])
                                  => NodeOver(h, g) \in {c, d, e, f}
  BY <1>0
<1>2. PICK N : N = {c, d, e, f} OBVIOUS
<1>3. /\ LowerBound(a, b) = Reduced("min", {lowerBounds[h][n] : n \in N})
      /\ UpperBound(a, b) = Reduced("max", {upperBounds[h][n] : n \in N})
      /\ Reduced("or", {unobservedMask[h][n] : n \in N}) => HasUnobserved(a, b)
  <2>1. Cover(a, b).height = h /\ Cover(a, b).nodes = N BY <1>1, <1>2
  <2>2. LowerBound(a, b) = Min({lowerBounds[h][n] : n \in N}) BY <2>1 DEF LowerBound
  <2>3. UpperBound(a, b) = Max({upperBounds[h][n] : n \in N}) BY <2>1 DEF UpperBound
  <2>4. HasUnobserved(a, b) = (\E n \in N : unobservedMask[h][n]) BY <2>1 DEF HasUnobserved
  <2>5. PICK mask : mask = unobservedMask[h] OBVIOUS
  <2>6. TRUE \in {mask[n] : n \in N} => \E n \in N : mask[n] BY Zenon
  <2>7. Reduced("or", {mask[n] : n \in N}) = (TRUE \in {mask[n] : n \in N}) BY DEF Reduced
  <2>8. Reduced("or", {unobservedMask[h][n] : n \in N}) => HasUnobserved(a, b)
    BY <2>4, <2>5, <2>6, <2>7
  <2> QED BY <2>2, <2>3, <2>8 DEF Reduced
<1>4. \A i \in Int : ValueOrInit(i) \in [Pixels(0) -> Int]
  BY DEF ValueOrInit
<1>5. "min" \in Reducers /\ "max" \in Reducers /\ "or" \in Reducers
      /\ ValuesOf("min") = Int /\ ValuesOf("max") = Int /\ ValuesOf("or") = BOOLEAN
      /\ UnknownLower \in Int /\ UnknownUpper \in Int
  BY DEF Reducers, ValuesOf, UnknownLower, UnknownUpper
<1>6. /\ LowerBound(a, b) \in Int
      /\ \A g \in Pixels(0) : NodeOver(h, g) \in N => LowerBound(a, b) <= ValueOrInit(UnknownLower)[g]
  <2>1. PICK image : image = ValueOrInit(UnknownLower) /\ image \in [Pixels(0) -> ValuesOf("min")] BY <1>4, <1>5
  <2>2. PyramidBound(lowerBounds, "min", image) BY <2>1 DEF PyramidsAreBuilt
  <2>3. PICK r : r = LowerBound(a, b) OBVIOUS
  <2>4. r = Reduced("min", {lowerBounds[h][n] : n \in {c, d, e, f}}) BY <1>2, <1>3, <2>3
  <2>5. /\ r \in ValuesOf("min")
        /\ \A g \in Pixels(0) : NodeOver(h, g) \in {c, d, e, f} => IsBound("min", r, image[g])
    <3> "min" \in Reducers BY <1>5
    <3> QED BY <2>1, <2>2, <2>4, ReducedBounds
  <2> QED BY <1>2, <1>5, <2>1, <2>3, <2>5 DEF IsBound
<1>7. /\ UpperBound(a, b) \in Int
      /\ \A g \in Pixels(0) : NodeOver(h, g) \in N => ValueOrInit(UnknownUpper)[g] <= UpperBound(a, b)
  <2>1. PICK image : image = ValueOrInit(UnknownUpper) /\ image \in [Pixels(0) -> ValuesOf("max")] BY <1>4, <1>5
  <2>2. PyramidBound(upperBounds, "max", image) BY <2>1 DEF PyramidsAreBuilt
  <2>3. PICK r : r = UpperBound(a, b) OBVIOUS
  <2>4. r = Reduced("max", {upperBounds[h][n] : n \in {c, d, e, f}}) BY <1>2, <1>3, <2>3
  <2>5. /\ r \in ValuesOf("max")
        /\ \A g \in Pixels(0) : NodeOver(h, g) \in {c, d, e, f} => IsBound("max", r, image[g])
    <3> "max" \in Reducers BY <1>5
    <3> QED BY <2>1, <2>2, <2>4, ReducedBounds
  <2> QED BY <1>2, <1>5, <2>1, <2>3, <2>5 DEF IsBound
<1>8. \A g \in Pixels(0) : NodeOver(h, g) \in N => (IsUnobserved(rangeImage[g]) => HasUnobserved(a, b))
  <2>1. PICK mask : mask = [p \in Pixels(0) |-> IsUnobserved(rangeImage[p])] OBVIOUS
  <2>2. mask \in [Pixels(0) -> ValuesOf("or")]
    <3>1. \A p \in Pixels(0) : IsUnobserved(rangeImage[p]) \in BOOLEAN BY DEF IsUnobserved
    <3> QED BY <1>5, <2>1, <3>1
  <2>3. PyramidBound(unobservedMask, "or", mask) BY <2>1 DEF PyramidsAreBuilt
  <2>4. PICK r : r = Reduced("or", {unobservedMask[h][n] : n \in {c, d, e, f}}) OBVIOUS
  <2>5. \A g \in Pixels(0) : NodeOver(h, g) \in {c, d, e, f} => IsBound("or", r, mask[g])
    BY <1>5, <2>2, <2>3, <2>4, ReducedBounds
  <2>6. \A g \in Pixels(0) : NodeOver(h, g) \in N => (mask[g] => r) BY <1>2, <2>5 DEF IsBound
  <2>7. r => HasUnobserved(a, b) BY <1>2, <1>3, <2>4
  <2> QED BY <2>1, <2>6, <2>7
<1>9. \A g \in Pixels(0) : ~IsUnobserved(rangeImage[g]) =>
        ValueOrInit(UnknownLower)[g] = rangeImage[g] /\ ValueOrInit(UnknownUpper)[g] = rangeImage[g]
  BY DEF ValueOrInit
<1>10. \A g \in Pixels(0) : a[1] <= g[1] /\ g[1] <= b[1] /\ Between(g[2], a[2], b[2])
                             => NodeOver(h, g) \in N
  BY <1>1, <1>2
<1> QED BY <1>6, <1>7, <1>8, <1>9, <1>10


SeenBy(c) == {p \in Pixels(0) : \A i \in 1..2 : Between(p[i], c.min[i], c.max[i])}
LeavesImage(c, i, n) == IF c.min[i] <= c.max[i] THEN c.min[i] < 0 \/ c.max[i] >= n
                                                ELSE i = 1 \/ ~sensor.wraps

\* BoundsAreConservative, for any decision about any cell.
Conservative(type, c) ==
  /\ type = "fully_unobserved" =>
       /\ ~c.holds_sensor
       /\ \/ MaxRange < c.near \/ c.far < MinRange
          \/ \A p \in SeenBy(c) : IsUnobserved(rangeImage[p]) \/ rangeImage[p] < c.near - PaddingBehind
  /\ type = "free_or_unobserved" =>
       /\ ~c.holds_sensor
       /\ \A p \in SeenBy(c) : IsUnobserved(rangeImage[p]) \/ rangeImage[p] > c.far + PaddingInFront
  /\ type = "fully_free" =>
       /\ ~c.holds_sensor
       /\ \A p \in SeenBy(c) : ~IsUnobserved(rangeImage[p]) /\ rangeImage[p] > c.far + PaddingInFront
       /\ ~LeavesImage(c, 1, sensor.rows) /\ ~LeavesImage(c, 2, sensor.columns)

\* The decision, without a sensor in the cell and within the ranges.
IsInRange(c) == ~c.holds_sensor /\ ~(MaxRange < c.near) /\ ~(c.far < MinRange)

LEMMA DecisionIsConservative ==
  ASSUME sensor \in Sensors, rangeImage \in [Pixels(0) -> Nat], PyramidsAreBuilt,
         NEW c \in ProjectedCells(sensor), c.max[2] < c.min[2] => SeamIsExact
  PROVE  Conservative(DetermineUpdateType(c), c)
<1>1. PICK m \in Nat \ {0}, n \in Nat \ {0}, wraps \in BOOLEAN :
        m = sensor.rows /\ n = sensor.columns /\ wraps = sensor.wraps
  BY BoundsAssumption
<1>2. PICK i \in Int, j \in Int, k \in Int, l \in Int :
        /\ i = c.min[1] /\ j = c.min[2] /\ k = c.max[1] /\ l = c.max[2]
        /\ c.min = <<i, j>> /\ c.max = <<k, l>>
        /\ wraps => j \in 0..(n - 1) /\ l \in 0..(n - 1)
  <2>1. PICK Y : Y = IF wraps THEN 0..(n - 1) ELSE -1..(n + 1) OBVIOUS
  <2>2. c.min \in (-1..(m + 1)) \X Y /\ c.max \in (-1..(m + 1)) \X Y BY <1>1, <2>1 DEF ProjectedCells
  <2>3. PICK i \in -1..(m + 1), j \in Y, k \in -1..(m + 1), l \in Y : c.min = <<i, j>> /\ c.max = <<k, l>>
    BY <2>2
  <2>4. i \in Int /\ k \in Int OBVIOUS
  <2>5. j \in Int /\ l \in Int BY <2>1
  <2>6. wraps => j \in 0..(n - 1) /\ l \in 0..(n - 1) BY <2>1
  <2> QED BY <2>3, <2>4, <2>5, <2>6
<1>3. PICK near \in Int, far \in Int : near = c.near - PaddingBehind /\ far = c.far + PaddingInFront
  <2>1. c.near \in Int /\ c.far \in Int BY DEF ProjectedCells
  <2>2. PaddingBehind \in Nat /\ PaddingInFront \in Nat BY BoundsAssumption
  <2> QED BY <2>1, <2>2
<1>4. Pixels(0) = (0..(m - 1)) \X (0..(n - 1)) BY <1>1 DEF Pixels, Rows, Columns
<1>5. SeenBy(c) = {p \in Pixels(0) : Between(p[1], i, k) /\ Between(p[2], j, l)}
  <2>1. 1..2 = {1, 2} OBVIOUS
  <2> QED BY <1>2, <2>1 DEF SeenBy
<1>6. CASE c.holds_sensor
  <2>1. DetermineUpdateType(c) = "possibly_occupied" BY <1>6 DEF DetermineUpdateType
  <2> QED BY <2>1 DEF Conservative
<1>7. CASE ~c.holds_sensor /\ (MaxRange < c.near \/ c.far < MinRange)
  <2>1. DetermineUpdateType(c) = "fully_unobserved" BY <1>7 DEF DetermineUpdateType
  <2> QED BY <1>7, <2>1 DEF Conservative
<1>8. CASE IsInRange(c) /\ (k < i \/ (~wraps /\ l < j))
  <2>1. DetermineUpdateType(c) =
          IF (~(k < i) \/ (k < 0 /\ m < i)) /\ (wraps \/ ~(l < j) \/ (l < 0 /\ n < j))
          THEN "fully_unobserved" ELSE "possibly_occupied"
    BY <1>1, <1>2, <1>8 DEF DetermineUpdateType, IsInRange
  <2>2. CASE (~(k < i) \/ (k < 0 /\ m < i)) /\ (wraps \/ ~(l < j) \/ (l < 0 /\ n < j))
    <3>1. \A p \in Pixels(0) : ~(Between(p[1], i, k) /\ Between(p[2], j, l))
      BY <1>4, <1>8, <2>2 DEF Between
    <3>2. SeenBy(c) = {} BY <1>5, <3>1
    <3> QED BY <1>8, <2>1, <2>2, <3>2 DEF Conservative, IsInRange
  <2>3. CASE ~((~(k < i) \/ (k < 0 /\ m < i)) /\ (wraps \/ ~(l < j) \/ (l < 0 /\ n < j)))
    BY <2>1, <2>3 DEF Conservative
  <2> QED BY <2>2, <2>3
<1>9. CASE IsInRange(c) /\ ~(k < i \/ (~wraps /\ l < j)) /\ (k < 0 \/ l < 0 \/ m <= i \/ n <= j)
  <2>1. DetermineUpdateType(c) = "fully_unobserved" BY <1>1, <1>2, <1>9 DEF DetermineUpdateType, IsInRange
  <2>2. \A p \in Pixels(0) : ~(Between(p[1], i, k) /\ Between(p[2], j, l))
    BY <1>2, <1>4, <1>9 DEF Between
  <2>3. SeenBy(c) = {} BY <1>5, <2>2
  <2> QED BY <1>9, <2>1, <2>3 DEF Conservative, IsInRange
<1>10. CASE IsInRange(c) /\ ~(k < i \/ (~wraps /\ l < j)) /\ ~(k < 0 \/ l < 0 \/ m <= i \/ n <= j)
  <2>1. DetermineUpdateType(c) = GetUpdateType(c) BY <1>1, <1>2, <1>10 DEF DetermineUpdateType, IsInRange
  <2>2. PICK x \in 0..(m - 1), y \in 0..(n - 1), z \in 0..(m - 1), v \in 0..(n - 1) :
          x = Greater(i, 0) /\ y = Greater(j, 0) /\ z = Lesser(k, m - 1) /\ v = Lesser(l, n - 1)
    BY <1>10 DEF Greater, Lesser
  <2>3. x <= z /\ (y <= v \/ wraps) /\ (l < j => y = j /\ v = l) BY <1>2, <1>10, <2>2 DEF Greater, Lesser
  <2>4. PICK a \in Pixels(0), b \in Pixels(0) : a = <<x, y>> /\ b = <<z, v>> BY <1>4
  <2>5. \A p \in SeenBy(c) : p \in Pixels(0) /\ a[1] <= p[1] /\ p[1] <= b[1] /\ Between(p[2], a[2], b[2])
    <3> SUFFICES ASSUME NEW p \in Pixels(0), Between(p[1], i, k), Between(p[2], j, l)
                 PROVE  x <= p[1] /\ p[1] <= z /\ Between(p[2], y, v)
      BY <1>5, <2>4
    <3>1. p[1] \in 0..(m - 1) /\ p[2] \in 0..(n - 1) BY <1>4
    <3>0. PICK u \in 0..(m - 1), w \in 0..(n - 1) : u = p[1] /\ w = p[2] BY <3>1
    <3>2. x <= p[1] /\ p[1] <= z
      <4>1. i <= k BY <1>10
      <4>2. i <= u /\ u <= k BY <3>0, <4>1 DEF Between
      <4> QED BY <2>2, <3>0, <4>2 DEF Greater, Lesser
    <3>3. CASE l < j BY <2>3, <3>2, <3>3
    <3>4. CASE ~(l < j)
      <4>1. j <= w /\ w <= l BY <3>0, <3>4 DEF Between
      <4>2. y <= w /\ w <= v BY <2>2, <3>0, <4>1 DEF Greater, Lesser
      <4>3. Between(p[2], y, v) BY <3>0, <4>2 DEF Between
      <4> QED BY <3>2, <4>3
    <3> QED BY <3>3, <3>4
  <2>6. /\ LowerBound(a, b) \in Int /\ UpperBound(a, b) \in Int
        /\ \A g \in SeenBy(c) :
              /\ IsUnobserved(rangeImage[g]) => HasUnobserved(a, b)
              /\ ~IsUnobserved(rangeImage[g]) => /\ LowerBound(a, b) <= rangeImage[g]
                                                 /\ rangeImage[g] <= UpperBound(a, b)
    <3>1. a[1] <= b[1] /\ (a[2] <= b[2] \/ sensor.wraps) BY <1>1, <2>3, <2>4
    <3>2. a[2] <= b[2] \/ SeamIsExact
      <4>1. CASE l < j BY <1>2, <4>1
      <4>2. CASE ~(l < j)
        <5>1. y <= v BY <1>10, <2>2, <4>2 DEF Greater, Lesser
        <5> QED BY <2>4, <5>1
      <4> QED BY <4>1, <4>2
    <3> QED BY <2>5, <3>1, <3>2, IntervalBounds
  <2>7. PICK lower \in Int, upper \in Int : lower = LowerBound(a, b) /\ upper = UpperBound(a, b) BY <2>6
  <2>8. GetUpdateType(c) = IF upper < near THEN "fully_unobserved"
                           ELSE IF far >= lower THEN "possibly_occupied"
                           ELSE IF a # c.min \/ b # c.max \/ HasUnobserved(a, b) THEN "free_or_unobserved"
                           ELSE "fully_free"
    BY <1>1, <1>2, <1>3, <2>2, <2>4, <2>7 DEF GetUpdateType
  <2>9. \A p \in SeenBy(c) : rangeImage[p] \in Nat BY <2>5
  <2>10. CASE upper < near
    <3>1. GetUpdateType(c) = "fully_unobserved" BY <2>8, <2>10
    <3>2. \A p \in SeenBy(c) : IsUnobserved(rangeImage[p]) \/ rangeImage[p] < near
      BY <2>6, <2>7, <2>9, <2>10
    <3> QED BY <1>3, <1>10, <2>1, <3>1, <3>2 DEF Conservative, IsInRange
  <2>11. CASE ~(upper < near) /\ far >= lower
    <3>1. GetUpdateType(c) = "possibly_occupied" BY <2>8, <2>11
    <3> QED BY <2>1, <3>1 DEF Conservative
  <2>12. CASE ~(upper < near) /\ ~(far >= lower)
    <3>1. \A p \in SeenBy(c) : IsUnobserved(rangeImage[p]) \/ rangeImage[p] > far
      BY <2>6, <2>7, <2>9, <2>12
    <3>2. CASE a # c.min \/ b # c.max \/ HasUnobserved(a, b)
      <4>1. GetUpdateType(c) = "free_or_unobserved" BY <2>8, <2>12, <3>2
      <4> QED BY <1>3, <1>10, <2>1, <3>1, <4>1 DEF Conservative, IsInRange
    <3>3. CASE a = c.min /\ b = c.max /\ ~HasUnobserved(a, b)
      <4>1. GetUpdateType(c) = "fully_free" BY <2>8, <2>12, <3>3
      <4>2. \A p \in SeenBy(c) : ~IsUnobserved(rangeImage[p]) /\ rangeImage[p] > far
        BY <2>6, <3>1, <3>3
      <4>3. i = x /\ j = y /\ k = z /\ l = v BY <1>2, <2>4, <3>3
      <4>4. ~LeavesImage(c, 1, m) BY <1>2, <1>10, <4>3 DEF LeavesImage
      <4>5. ~LeavesImage(c, 2, n) BY <1>1, <1>2, <1>10, <4>3 DEF LeavesImage
      <4> QED BY <1>1, <1>3, <1>10, <2>1, <4>1, <4>2, <4>4, <4>5 DEF Conservative, IsInRange
    <3> QED BY <3>2, <3>3
  <2> QED BY <2>10, <2>11, <2>12
<1> QED BY <1>6, <1>7, <1>8, <1>9, <1>10 DEF IsInRange


BoundsInv ==
  /\ sensor \in Sensors
  /\ rangeImage \in [Pixels(0) -> Nat]
  /\ \/ lowerBounds = <<>> /\ updateType = "none"
     \/ PyramidsAreBuilt
  /\ (seenCell.max[2] < seenCell.min[2] => SeamIsExact) => Conservative(updateType, seenCell)

LEMMA BoundsInitInv == BoundsInit => BoundsInv
<1> SUFFICES ASSUME BoundsInit PROVE BoundsInv OBVIOUS
<1>1. sensor \in Sensors /\ rangeImage \in Images(sensor) BY DEF BoundsInit
<1>2. rangeImage \in [Pixels(0) -> Nat] BY <1>1, BoundsAssumption DEF Pixels, Rows, Columns
<1>3. Conservative(updateType, seenCell) BY DEF BoundsInit, Conservative
<1> QED BY <1>1, <1>2, <1>3 DEF BoundsInv, BoundsInit

LEMMA SensorStays ==
  ASSUME sensor' = sensor, rangeImage' = rangeImage
  PROVE  /\ (rangeImage \in [Pixels(0) -> Nat]) => (rangeImage \in [Pixels(0) -> Nat])'
         /\ Halvings' = Halvings
         /\ \A h : Pixels(h)' = Pixels(h)
         /\ \A h, q : NodeOver(h, q)' = NodeOver(h, q)
         /\ \A i : ValueOrInit(i)' = ValueOrInit(i)
         /\ SeamIsExact' = SeamIsExact
<1>1. ScaledRows' = ScaledRows /\ ScaledColumns' = ScaledColumns BY DEF ScaledRows, ScaledColumns
<1>2. Halvings' = Halvings BY <1>1 DEF Halvings
<1>3. \A h : Pixels(h)' = Pixels(h)
  BY <1>1 DEF Pixels, Rows, Columns
<1>4. \A h, q : NodeOver(h, q)' = NodeOver(h, q) BY DEF NodeOver
<1>5. \A i : ValueOrInit(i)' = ValueOrInit(i) BY <1>3 DEF ValueOrInit
<1>6. (rangeImage \in [Pixels(0) -> Nat]) => (rangeImage \in [Pixels(0) -> Nat])' BY <1>3
<1>7. SeamIsExact' = SeamIsExact BY DEF SeamIsExact
<1> QED BY <1>2, <1>3, <1>4, <1>5, <1>6, <1>7

LEMMA BoundsStepInv == BoundsInv /\ [BoundsNext]_boundsVars => BoundsInv'
<1> SUFFICES ASSUME BoundsInv, [BoundsNext]_boundsVars PROVE BoundsInv' OBVIOUS
<1>0. sensor' = sensor /\ rangeImage' = rangeImage
  BY DEF BoundsNext, Construct, Determine, boundsVars
<1>1. CASE Construct
  <2>1. seenCell' = seenCell /\ updateType' = updateType BY <1>1 DEF Construct
  <2>2. PyramidsAreBuilt'
    <3>1. /\ PyramidBound(lowerBounds', "min", ValueOrInit(UnknownLower))
          /\ PyramidBound(upperBounds', "max", ValueOrInit(UnknownUpper))
          /\ PyramidBound(unobservedMask', "or", [p \in Pixels(0) |-> IsUnobserved(rangeImage[p])])
      <4>1. ValueOrInit(UnknownLower) \in [Pixels(0) -> ValuesOf("min")]
            /\ ValueOrInit(UnknownUpper) \in [Pixels(0) -> ValuesOf("max")]
        BY DEF BoundsInv, ValueOrInit, ValuesOf, UnknownLower, UnknownUpper
      <4>2. [p \in Pixels(0) |-> IsUnobserved(rangeImage[p])] \in [Pixels(0) -> ValuesOf("or")]
        BY DEF ValuesOf, IsUnobserved
      <4>3. /\ "min" \in Reducers /\ "max" \in Reducers /\ "or" \in Reducers /\ sensor \in Sensors
            /\ UnknownLower \in ValuesOf("min") /\ UnknownUpper \in ValuesOf("max")
            /\ TRUE \in ValuesOf("or")
        BY DEF Reducers, ValuesOf, UnknownLower, UnknownUpper, BoundsInv
      <4>4. PyramidBound(lowerBounds', "min", ValueOrInit(UnknownLower))
        BY <1>1, <4>1, <4>3, PyramidBounds DEF PyramidBound, Construct
      <4>5. PyramidBound(upperBounds', "max", ValueOrInit(UnknownUpper))
        BY <1>1, <4>1, <4>3, PyramidBounds DEF PyramidBound, Construct
      <4>6. PyramidBound(unobservedMask', "or", [p \in Pixels(0) |-> IsUnobserved(rangeImage[p])])
        BY <1>1, <4>2, <4>3, PyramidBounds DEF PyramidBound, Construct
      <4> QED BY <4>4, <4>5, <4>6
    <3> QED BY <1>0, <3>1, SensorStays DEF PyramidsAreBuilt, PyramidBound
  <2>3. ((seenCell.max[2] < seenCell.min[2] => SeamIsExact) => Conservative(updateType, seenCell))'
    BY <1>0, <2>1, SensorStays DEF BoundsInv, Conservative, SeenBy, LeavesImage
  <2> QED BY <1>0, <2>2, <2>3, SensorStays DEF BoundsInv
<1>2. CASE Determine
  <2>1. lowerBounds' = lowerBounds /\ upperBounds' = upperBounds /\ unobservedMask' = unobservedMask
    BY <1>2 DEF Determine
  <2>2. PICK c \in ProjectedCells(sensor) : seenCell' = c /\ updateType' = DetermineUpdateType(c)
    BY <1>2, BoundsAssumption DEF Determine, BoundsInv
  <2>3. PyramidsAreBuilt BY <1>2 DEF Determine, BoundsInv
  <2>4. (c.max[2] < c.min[2] => SeamIsExact) => Conservative(DetermineUpdateType(c), c)
    BY <2>3, DecisionIsConservative DEF BoundsInv
  <2>5. ((seenCell.max[2] < seenCell.min[2] => SeamIsExact) => Conservative(updateType, seenCell))'
    BY <1>0, <2>2, <2>4, SensorStays DEF Conservative, SeenBy, LeavesImage
  <2>6. PyramidsAreBuilt'
    BY <1>0, <2>1, <2>3, SensorStays DEF PyramidsAreBuilt, PyramidBound
  <2> QED BY <1>0, <2>5, <2>6, SensorStays DEF BoundsInv
<1>3. CASE UNCHANGED boundsVars
  <2>1. ((seenCell.max[2] < seenCell.min[2] => SeamIsExact) => Conservative(updateType, seenCell))'
    BY <1>0, <1>3, SensorStays DEF BoundsInv, boundsVars, Conservative, SeenBy, LeavesImage
  <2>2. PyramidsAreBuilt => PyramidsAreBuilt'
    BY <1>0, <1>3, SensorStays DEF boundsVars, PyramidsAreBuilt, PyramidBound
  <2> QED BY <1>0, <1>3, <2>1, <2>2, SensorStays DEF BoundsInv, boundsVars
<1> QED BY <1>1, <1>2, <1>3 DEF BoundsNext

(***************************************************************************)
(* Whatever the size and scale of the range image, with a seam or without, *)
(* and whatever interval of pixels and of distances a cell is taken to be  *)
(* seen in, it is skipped or updated as a whole only if it does not hold   *)
(* the sensor and no pixel of the interval measures a surface inside it or *)
(* in the padding around it, or if it is out of range altogether.  Only    *)
(* the cells across the seam of an image whose columns are not a power of  *)
(* two are excepted, which the constructor does not refuse.                *)
(***************************************************************************)
THEOREM BoundsStayConservative == BoundsSpec => []BoundsAreConservative
<1>1. BoundsInv => BoundsAreConservative
  BY DEF BoundsInv, BoundsAreConservative, Conservative, SeenBy, LeavesImage, PixelsSeen, OutOfImage,
         OutOfRange, NothingAt, InFrontOf, Beyond
<1> QED BY <1>1, BoundsInitInv, BoundsStepInv, PTL DEF BoundsSpec

-----------------------------------------------------------------------------
(* Distance fields                                                         *)

\* Roots exist, of all sums of squares that occur.
LEMMA RootIs ==
  ASSUME NEW n \in Nat, n <= FieldSpan * FieldSpan
  PROVE  SqrtOf[n] \in Nat /\ (n > 0 => SqrtOf[n] > 0)
<1>1. PICK m \in Nat : m = FieldSpan BY FieldAssumption DEF FieldSpan
<1>2. m * m \in Nat /\ n \in 0..m * m BY <1>1
<1> DEFINE S == {k \in Nat : 2500 * n < (k + 1) * (k + 1)}
<1>3. 50 * m \in S
  <2>1. PICK q \in Nat : q = m * m BY <1>2
  <2>2. (50 * m + 1) * (50 * m + 1) = 2500 * (m * m) + 100 * m + 1 OBVIOUS
  <2>3. 2500 * n <= 2500 * q BY <1>2, <2>1
  <2>4. 2500 * n < 2500 * q + 100 * m + 1 BY <2>1, <2>3
  <2>5. 2500 * n < (50 * m + 1) * (50 * m + 1) BY <2>1, <2>2, <2>4
  <2> QED BY <2>5
<1>4. PICK r \in Nat : r \in S /\ \A k \in S : r <= k
  <2>1. S \in SUBSET Nat /\ S # {} BY <1>3
  <2> HIDE DEF S
  <2>2. Min(S) \in S /\ \A k \in S : Min(S) <= k BY <2>1, LeastNumber
  <2> QED BY <2>1, <2>2
<1>5. r \in 0..50 * m BY <1>3, <1>4
<1>6. 2500 * n < (r + 1) * (r + 1) BY <1>4
<1>7. r * r <= 2500 * n
  <2>1. CASE r = 0
    <3>1. r * r = 0 BY <2>1
    <3> QED BY <3>1
  <2>2. CASE r # 0
    <3>1. PICK k \in Nat : k = r - 1 BY <2>2
    <3>2. k \notin S BY <1>4, <3>1
    <3>3. ~(2500 * n < (k + 1) * (k + 1)) BY <3>2
    <3>4. PICK p \in Nat : p = (k + 1) * (k + 1) OBVIOUS
    <3>5. p <= 2500 * n BY <3>3, <3>4
    <3>6. p = r * r BY <3>1, <3>4
    <3> QED BY <3>5, <3>6
  <2> QED BY <2>1, <2>2
<1> HIDE DEF S
<1>8. PICK s : s = SqrtOf[n] OBVIOUS
<1> DEFINE IsRoot(k) == k * k <= 2500 * n /\ 2500 * n < (k + 1) * (k + 1)
<1>9. s \in 0..50 * m /\ IsRoot(s)
  <2>1. n \in 0..FieldSpan * FieldSpan BY <1>1, <1>2
  <2>2. SqrtOf[n] = CHOOSE k \in 0..50 * FieldSpan : IsRoot(k) BY <2>1, Zenon DEF SqrtOf
  <2>3. s = CHOOSE k \in 0..50 * m : IsRoot(k) BY <1>1, <1>8, <2>2
  <2>4. IsRoot(r) BY <1>6, <1>7
  <2> HIDE DEF IsRoot
  <2> QED BY <1>5, <2>3, <2>4
<1>10. n > 0 => s > 0
  <2>1. s = 0 => (s + 1) * (s + 1) = 1 OBVIOUS
  <2> QED BY <1>9, <2>1
<1> QED BY <1>8, <1>9, <1>10

\* Squares of small numbers.
LEMMA SquaresFit ==
  ASSUME NEW a \in 0..2 * Width, NEW b \in 0..2 * Depth
  PROVE  a * a + b * b \in Nat /\ a * a + b * b <= FieldSpan * FieldSpan
         /\ (a > 0 \/ b > 0 => a * a + b * b > 0)
<1>1. PICK v \in Nat, w \in Nat : v = 2 * Width /\ w = 2 * Depth BY FieldAssumption
<1>2. FieldSpan = v + w BY <1>1, FieldAssumption DEF FieldSpan
<1>3. (v + w) * (v + w) = v * v + w * w + 2 * (v * w) OBVIOUS
<1>4. a \in 0..v /\ b \in 0..w BY <1>1
<1>5. a * a <= v * v
  <2>1. a * a <= a * v BY <1>4
  <2>2. a * v <= v * v BY <1>4
  <2> QED BY <1>4, <2>1, <2>2
<1>6. b * b <= w * w
  <2>1. b * b <= b * w BY <1>4
  <2>2. b * w <= w * w BY <1>4
  <2> QED BY <1>4, <2>1, <2>2
<1>7. v * w >= 0 OBVIOUS
<1>8. a * a \in Nat /\ b * b \in Nat /\ (a > 0 => a * a > 0) /\ (b > 0 => b * b > 0) BY <1>4
<1>9. PICK p, q, x, y, z \in Int : p = a * a /\ q = b * b /\ x = v * v /\ y = w * w /\ z = v * w
  BY <1>4
<1> QED BY <1>2, <1>3, <1>5, <1>6, <1>7, <1>8, <1>9

\* Distances of two cells of the layer.
LEMMA LengthsAre ==
  ASSUME NEW c \in Voxel, NEW o \in Voxel
  PROVE  /\ HalfLength(c, o) \in Nat /\ MinDistanceTo(c, o) \in Nat
         /\ c # o => HalfLength(c, o) > 0 /\ MinDistanceTo(c, o) > 0
         /\ HalfLength(c, o) = HalfLength(o, c)
<1>1. /\ c[1] \in 1..Width /\ c[2] \in 1..Depth /\ o[1] \in 1..Width /\ o[2] \in 1..Depth
      /\ c = <<c[1], c[2]>> /\ o = <<o[1], o[2]>> /\ Width \in Nat /\ Depth \in Nat
  BY FieldAssumption DEF Voxel
<1>2. PICK a \in 0..Width : a = IF c[1] > o[1] THEN c[1] - o[1] ELSE o[1] - c[1] BY <1>1
<1>3. PICK b \in 0..Depth : b = IF c[2] > o[2] THEN c[2] - o[2] ELSE o[2] - c[2] BY <1>1
<1>4. Distance(c, o) = <<a, b>> BY <1>2, <1>3 DEF Distance
<1>5. Distance(o, c) = <<a, b>>
  <2>1. a = IF o[1] > c[1] THEN o[1] - c[1] ELSE c[1] - o[1] BY <1>1, <1>2
  <2>2. b = IF o[2] > c[2] THEN o[2] - c[2] ELSE c[2] - o[2] BY <1>1, <1>3
  <2> QED BY <2>1, <2>2 DEF Distance
<1>6. c # o => a > 0 \/ b > 0 BY <1>1, <1>2, <1>3
<1>7. PICK e \in 0..2 * Width : e = IF a = 0 THEN 0 ELSE 2 * a - 1 BY <1>1
<1>8. PICK f \in 0..2 * Depth : f = IF b = 0 THEN 0 ELSE 2 * b - 1 BY <1>1
<1>9. HalfLength(c, o) = SqrtOf[a * a + b * b] BY <1>4 DEF HalfLength
<1>10. HalfLength(o, c) = SqrtOf[a * a + b * b] BY <1>5 DEF HalfLength
<1>11. MinDistanceTo(c, o) = SqrtOf[e * e + f * f] BY <1>4, <1>7, <1>8 DEF MinDistanceTo
<1>12. a \in 0..2 * Width /\ b \in 0..2 * Depth BY <1>1
<1>13. PICK s : s = a * a + b * b OBVIOUS
<1>14. s \in Nat /\ s <= FieldSpan * FieldSpan /\ (a > 0 \/ b > 0 => s > 0)
  BY <1>12, <1>13, SquaresFit
<1>15. PICK t : t = e * e + f * f OBVIOUS
<1>16. t \in Nat /\ t <= FieldSpan * FieldSpan /\ (e > 0 \/ f > 0 => t > 0)
  BY <1>15, SquaresFit
<1>17. a > 0 \/ b > 0 => e > 0 \/ f > 0 BY <1>7, <1>8
<1>18. SqrtOf[s] \in Nat /\ (s > 0 => SqrtOf[s] > 0) BY <1>14, RootIs
<1>19. SqrtOf[t] \in Nat /\ (t > 0 => SqrtOf[t] > 0) BY <1>16, RootIs
<1> QED BY <1>6, <1>9, <1>10, <1>11, <1>13, <1>14, <1>15, <1>16, <1>17, <1>18, <1>19

\* Neighbours are mutual.
LEMMA NeighborIs ==
  ASSUME NEW c \in Voxel, NEW i \in 1..8
  PROVE  Neighbor(c, i) # c /\ 9 - i \in 1..8 /\ Neighbor(Neighbor(c, i), 9 - i) = c
<1>1. c[1] \in Int /\ c[2] \in Int /\ c = <<c[1], c[2]>> BY FieldAssumption DEF Voxel
<1>2. /\ Offsets[i][1] \in Int /\ Offsets[i][2] \in Int
      /\ Offsets[i][1] # 0 \/ Offsets[i][2] # 0
      /\ Offsets[9 - i][1] = -Offsets[i][1] /\ Offsets[9 - i][2] = -Offsets[i][2]
  <2>1. i = 1 \/ i = 2 \/ i = 3 \/ i = 4 \/ i = 5 \/ i = 6 \/ i = 7 \/ i = 8 OBVIOUS
  <2> QED BY <2>1 DEF Offsets
<1>3. PICK a \in Int, b \in Int : a = Offsets[i][1] /\ b = Offsets[i][2] BY <1>2
<1>4. Neighbor(c, i) = <<c[1] + a, c[2] + b>> BY <1>3 DEF Neighbor
<1>5. Neighbor(c, i) # c BY <1>1, <1>2, <1>3, <1>4
<1>6. Neighbor(Neighbor(c, i), 9 - i) = <<(c[1] + a) + (-a), (c[2] + b) + (-b)>>
  BY <1>2, <1>3, <1>4 DEF Neighbor
<1>7. (c[1] + a) + (-a) = c[1] /\ (c[2] + b) + (-b) = c[2] BY <1>1
<1> QED BY <1>1, <1>5, <1>6, <1>7

\* Each key has a bucket.
LEMMA BucketIs ==
  /\ NumBuckets \in Nat \ {0}
  /\ \A key \in Nat : BucketOf(key) \in 1..NumBuckets
<1>1. PICK m \in Nat \ {0} : m = MaxDistance BY FieldAssumption
<1>2. NumBuckets \in Nat \ {0} BY <1>1 DEF NumBuckets
<1>3. ASSUME NEW key \in Nat PROVE BucketOf(key) \in 1..NumBuckets
  <2>1. PICK n \in Nat \ {0} : n = NumBuckets BY <1>2
  <2>2. PICK p \in Nat : p = key * (n - 1) BY <2>1
  <2>3. p \div m \in Int /\ 0 <= p \div m BY QuotientsKeepOrder
  <2> QED BY <1>1, <2>1, <2>2, <2>3 DEF BucketOf
<1> QED BY <1>2, <1>3

\* What the inner loops work on.
Works == [field : [Voxel -> Int], parent : [Voxel -> Voxel \cup {Outside}],
          open : [1..NumBuckets -> Seq(Voxel)], last : 1..NumBuckets]

SceneSound == /\ scene \in [Voxel -> {"free", "occupied", "unobserved"}]
              /\ generator \in {"quasi", "full"}

\* The sign of a cell is that of its occupancy, and its distance that of its parent.
CellSound(w, c) ==
  /\ scene[c] = "unobserved" => w.field[c] = MaxDistance /\ w.parent[c] = Outside
  /\ scene[c] = "free" => w.field[c] \in 0..MaxDistance
  /\ scene[c] = "occupied" => \/ w.field[c] = MaxDistance /\ w.parent[c] = Outside
                              \/ w.field[c] \in -MaxDistance..-1
  /\ generator = "full" =>
       \/ w.parent[c] = Outside /\ w.field[c] \in {MaxDistance, -MaxDistance}
       \/ w.parent[c] \in Opposite(c) /\ Abs(w.field[c]) = MinDistanceTo(c, w.parent[c])

ReachedCell(w, c) == scene[c] = "free" \/ (scene[c] = "occupied" /\ w.field[c] < 0)

QueueSound(w) ==
  /\ \A b \in 1..NumBuckets : \A i \in 1..Len(w.open[b]) : ReachedCell(w, w.open[b][i])
  /\ \A b \in 1..w.last - 1 : w.open[b] = <<>>

WorkSound(w) == /\ SceneSound /\ w \in Works
                /\ \A c \in Voxel : CellSound(w, c)
                /\ QueueSound(w)

\* Distances of free cells never grow.
NoFarther(w, u) == \A c \in Voxel : scene[c] = "free" => u.field[c] <= w.field[c]

\* An update of a cell writes only that cell.
LEMMA UpdateIs ==
  ASSUME NEW w \in Works, NEW c \in Voxel, NEW v \in Int, NEW p \in Voxel \cup {Outside}
  PROVE  LET u == Updated(w, c, v, p) IN
         /\ u \in Works /\ u.open = w.open /\ u.last = w.last
         /\ u.field[c] = v /\ u.parent[c] = p
         /\ \A o \in Voxel \ {c} : u.field[o] = w.field[o] /\ u.parent[o] = w.parent[o]
<1>1. /\ w.field \in [Voxel -> Int] /\ w.parent \in [Voxel -> Voxel \cup {Outside}]
      /\ w.open \in [1..NumBuckets -> Seq(Voxel)] /\ w.last \in 1..NumBuckets
  BY DEF Works
<1>2. /\ [w.field EXCEPT ![c] = v] \in [Voxel -> Int]
      /\ [w.parent EXCEPT ![c] = p] \in [Voxel -> Voxel \cup {Outside}]
  BY <1>1
<1> QED BY <1>1, <1>2 DEF Updated, Works

\* A cell that is updated soundly keeps all else sound.
LEMMA UpdateSound ==
  ASSUME NEW w, WorkSound(w), NEW c \in Voxel, NEW v \in Int, NEW p \in Voxel \cup {Outside},
         NEW u, u = Updated(w, c, v, p), CellSound(u, c),
         ReachedCell(w, c) => ReachedCell(u, c),
         scene[c] = "free" => v <= w.field[c]
  PROVE  WorkSound(u) /\ NoFarther(w, u)
<1>1. SceneSound /\ w \in Works /\ QueueSound(w) /\ \A o \in Voxel : CellSound(w, o)
  BY DEF WorkSound
<1>2. /\ u \in Works /\ u.open = w.open /\ u.last = w.last
      /\ u.field[c] = v /\ u.parent[c] = p
      /\ \A o \in Voxel \ {c} : u.field[o] = w.field[o] /\ u.parent[o] = w.parent[o]
  BY <1>1, UpdateIs
<1>3. ASSUME NEW o \in Voxel PROVE CellSound(u, o)
  <2>1. CASE o = c BY <2>1
  <2>2. CASE o # c BY <1>1, <1>2, <2>2 DEF CellSound
  <2> QED BY <2>1, <2>2
<1>4. QueueSound(u)
  <2>1. ASSUME NEW b \in 1..NumBuckets, NEW i \in 1..Len(u.open[b])
        PROVE  ReachedCell(u, u.open[b][i])
    <3>1. PICK o : o = w.open[b][i] OBVIOUS
    <3>2. o \in Voxel /\ ReachedCell(w, o)
      <4>1. w.open[b] \in Seq(Voxel) BY <1>1 DEF Works
      <4> QED BY <1>1, <1>2, <3>1, <4>1 DEF QueueSound
    <3>3. ReachedCell(u, o)
      <4>1. CASE o = c BY <3>2, <4>1
      <4>2. CASE o # c BY <1>2, <3>2, <4>2 DEF ReachedCell
      <4> QED BY <4>1, <4>2
    <3> QED BY <1>2, <3>1, <3>3
  <2>2. \A b \in 1..u.last - 1 : u.open[b] = <<>> BY <1>1, <1>2 DEF QueueSound
  <2> QED BY <2>1, <2>2 DEF QueueSound
<1>5. NoFarther(w, u)
  <2>1. w.field \in [Voxel -> Int] BY <1>1 DEF Works
  <2> QED BY <1>2, <2>1 DEF NoFarther
<1> QED BY <1>1, <1>2, <1>3, <1>4, <1>5 DEF WorkSound

\* Any reached cell can be pushed.
LEMMA PushSound ==
  ASSUME NEW w, WorkSound(w), NEW c \in Voxel, ReachedCell(w, c), NEW key \in Nat,
         NEW u, u = Push(w, key, c)
  PROVE  WorkSound(u) /\ u.field = w.field /\ u.parent = w.parent
<1>1. SceneSound /\ w \in Works /\ QueueSound(w) /\ \A o \in Voxel : CellSound(w, o)
  BY DEF WorkSound
<1>2. /\ w.field \in [Voxel -> Int] /\ w.parent \in [Voxel -> Voxel \cup {Outside}]
      /\ w.open \in [1..NumBuckets -> Seq(Voxel)] /\ w.last \in 1..NumBuckets
      /\ w = [field |-> w.field, parent |-> w.parent, open |-> w.open, last |-> w.last]
  BY <1>1 DEF Works
<1>3. PICK b \in 1..NumBuckets : b = BucketOf(key) BY BucketIs
<1>4. PICK e : e = IF b < w.last THEN b ELSE w.last OBVIOUS
<1>5. PICK open2 : open2 = [w.open EXCEPT ![b] = Append(w.open[b], c)] OBVIOUS
<1>6. u = [field |-> w.field, parent |-> w.parent, open |-> open2, last |-> e]
  BY <1>2, <1>3, <1>4, <1>5 DEF Push
<1>7. e \in 1..NumBuckets /\ e <= b /\ e <= w.last BY <1>2, <1>4, BucketIs
<1>8. w.open[b] \in Seq(Voxel) /\ Append(w.open[b], c) \in Seq(Voxel)
  <2>1. PICK s \in Seq(Voxel) : s = w.open[b] BY <1>2
  <2>2. Append(s, c) \in Seq(Voxel) BY AppendProperties
  <2> QED BY <2>1, <2>2
<1>9. open2 \in [1..NumBuckets -> Seq(Voxel)] BY <1>2, <1>5, <1>8
<1>10. u \in Works /\ u.field = w.field /\ u.parent = w.parent /\ u.open = open2 /\ u.last = e
  BY <1>2, <1>6, <1>7, <1>9 DEF Works
<1>11. \A o \in Voxel : CellSound(u, o) BY <1>1, <1>10 DEF CellSound
<1>12. \A o : ReachedCell(w, o) => ReachedCell(u, o) BY <1>10 DEF ReachedCell
<1>13. QueueSound(u)
  <2>1. ASSUME NEW d \in 1..NumBuckets, NEW i \in 1..Len(open2[d])
        PROVE  ReachedCell(w, open2[d][i])
    <3>1. CASE d # b
      <4>1. open2[d] = w.open[d] BY <1>2, <1>5, <3>1
      <4> QED BY <1>1, <4>1 DEF QueueSound
    <3>2. CASE d = b
      <4>1. open2[d] = Append(w.open[b], c) BY <1>2, <1>5, <3>2
      <4>2. \/ i = Len(w.open[b]) + 1 /\ open2[d][i] = c
            \/ i \in 1..Len(w.open[b]) /\ open2[d][i] = w.open[b][i]
        BY <1>8, <4>1
      <4> QED BY <1>1, <4>2 DEF QueueSound
    <3> QED BY <3>1, <3>2
  <2>2. ASSUME NEW d \in 1..e - 1 PROVE open2[d] = <<>>
    <3>1. PICK n \in Nat : n = NumBuckets BY BucketIs
    <3>2. d \in 1..w.last - 1 /\ d # b /\ d \in 1..NumBuckets BY <1>2, <1>7, <3>1
    <3> QED BY <1>1, <1>2, <1>5, <3>2 DEF QueueSound
  <2> QED BY <1>10, <1>12, <2>1, <2>2 DEF QueueSound
<1> QED BY <1>1, <1>10, <1>11, <1>13 DEF WorkSound

\* What the soundness of the inner loops' data gives.
LEMMA SoundIs ==
  ASSUME NEW w, WorkSound(w)
  PROVE  /\ SceneSound /\ w \in Works /\ MaxDistance \in Nat \ {0}
         /\ w.field \in [Voxel -> Int] /\ w.parent \in [Voxel -> Voxel \cup {Outside}]
         /\ w = [field |-> w.field, parent |-> w.parent, open |-> w.open, last |-> w.last]
         /\ \A c \in Voxel : CellSound(w, c)
         /\ Outside \notin Voxel
<1>1. Outside \notin Voxel BY DEF Outside, Voxel
<1> QED BY <1>1, FieldAssumption DEF WorkSound, Works

\* A visit of a neighbour of an obstacle.
LEMMA SeedStep ==
  ASSUME NEW w, WorkSound(w), NEW o \in Voxel, scene[o] = "occupied", NEW n,
         NEW u, u = SeedVoxel(w, o, n)
  PROVE  /\ WorkSound(u) /\ NoFarther(w, u)
         /\ n \in Voxel /\ scene[n] = "free" => u.field[n] <= ToSurface(n, o)
<1>1. /\ SceneSound /\ w \in Works /\ MaxDistance \in Nat \ {0}
      /\ w.field \in [Voxel -> Int] /\ w.parent \in [Voxel -> Voxel \cup {Outside}]
      /\ w = [field |-> w.field, parent |-> w.parent, open |-> w.open, last |-> w.last]
      /\ \A c \in Voxel : CellSound(w, c)
  BY SoundIs
<1>2. CASE n \notin Voxel \/ scene[n] # "free"
  <2>1. u = w BY <1>2 DEF SeedVoxel
  <2>2. NoFarther(w, w) BY <1>1 DEF NoFarther
  <2> QED BY <1>2, <2>1, <2>2
<1>3. CASE n \in Voxel /\ scene[n] = "free"
  <2>1. PICK d : d = ToSurface(n, o) OBVIOUS
  <2>2. d \in Nat BY <1>3, <2>1, LengthsAre DEF ToSurface
  <2>3. PICK z : z = IF d < w.field[n] THEN Updated(w, n, d, o) ELSE w OBVIOUS
  <2>4. u = IF Fresh(w, n) THEN Push(z, d, n) ELSE z BY <1>3, <2>1, <2>3 DEF SeedVoxel
  <2>5. w.field[n] \in 0..MaxDistance BY <1>1, <1>3 DEF CellSound
  <2>6. WorkSound(z) /\ NoFarther(w, z) /\ z.field[n] <= d
    <3>1. CASE d < w.field[n]
      <4>1. z = Updated(w, n, d, o) /\ d \in Int /\ o \in Voxel \cup {Outside} BY <2>2, <2>3, <3>1
      <4>2. z.field[n] = d /\ z.parent[n] = o
        <5>1. PICK p \in Voxel \cup {Outside} : p = o BY <4>1
        <5>2. z = Updated(w, n, d, p) /\ w \in Works /\ n \in Voxel BY <1>1, <1>3, <4>1, <5>1
        <5>3. z.field[n] = d /\ z.parent[n] = p BY <4>1, <5>2, UpdateIs, SMTT(30)
        <5> QED BY <5>1, <5>3
      <4>3. CellSound(z, n)
        <5>1. d \in 0..MaxDistance BY <1>1, <2>2, <2>5, <3>1
        <5>2. generator = "full" => d = MinDistanceTo(n, o) BY <1>1, <2>1 DEF ToSurface
        <5>3. o \in Opposite(n) BY <1>3 DEF Opposite
        <5>4. Abs(d) = d BY <2>2 DEF Abs
        <5> QED BY <1>3, <4>2, <5>1, <5>2, <5>3, <5>4 DEF CellSound
      <4>4. ReachedCell(z, n) BY <1>3 DEF ReachedCell
      <4>5. d <= w.field[n] /\ d <= d BY <2>2, <2>5, <3>1
      <4>6. WorkSound(z) /\ NoFarther(w, z) BY <1>3, <4>1, <4>3, <4>4, <4>5, UpdateSound
      <4> QED BY <4>2, <4>5, <4>6
    <3>2. CASE ~(d < w.field[n])
      <4>1. z = w /\ z.field[n] <= d BY <2>2, <2>3, <2>5, <3>2
      <4>2. NoFarther(w, w) BY <1>1 DEF NoFarther
      <4> QED BY <4>1, <4>2
    <3> QED BY <3>1, <3>2
  <2>7. ReachedCell(z, n) BY <1>3 DEF ReachedCell
  <2>8. CASE Fresh(w, n)
    <3>1. u = Push(z, d, n) BY <2>4, <2>8
    <3>2. WorkSound(u) /\ u.field = z.field BY <1>3, <2>2, <2>6, <2>7, <3>1, PushSound
    <3>3. NoFarther(w, u) BY <2>6, <3>2 DEF NoFarther
    <3> QED BY <2>1, <2>6, <3>2, <3>3
  <2>9. CASE ~Fresh(w, n) BY <2>1, <2>4, <2>6, <2>9
  <2> QED BY <2>8, <2>9
<1> QED BY <1>2, <1>3

\* Free cells around obstacles are as close as a seed.
BorderSeeded(w, o) ==
  \A i \in 1..8 : Neighbor(o, i) \in Voxel /\ scene[Neighbor(o, i)] = "free"
                    => w.field[Neighbor(o, i)] <= ToSurface(Neighbor(o, i), o)

\* Seeded borders stay seeded.
LEMMA BorderStays ==
  ASSUME NEW w \in Works, NEW u \in Works, NoFarther(w, u), NEW o \in Voxel, BorderSeeded(w, o)
  PROVE  BorderSeeded(u, o)
<1>1. w.field \in [Voxel -> Int] /\ u.field \in [Voxel -> Int] BY DEF Works
<1>2. ASSUME NEW i \in 1..8, Neighbor(o, i) \in Voxel, scene[Neighbor(o, i)] = "free"
      PROVE  u.field[Neighbor(o, i)] <= ToSurface(Neighbor(o, i), o)
  <2>1. PICK n \in Voxel : n = Neighbor(o, i) BY <1>2
  <2>2. ToSurface(n, o) \in Int BY LengthsAre DEF ToSurface
  <2>3. w.field[n] <= ToSurface(n, o) BY <1>2, <2>1 DEF BorderSeeded
  <2>4. u.field[n] <= w.field[n] BY <1>2, <2>1 DEF NoFarther
  <2>5. u.field[n] \in Int /\ w.field[n] \in Int BY <1>1
  <2> QED BY <2>1, <2>2, <2>3, <2>4, <2>5
<1> QED BY <1>2 DEF BorderSeeded

\* Distances that do not grow twice do not grow.
LEMMA NoFartherYet ==
  ASSUME NEW w \in Works, NEW u \in Works, NEW z \in Works, NoFarther(w, u), NoFarther(u, z)
  PROVE  NoFarther(w, z)
<1>1. w.field \in [Voxel -> Int] /\ u.field \in [Voxel -> Int] /\ z.field \in [Voxel -> Int]
  BY DEF Works
<1>2. ASSUME NEW c \in Voxel, scene[c] = "free" PROVE z.field[c] <= w.field[c]
  <2>1. u.field[c] <= w.field[c] /\ z.field[c] <= u.field[c] BY <1>2 DEF NoFarther
  <2>2. w.field[c] \in Int /\ u.field[c] \in Int /\ z.field[c] \in Int BY <1>1
  <2> QED BY <2>1, <2>2
<1> QED BY <1>2 DEF NoFarther

\* The sign that a neighbour is taken to have is the one it has in the scene.
NegativeAt(w, n) == IF Fresh(w, n) THEN scene[n] = "occupied" ELSE w.field[n] < 0

\* The sign of a neighbour, read from its value or from the map.
LEMMA SignIs ==
  ASSUME NEW w, WorkSound(w), NEW n \in Voxel, ~(Fresh(w, n) /\ scene[n] = "unobserved")
  PROVE  /\ scene[n] \in {"free", "occupied"} /\ (NegativeAt(w, n) <=> scene[n] = "occupied")
         /\ Abs(w.field[n]) \in 0..MaxDistance
         /\ scene[n] = "occupied" => Abs(w.field[n]) > 0
         /\ scene[n] = "free" => w.field[n] \in 0..MaxDistance /\ Abs(w.field[n]) = w.field[n]
<1>1. /\ SceneSound /\ MaxDistance \in Nat \ {0} /\ w.field \in [Voxel -> Int] /\ CellSound(w, n)
  BY SoundIs
<1>2. PICK v \in Int : v = w.field[n] BY <1>1
<1>3. scene[n] \in {"free", "occupied", "unobserved"} /\ generator \in {"quasi", "full"}
  BY <1>1 DEF SceneSound
<1>4. scene[n] # "unobserved" BY <1>1, <1>3 DEF CellSound, Fresh
<1>5. NegativeAt(w, n) <=> scene[n] = "occupied"
  <2>1. CASE Fresh(w, n) BY <2>1 DEF NegativeAt
  <2>2. CASE ~Fresh(w, n) /\ scene[n] = "free" BY <1>1, <1>2, <2>2 DEF NegativeAt, CellSound
  <2>3. CASE ~Fresh(w, n) /\ scene[n] = "occupied"
    <3>1. ~(v = MaxDistance /\ w.parent[n] = Outside) BY <1>2, <1>3, <2>3 DEF Fresh
    <3>2. v \in -MaxDistance..-1 BY <1>1, <1>2, <2>3, <3>1 DEF CellSound
    <3> QED BY <1>2, <2>3, <3>2 DEF NegativeAt
  <2> QED BY <1>3, <1>4, <2>1, <2>2, <2>3
<1>6. scene[n] = "free" => v \in 0..MaxDistance BY <1>1, <1>2 DEF CellSound
<1>7. scene[n] = "occupied" => v = MaxDistance \/ v \in -MaxDistance..-1
  BY <1>1, <1>2 DEF CellSound
<1> QED BY <1>1, <1>2, <1>3, <1>4, <1>5, <1>6, <1>7 DEF Abs

\* From a cell on the wavefront to one of its neighbours.
OnTheWay(w, c, n) ==
  /\ WorkSound(w) /\ c \in Voxel /\ ReachedCell(w, c) /\ n \in Voxel
  /\ \A o \in Voxel : scene[o] = "occupied" => BorderSeeded(w, o)
  /\ \E i \in 1..8 : n = Neighbor(c, i)

Crossing(w, c, n) == scene[n] # scene[c]

\* Candidates are distances to cells on the other side of the surface.
LEMMA CandidateIs ==
  ASSUME NEW w, NEW c, NEW n, OnTheWay(w, c, n), scene[n] \in {"free", "occupied"},
         ~(generator = "full" /\ w.parent[c] = Outside),
         Crossing(w, c, n) => scene[n] = "occupied",
         NEW k, k = Candidate(w, c, n, Crossing(w, c, n)),
         NEW p, p = IF Crossing(w, c, n) THEN c ELSE w.parent[c]
  PROVE  /\ k \in Nat /\ k > 0 /\ p \in Voxel \cup {Outside}
         /\ generator = "full" => p \in Opposite(n) /\ k = MinDistanceTo(n, p)
<1>1. /\ WorkSound(w) /\ c \in Voxel /\ ReachedCell(w, c) /\ n \in Voxel
      /\ \A o \in Voxel : scene[o] = "occupied" => BorderSeeded(w, o)
  BY DEF OnTheWay
<1>2. PICK i \in 1..8 : n = Neighbor(c, i) BY DEF OnTheWay
<1>3. /\ SceneSound /\ w \in Works /\ MaxDistance \in Nat \ {0} /\ w.field \in [Voxel -> Int]
      /\ w.parent \in [Voxel -> Voxel \cup {Outside}] /\ CellSound(w, c) /\ Outside \notin Voxel
  BY <1>1, SoundIs
<1>4. n # c /\ 9 - i \in 1..8 /\ Neighbor(n, 9 - i) = c BY <1>1, <1>2, NeighborIs
<1>5. generator \in {"quasi", "full"} BY <1>3 DEF SceneSound
<1>6. scene[c] \in {"free", "occupied"} BY <1>1 DEF ReachedCell
<1>7. PICK v \in Int : v = w.field[c] BY <1>1, <1>3
<1>8. Abs(v) \in Nat BY <1>7 DEF Abs
<1>9. PICK h \in Nat \ {0} : h = HalfLength(c, n) BY <1>1, <1>4, LengthsAre
<1>10. Length(c, n) = 2 * h BY <1>9 DEF Length
<1>11. p \in Voxel \cup {Outside} BY <1>1, <1>3
<1>12. CASE Crossing(w, c, n)
  <2>1. scene[n] = "occupied" /\ scene[c] = "free" /\ p = c BY <1>6, <1>12 DEF Crossing
  <2>2. v \in 0..MaxDistance BY <1>3, <1>7, <2>1 DEF CellSound
  <2>3. CASE generator = "quasi"
    <3>1. BorderSeeded(w, n) BY <1>1, <2>1
    <3>2. v <= ToSurface(c, n) BY <1>1, <1>4, <1>7, <2>1, <3>1 DEF BorderSeeded
    <3>3. v <= h BY <1>9, <2>3, <3>2 DEF ToSurface
    <3>4. k = 2 * h - v BY <1>7, <1>10, <1>12, <2>2, <2>3 DEF Candidate, Abs
    <3> QED BY <1>9, <1>11, <2>2, <2>3, <3>3, <3>4
  <2>4. CASE generator = "full"
    <3>1. k = MinDistanceTo(n, c) BY <1>12, <2>4 DEF Candidate
    <3>2. k \in Nat /\ k > 0 BY <1>1, <1>4, <3>1, LengthsAre
    <3>3. c \in Opposite(n) BY <1>1, <2>1 DEF Opposite
    <3> QED BY <1>11, <2>1, <3>1, <3>2, <3>3
  <2> QED BY <1>5, <2>3, <2>4
<1>13. CASE ~Crossing(w, c, n)
  <2>1. scene[n] = scene[c] /\ p = w.parent[c] BY <1>13 DEF Crossing
  <2>2. CASE generator = "quasi"
    <3>1. k = Abs(v) + 2 * h BY <1>7, <1>10, <1>13, <2>2 DEF Candidate
    <3> QED BY <1>8, <1>11, <2>2, <3>1
  <2>3. CASE generator = "full"
    <3>1. k = MinDistanceTo(n, p) BY <1>13, <2>1, <2>3 DEF Candidate
    <3>2. p \in Opposite(c) BY <1>3, <2>1, <2>3 DEF CellSound
    <3>3. p \in Opposite(n) BY <2>1, <3>2 DEF Opposite
    <3>4. p \in Voxel /\ p # n BY <3>3 DEF Opposite
    <3>5. k \in Nat /\ k > 0 BY <1>1, <3>1, <3>4, LengthsAre
    <3> QED BY <1>11, <3>1, <3>3, <3>5
  <2> QED BY <1>5, <2>2, <2>3
<1> QED BY <1>12, <1>13

\* A visit of a neighbour by the wavefront.
LEMMA ReachStep ==
  ASSUME NEW w, WorkSound(w), NEW c \in Voxel, ReachedCell(w, c), NEW i \in 1..8,
         \A o \in Voxel : scene[o] = "occupied" => BorderSeeded(w, o),
         NEW n, n = Neighbor(c, i), NEW u, u = ReachNeighbor(w, c, n)
  PROVE  WorkSound(u) /\ NoFarther(w, u) /\ ReachedCell(u, c)
<1>1. /\ SceneSound /\ w \in Works /\ MaxDistance \in Nat \ {0}
      /\ w.field \in [Voxel -> Int] /\ w.parent \in [Voxel -> Voxel \cup {Outside}]
      /\ \A o \in Voxel : CellSound(w, o)
  BY SoundIs
<1> DEFINE negative == NegativeAt(w, n)
           crossing == negative # (w.field[c] < 0)
           skipped == \/ n \notin Voxel
                      \/ generator = "full" /\ w.parent[c] = Outside
                      \/ Candidate(w, c, n, FALSE) >= MaxDistance
                      \/ Fresh(w, n) /\ scene[n] = "unobserved"
                      \/ crossing /\ ~negative
<1>2. CASE skipped
  <2>1. u = w BY <1>2, Zenon DEF ReachNeighbor, NegativeAt
  <2>2. NoFarther(w, w) BY <1>1 DEF NoFarther
  <2> QED BY <2>1, <2>2
<1>3. CASE ~skipped
  <2>1. n \in Voxel /\ n # c BY <1>3, NeighborIs
  <2>2. /\ scene[n] \in {"free", "occupied"} /\ (negative <=> scene[n] = "occupied")
        /\ Abs(w.field[n]) \in 0..MaxDistance
        /\ scene[n] = "occupied" => Abs(w.field[n]) > 0
        /\ scene[n] = "free" => w.field[n] \in 0..MaxDistance /\ Abs(w.field[n]) = w.field[n]
    BY <1>3, <2>1, SignIs
  <2>3. w.field[c] < 0 <=> scene[c] = "occupied"
    <3>1. w.field[c] \in Int BY <1>1
    <3> QED BY <1>1, <3>1 DEF ReachedCell, CellSound
  <2>4. scene[c] \in {"free", "occupied"} BY DEF ReachedCell
  <2>5. crossing = Crossing(w, c, n)
    <3>1. negative = (scene[n] = "occupied") BY <2>2 DEF NegativeAt
    <3>2. (w.field[c] < 0) = (scene[c] = "occupied") BY <2>3
    <3>3. ((scene[n] = "occupied") # (scene[c] = "occupied")) = (scene[n] # scene[c])
      BY <2>2, <2>4
    <3> QED BY <3>1, <3>2, <3>3, Zenon DEF Crossing
  <2>6. Crossing(w, c, n) => scene[n] = "occupied" BY <1>3, <2>2, <2>5
  <2>7. PICK k : k = Candidate(w, c, n, crossing) OBVIOUS
  <2>8. PICK from : from = IF crossing THEN c ELSE w.parent[c] OBVIOUS
  <2>9. /\ k \in Nat /\ k > 0 /\ from \in Voxel \cup {Outside}
        /\ generator = "full" => from \in Opposite(n) /\ k = MinDistanceTo(n, from)
    <3>1. OnTheWay(w, c, n) BY <2>1 DEF OnTheWay
    <3>2. ~(generator = "full" /\ w.parent[c] = Outside) BY <1>3
    <3>3. k = Candidate(w, c, n, Crossing(w, c, n)) BY <2>5, <2>7
    <3>4. from = IF Crossing(w, c, n) THEN c ELSE w.parent[c] BY <2>5, <2>8
    <3> QED BY <2>2, <2>6, <3>1, <3>2, <3>3, <3>4, CandidateIs
  <2>10. PICK a \in 0..MaxDistance : a = Abs(w.field[n]) BY <2>2
  <2>11. PICK d : d = IF k < a THEN k ELSE a OBVIOUS
  <2>12. PICK p \in Voxel \cup {Outside} : p = IF k < a THEN from ELSE w.parent[n]
    BY <1>1, <2>1, <2>9
  <2>13. PICK v : v = IF negative THEN -d ELSE d OBVIOUS
  <2>14. d \in 0..MaxDistance /\ v \in Int /\ Abs(v) = d
    BY <1>1, <2>9, <2>10, <2>11, <2>13 DEF Abs
  <2>15. PICK z : z = Updated(w, n, v, p) OBVIOUS
  <2>16. u = IF Fresh(w, n) THEN Push(z, k, n) ELSE z
    <3>1. p = IF ~(k < Abs(w.field[n])) THEN w.parent[n] ELSE IF crossing THEN c ELSE w.parent[c]
      BY <2>8, <2>10, <2>12
    <3>2. d = IF k < Abs(w.field[n]) THEN k ELSE Abs(w.field[n]) BY <2>10, <2>11
    <3> QED BY <1>3, <2>7, <2>13, <2>15, <3>1, <3>2, Zenon DEF ReachNeighbor, NegativeAt
  <2> HIDE DEF negative, crossing, skipped
  <2>17. scene[n] = "occupied" => v \in -MaxDistance..-1
    BY <1>1, <2>2, <2>9, <2>10, <2>11, <2>13, <2>14
  <2>18. scene[n] = "free" => v \in 0..MaxDistance /\ v <= w.field[n]
    BY <1>1, <2>2, <2>9, <2>10, <2>11, <2>13, <2>14
  <2>19. z.field[n] = v /\ z.parent[n] = p /\ z \in Works
         /\ \A o \in Voxel \ {n} : z.field[o] = w.field[o]
    <3>1. w \in Works /\ n \in Voxel /\ v \in Int /\ z = Updated(w, n, v, p)
      BY <1>1, <2>1, <2>14, <2>15
    <3>2. /\ z \in Works /\ z.field[n] = v /\ z.parent[n] = p
          /\ \A o \in Voxel \ {n} : z.field[o] = w.field[o] /\ z.parent[o] = w.parent[o]
      BY <3>1, UpdateIs
    <3> QED BY <3>2, Zenon
  <2>20. CellSound(z, n)
    <3>1. ASSUME generator = "full"
          PROVE  \/ p = Outside /\ v \in {MaxDistance, -MaxDistance}
                 \/ p \in Opposite(n) /\ Abs(v) = MinDistanceTo(n, p)
      <4>1. CASE k < a BY <2>9, <2>11, <2>12, <2>14, <3>1, <4>1
      <4>2. CASE ~(k < a)
        <5>1. p = w.parent[n] /\ d = a BY <2>11, <2>12, <4>2
        <5>2. \/ p = Outside /\ w.field[n] \in {MaxDistance, -MaxDistance}
              \/ p \in Opposite(n) /\ a = MinDistanceTo(n, p)
          BY <1>1, <2>1, <2>10, <3>1, <5>1 DEF CellSound
        <5>3. w.field[n] \in {MaxDistance, -MaxDistance} => a = MaxDistance
          BY <1>1, <2>10 DEF Abs
        <5>4. a = MaxDistance => v \in {MaxDistance, -MaxDistance} BY <2>13, <5>1
        <5> QED BY <2>14, <5>1, <5>2, <5>3, <5>4
      <4> QED BY <4>1, <4>2
    <3> QED BY <2>2, <2>17, <2>18, <2>19, <3>1 DEF CellSound
  <2>21. ReachedCell(z, n) BY <1>1, <2>2, <2>17, <2>19 DEF ReachedCell
  <2>22. WorkSound(z) /\ NoFarther(w, z)
    <3>1. scene[n] = "free" => v <= w.field[n] BY <2>18
    <3>2. v \in Int /\ z = Updated(w, n, v, p) BY <2>14, <2>15
    <3> QED BY <2>1, <2>20, <2>21, <3>1, <3>2, UpdateSound
  <2>23. ReachedCell(z, c) BY <2>1, <2>19 DEF ReachedCell
  <2>24. CASE Fresh(w, n)
    <3>1. u = Push(z, k, n) BY <2>16, <2>24
    <3>2. WorkSound(u) /\ u.field = z.field BY <2>1, <2>9, <2>21, <2>22, <3>1, PushSound
    <3>3. NoFarther(w, u) BY <2>22, <3>2 DEF NoFarther
    <3>4. ReachedCell(u, c) BY <2>23, <3>2 DEF ReachedCell
    <3> QED BY <3>2, <3>3, <3>4
  <2>25. CASE ~Fresh(w, n) BY <2>16, <2>22, <2>23, <2>25
  <2> QED BY <2>24, <2>25
<1> QED BY <1>2, <1>3

\* The loop over the neighbours of an obstacle.
LEMMA SeedAroundIs ==
  ASSUME NEW w, WorkSound(w), NEW o \in Voxel, scene[o] = "occupied", NEW u, u = SeedAround(w, o)
  PROVE  WorkSound(u) /\ NoFarther(w, u) /\ BorderSeeded(u, o)
<1> DEFINE V == {x \in Works : WorkSound(x)}
           round == [i \in 1..8 |-> [x \in V |-> SeedVoxel(x, o, Neighbor(o, i))]]
           IsLoop(f) == f = [i \in 0..8 |-> IF i = 0 THEN w
                                            ELSE SeedVoxel(f[i - 1], o, Neighbor(o, i))]
<1>1. \A x : x \in V <=> WorkSound(x) BY DEF WorkSound
<1>2. ASSUME NEW x \in V, NEW i \in 1..8
      PROVE  LET y == SeedVoxel(x, o, Neighbor(o, i))
             IN  /\ y \in V /\ NoFarther(x, y)
                 /\ Neighbor(o, i) \in Voxel /\ scene[Neighbor(o, i)] = "free"
                      => y.field[Neighbor(o, i)] <= ToSurface(Neighbor(o, i), o)
  <2>1. PICK n : n = Neighbor(o, i) OBVIOUS
  <2>2. PICK y : y = SeedVoxel(x, o, n) OBVIOUS
  <2>3. WorkSound(x) BY <1>1
  <2> HIDE DEF V
  <2>4. /\ WorkSound(y) /\ NoFarther(x, y)
        /\ n \in Voxel /\ scene[n] = "free" => y.field[n] <= ToSurface(n, o)
    BY <2>2, <2>3, SeedStep
  <2> QED BY <1>1, <2>1, <2>2, <2>4
<1>3. \E f : IsLoop(f)
  <2>1. round \in [1..8 -> [V -> V]]
    <3> HIDE DEF V
    <3> QED BY <1>2
  <2>2. w \in V BY <1>1
  <2> HIDE DEF V, round
  <2>3. CanLoop(8, V, w, round) BY <2>1, <2>2 DEF CanLoop
  <2>4. PICK f \in [0..8 -> V] : f = [k \in 0..8 |-> IF k = 0 THEN w ELSE round[k][f[k - 1]]]
    <3>1. PICK N, X, g : N = 8 /\ X = V /\ g = round OBVIOUS
    <3>2. CanLoop(N, X, w, g) BY <2>3, <3>1
    <3>3. \E f \in [0..N -> X] : f = [k \in 0..N |-> IF k = 0 THEN w ELSE g[k][f[k - 1]]]
      BY <3>2, LoopExists
    <3> QED BY <3>1, <3>3, Zenon
  <2>5. ASSUME NEW k \in 1..8 PROVE round[k][f[k - 1]] = SeedVoxel(f[k - 1], o, Neighbor(o, k))
    <3>1. f[k - 1] \in V OBVIOUS
    <3> QED BY <3>1 DEF round
  <2>6. ASSUME NEW k \in 0..8
        PROVE  (IF k = 0 THEN w ELSE round[k][f[k - 1]]) = IF k = 0 THEN w ELSE SeedVoxel(f[k - 1], o, Neighbor(o, k))
    <3>1. k = 0 \/ k \in 1..8 OBVIOUS
    <3> QED BY <2>5, <3>1, Zenon
  <2>7. [k \in 0..8 |-> IF k = 0 THEN w ELSE round[k][f[k - 1]]]
          = [k \in 0..8 |-> IF k = 0 THEN w ELSE SeedVoxel(f[k - 1], o, Neighbor(o, k))]
    BY <2>6, Zenon
  <2> QED BY <2>4, <2>7, Zenon
<1> DEFINE seeded == CHOOSE f : IsLoop(f)
<1>4. u = seeded[8] BY Zenon DEF SeedAround
<1>5. IsLoop(seeded)
  <2> HIDE DEF IsLoop
  <2> QED BY <1>3, Zenon
<1>6. PICK f : f = seeded OBVIOUS
<1>7. f[0] = w /\ \A i \in 1..8 : f[i] = SeedVoxel(f[i - 1], o, Neighbor(o, i))
  <2> HIDE DEF seeded
  <2> QED BY <1>5, <1>6
<1> HIDE DEF V, seeded, IsLoop, round
<1> DEFINE S == {i \in Nat : i <= 8 =>
                   /\ f[i] \in V /\ NoFarther(w, f[i])
                   /\ \A j \in 1..i : Neighbor(o, j) \in Voxel /\ scene[Neighbor(o, j)] = "free"
                        => f[i].field[Neighbor(o, j)] <= ToSurface(Neighbor(o, j), o)}
<1>8. 0 \in S
  <2>1. w \in V BY <1>1
  <2>2. w.field \in [Voxel -> Int] BY SoundIs
  <2>3. NoFarther(w, w) BY <2>2 DEF NoFarther
  <2> QED BY <1>7, <2>1, <2>3
<1>9. ASSUME NEW i \in Nat, i \in S PROVE i + 1 \in S
  <2> SUFFICES ASSUME i + 1 <= 8
               PROVE  /\ f[i + 1] \in V /\ NoFarther(w, f[i + 1])
                      /\ \A j \in 1..i + 1 : Neighbor(o, j) \in Voxel /\ scene[Neighbor(o, j)] = "free"
                           => f[i + 1].field[Neighbor(o, j)] <= ToSurface(Neighbor(o, j), o)
    OBVIOUS
  <2>1. i + 1 \in 1..8 /\ (i + 1) - 1 = i /\ i <= 8 OBVIOUS
  <2>2. PICK x : x = f[i] OBVIOUS
  <2>3. PICK y : y = f[i + 1] OBVIOUS
  <2>4. x \in V /\ NoFarther(w, x)
        /\ \A j \in 1..i : Neighbor(o, j) \in Voxel /\ scene[Neighbor(o, j)] = "free"
             => x.field[Neighbor(o, j)] <= ToSurface(Neighbor(o, j), o)
    BY <1>9, <2>1, <2>2
  <2>5. y = SeedVoxel(x, o, Neighbor(o, i + 1)) BY <1>7, <2>1, <2>2, <2>3
  <2>6. y \in V /\ NoFarther(x, y)
        /\ (Neighbor(o, i + 1) \in Voxel /\ scene[Neighbor(o, i + 1)] = "free"
             => y.field[Neighbor(o, i + 1)] <= ToSurface(Neighbor(o, i + 1), o))
    BY <1>2, <2>1, <2>4, <2>5
  <2>7. x \in Works /\ y \in Works /\ w \in Works BY <1>1, <2>4, <2>6 DEF WorkSound
  <2>8. NoFarther(w, y) BY <2>4, <2>6, <2>7, NoFartherYet
  <2>9. ASSUME NEW j \in 1..i, Neighbor(o, j) \in Voxel, scene[Neighbor(o, j)] = "free"
        PROVE  y.field[Neighbor(o, j)] <= ToSurface(Neighbor(o, j), o)
    <3>1. PICK n \in Voxel : n = Neighbor(o, j) BY <2>9
    <3>2. ToSurface(n, o) \in Int BY LengthsAre DEF ToSurface
    <3>3. x.field[n] <= ToSurface(n, o) BY <2>4, <2>9, <3>1
    <3>4. y.field[n] <= x.field[n] BY <2>6, <2>9, <3>1 DEF NoFarther
    <3>5. x.field[n] \in Int /\ y.field[n] \in Int BY <2>7 DEF Works
    <3> QED BY <3>1, <3>2, <3>3, <3>4, <3>5
  <2>10. \A j \in 1..i + 1 : j \in 1..i \/ j = i + 1 OBVIOUS
  <2> QED BY <2>3, <2>6, <2>8, <2>9, <2>10
<1> HIDE DEF S
<1>10. 8 \in S BY <1>8, <1>9, NatInductionSet
<1>11. u = f[8] BY <1>4, <1>6
<1>12. /\ u \in V /\ NoFarther(w, u)
       /\ \A j \in 1..8 : Neighbor(o, j) \in Voxel /\ scene[Neighbor(o, j)] = "free"
            => u.field[Neighbor(o, j)] <= ToSurface(Neighbor(o, j), o)
  BY <1>10, <1>11 DEF S
<1> QED BY <1>1, <1>12 DEF BorderSeeded

\* The loop over the neighbours of a cell on the wavefront.
LEMMA ReachAroundIs ==
  ASSUME NEW w, WorkSound(w), NEW c \in Voxel, ReachedCell(w, c),
         \A o \in Voxel : scene[o] = "occupied" => BorderSeeded(w, o),
         NEW u, u = ReachAround(w, c)
  PROVE  WorkSound(u) /\ \A o \in Voxel : scene[o] = "occupied" => BorderSeeded(u, o)
<1> DEFINE V == {x \in Works : /\ WorkSound(x) /\ ReachedCell(x, c)
                               /\ \A o \in Voxel : scene[o] = "occupied" => BorderSeeded(x, o)}
           round == [i \in 1..8 |-> [x \in V |-> ReachNeighbor(x, c, Neighbor(c, i))]]
           IsLoop(f) == f = [i \in 0..8 |-> IF i = 0 THEN w
                                            ELSE ReachNeighbor(f[i - 1], c, Neighbor(c, i))]
<1>1. \A x : x \in V <=> /\ WorkSound(x) /\ ReachedCell(x, c)
                         /\ \A o \in Voxel : scene[o] = "occupied" => BorderSeeded(x, o)
  BY DEF WorkSound
<1>2. ASSUME NEW x \in V, NEW i \in 1..8 PROVE ReachNeighbor(x, c, Neighbor(c, i)) \in V
  <2>1. PICK n : n = Neighbor(c, i) OBVIOUS
  <2>2. PICK y : y = ReachNeighbor(x, c, n) OBVIOUS
  <2>3. /\ WorkSound(x) /\ ReachedCell(x, c)
        /\ \A o \in Voxel : scene[o] = "occupied" => BorderSeeded(x, o)
    BY <1>1
  <2> HIDE DEF V
  <2>4. WorkSound(y) /\ NoFarther(x, y) /\ ReachedCell(y, c) BY <2>1, <2>2, <2>3, ReachStep
  <2>5. x \in Works /\ y \in Works BY <2>3, <2>4 DEF WorkSound
  <2>6. \A o \in Voxel : scene[o] = "occupied" => BorderSeeded(y, o)
    BY <2>3, <2>4, <2>5, BorderStays
  <2> QED BY <1>1, <2>1, <2>2, <2>4, <2>6
<1>3. w \in V BY <1>1
<1>4. \E f : IsLoop(f)
  <2>1. round \in [1..8 -> [V -> V]]
    <3> HIDE DEF V
    <3> QED BY <1>2
  <2> HIDE DEF V, round
  <2>3. CanLoop(8, V, w, round) BY <1>3, <2>1 DEF CanLoop
  <2>4. PICK f \in [0..8 -> V] : f = [k \in 0..8 |-> IF k = 0 THEN w ELSE round[k][f[k - 1]]]
    <3>1. PICK N, X, g : N = 8 /\ X = V /\ g = round OBVIOUS
    <3>2. CanLoop(N, X, w, g) BY <2>3, <3>1
    <3>3. \E f \in [0..N -> X] : f = [k \in 0..N |-> IF k = 0 THEN w ELSE g[k][f[k - 1]]]
      BY <3>2, LoopExists
    <3> QED BY <3>1, <3>3, Zenon
  <2>5. ASSUME NEW k \in 1..8 PROVE round[k][f[k - 1]] = ReachNeighbor(f[k - 1], c, Neighbor(c, k))
    <3>1. f[k - 1] \in V OBVIOUS
    <3> QED BY <3>1 DEF round
  <2>6. ASSUME NEW k \in 0..8
        PROVE  (IF k = 0 THEN w ELSE round[k][f[k - 1]]) = IF k = 0 THEN w ELSE ReachNeighbor(f[k - 1], c, Neighbor(c, k))
    <3>1. k = 0 \/ k \in 1..8 OBVIOUS
    <3> QED BY <2>5, <3>1, Zenon
  <2>7. [k \in 0..8 |-> IF k = 0 THEN w ELSE round[k][f[k - 1]]]
          = [k \in 0..8 |-> IF k = 0 THEN w ELSE ReachNeighbor(f[k - 1], c, Neighbor(c, k))]
    BY <2>6, Zenon
  <2> QED BY <2>4, <2>7, Zenon
<1> DEFINE spread == CHOOSE f : IsLoop(f)
<1>5. u = spread[8] BY Zenon DEF ReachAround
<1>6. IsLoop(spread)
  <2> HIDE DEF IsLoop
  <2> QED BY <1>4, Zenon
<1>7. PICK f : f = spread OBVIOUS
<1>8. f[0] = w /\ \A i \in 1..8 : f[i] = ReachNeighbor(f[i - 1], c, Neighbor(c, i))
  <2> HIDE DEF spread
  <2> QED BY <1>6, <1>7
<1> HIDE DEF V, spread, IsLoop, round
<1> DEFINE S == {i \in Nat : i <= 8 => f[i] \in V}
<1>9. 0 \in S BY <1>3, <1>8
<1>10. ASSUME NEW i \in Nat, i \in S PROVE i + 1 \in S
  <2> SUFFICES ASSUME i + 1 <= 8 PROVE f[i + 1] \in V OBVIOUS
  <2>1. i + 1 \in 1..8 /\ (i + 1) - 1 = i /\ i <= 8 OBVIOUS
  <2>2. f[i] \in V BY <1>10, <2>1
  <2>3. f[i + 1] = ReachNeighbor(f[i], c, Neighbor(c, i + 1)) BY <1>8, <2>1
  <2> QED BY <1>2, <2>1, <2>2, <2>3
<1> HIDE DEF S
<1>11. 8 \in S BY <1>9, <1>10, NatInductionSet
<1>12. u \in V BY <1>5, <1>7, <1>11 DEF S
<1> QED BY <1>1, <1>12

-----------------------------------------------------------------------------
(* The invariant: the distances, the queue and the seeds of the visited    *)
(* obstacles are as they should be, in whatever order they were visited.   *)

FieldInv ==
  /\ WorkSound(Work)
  /\ \A o \in obstacles : o \in Voxel /\ scene[o] = "occupied"
  /\ \A o \in Voxel \ obstacles : scene[o] = "occupied" => BorderSeeded(Work, o)

\* An empty field.
LEMMA FieldStarts == FieldInit => FieldInv
<1> SUFFICES ASSUME FieldInit PROVE FieldInv OBVIOUS
<1>1. /\ generator \in {"quasi", "full"} /\ scene \in [Voxel -> {"free", "occupied", "unobserved"}]
      /\ obstacles = {c \in Voxel : scene[c] = "occupied"}
      /\ field = [c \in Voxel |-> MaxDistance] /\ parent = [c \in Voxel |-> Outside]
      /\ open = [b \in 1..NumBuckets |-> <<>>] /\ lastBucket = 1
  BY FieldAssumption DEF FieldInit
<1>2. PICK w : w = Work OBVIOUS
<1>3. w.field = field /\ w.parent = parent /\ w.open = open /\ w.last = lastBucket
  BY <1>2 DEF Work
<1>4. MaxDistance \in Nat \ {0} BY FieldAssumption
<1>5. w \in Works
  <2>1. field \in [Voxel -> Int] /\ parent \in [Voxel -> Voxel \cup {Outside}] BY <1>1, <1>4
  <2>2. lastBucket \in 1..NumBuckets BY <1>1, BucketIs
  <2>3. open \in [1..NumBuckets -> Seq(Voxel)]
    <3>1. <<>> \in Seq(Voxel) OBVIOUS
    <3> QED BY <1>1, <3>1
  <2> QED BY <1>2, <2>1, <2>2, <2>3 DEF Work, Works
<1>6. \A c \in Voxel : CellSound(w, c)
  <2> SUFFICES ASSUME NEW c \in Voxel PROVE CellSound(w, c) OBVIOUS
  <2>1. w.field[c] = MaxDistance /\ w.parent[c] = Outside BY <1>1, <1>3
  <2> QED BY <1>4, <2>1 DEF CellSound
<1>7. QueueSound(w)
  <2>1. \A b \in 1..NumBuckets : w.open[b] = <<>> BY <1>1, <1>3
  <2>2. \A i \in 1..Len(<<>>) : FALSE OBVIOUS
  <2>3. \A b \in 1..w.last - 1 : FALSE BY <1>1, <1>3
  <2> QED BY <2>1, <2>2, <2>3 DEF QueueSound
<1>8. SceneSound BY <1>1 DEF SceneSound
<1>9. WorkSound(w) BY <1>5, <1>6, <1>7, <1>8 DEF WorkSound
<1>10. \A o \in obstacles : o \in Voxel /\ scene[o] = "occupied" BY <1>1
<1>11. \A o \in Voxel \ obstacles : scene[o] # "occupied" BY <1>1
<1> QED BY <1>2, <1>9, <1>10, <1>11 DEF FieldInv

\* What an inner loop leaves is written back.
LEMMA CommitKeeps ==
  ASSUME NEW w, WorkSound(w), Commit(w), scene' = scene, generator' = generator
  PROVE  WorkSound(Work)' /\ \A o \in Voxel : BorderSeeded(w, o) => BorderSeeded(Work, o)'
<1>1. SceneSound /\ w \in Works /\ QueueSound(w) /\ \A o \in Voxel : CellSound(w, o)
  BY DEF WorkSound
<1>2. Work' = w
  <2>1. w = [field |-> w.field, parent |-> w.parent, open |-> w.open, last |-> w.last] BY SoundIs
  <2>2. field' = w.field /\ parent' = w.parent /\ open' = w.open /\ lastBucket' = w.last
    BY DEF Commit
  <2> QED BY <2>1, <2>2 DEF Work
<1>3. SceneSound' BY <1>1 DEF SceneSound
<1>4. ASSUME NEW c \in Voxel PROVE CellSound(Work, c)'
  <2>1. Opposite(c)' = Opposite(c) BY DEF Opposite
  <2>2. CellSound(w, c) BY <1>1
  <2> QED BY <1>2, <2>1, <2>2 DEF CellSound
<1>5. QueueSound(Work)' BY <1>1, <1>2 DEF QueueSound, ReachedCell
<1>6. ASSUME NEW o \in Voxel, BorderSeeded(w, o) PROVE BorderSeeded(Work, o)'
  <2>1. \A c : ToSurface(c, o)' = ToSurface(c, o) BY DEF ToSurface
  <2> QED BY <1>2, <1>6, <2>1 DEF BorderSeeded
<1> QED BY <1>1, <1>2, <1>3, <1>4, <1>5, <1>6 DEF WorkSound

\* An obstacle is visited: its border is seeded, the others' stay.
LEMMA SeedLeafKeeps == ASSUME FieldInv, NEW o \in Voxel, SeedLeaf(o) PROVE FieldInv'
<1>1. /\ WorkSound(Work) /\ \A x \in obstacles : x \in Voxel /\ scene[x] = "occupied"
      /\ \A x \in Voxel \ obstacles : scene[x] = "occupied" => BorderSeeded(Work, x)
  BY DEF FieldInv
<1>2. PICK w : w = Work OBVIOUS
<1>3. PICK u : u = SeedAround(w, o) OBVIOUS
<1>4. /\ o \in obstacles /\ obstacles' = obstacles \ {o} /\ Commit(u)
      /\ scene' = scene /\ generator' = generator
  BY <1>2, <1>3 DEF SeedLeaf
<1>5. scene[o] = "occupied" /\ WorkSound(w) BY <1>1, <1>2, <1>4
<1>6. WorkSound(u) /\ NoFarther(w, u) /\ BorderSeeded(u, o) BY <1>3, <1>5, SeedAroundIs
<1>7. WorkSound(Work)' /\ \A x \in Voxel : BorderSeeded(u, x) => BorderSeeded(Work, x)'
  BY <1>4, <1>6, CommitKeeps
<1>8. ASSUME NEW x \in Voxel \ obstacles', scene[x] = "occupied" PROVE BorderSeeded(u, x)
  <2>1. CASE x = o BY <1>6, <2>1
  <2>2. CASE x # o
    <3>1. BorderSeeded(w, x) BY <1>1, <1>2, <1>4, <1>8, <2>2
    <3>2. w \in Works /\ u \in Works BY <1>5, <1>6, SoundIs
    <3> QED BY <1>6, <3>1, <3>2, BorderStays
  <2> QED BY <2>1, <2>2
<1> QED BY <1>1, <1>4, <1>7, <1>8 DEF FieldInv

\* The queue finds its lowest bucket.
LEMMA LowestIs ==
  ASSUME WorkSound(Work), \E i \in DOMAIN open : open[i] # <<>>, NEW b, b = Lowest
  PROVE  /\ b \in 1..NumBuckets /\ open[b] # <<>> /\ \A d \in 1..b - 1 : open[d] = <<>>
         /\ open \in [1..NumBuckets -> Seq(Voxel)]
<1>1. Work.open = open /\ Work.last = lastBucket BY DEF Work
<1>2. /\ open \in [1..NumBuckets -> Seq(Voxel)] /\ lastBucket \in 1..NumBuckets
      /\ \A d \in 1..lastBucket - 1 : open[d] = <<>>
  BY <1>1 DEF WorkSound, Works, QueueSound
<1>3. PICK n \in Nat : n = NumBuckets BY BucketIs
<1> DEFINE S == {d \in Nat : d \in lastBucket..n /\ open[d] # <<>>}
           IsLowest(d) == open[d] # <<>> /\ \A lower \in lastBucket..d - 1 : open[lower] = <<>>
<1>4. PICK i \in 1..n : open[i] # <<>> BY <1>2, <1>3
<1>5. i \in S
  <2>1. ~(i \in 1..lastBucket - 1) BY <1>2, <1>4
  <2> QED BY <1>2, <1>3, <1>4, <2>1
<1>6. PICK m \in Nat : m \in S /\ \A d \in S : m <= d
  <2>1. S \in SUBSET Nat /\ S # {} BY <1>5
  <2> HIDE DEF S
  <2>2. Min(S) \in S /\ \A d \in S : Min(S) <= d BY <2>1, LeastNumber
  <2> QED BY <2>1, <2>2
<1>7. m \in lastBucket..n /\ IsLowest(m)
  <2>1. ASSUME NEW d \in lastBucket..m - 1, open[d] # <<>> PROVE FALSE
    <3>1. d \in Nat /\ d \in lastBucket..n /\ d < m BY <1>2, <1>3, <1>6
    <3>2. d \in S BY <2>1, <3>1
    <3> QED BY <1>6, <3>1, <3>2
  <2> QED BY <1>6, <2>1
<1>8. b \in lastBucket..n /\ IsLowest(b)
  <2>1. b = CHOOSE d \in lastBucket..n : IsLowest(d) BY <1>3, Zenon DEF Lowest
  <2> HIDE DEF IsLowest, S
  <2> QED BY <1>7, <2>1
<1>9. ASSUME NEW d \in 1..b - 1 PROVE open[d] = <<>>
  <2>1. d \in 1..lastBucket - 1 \/ d \in lastBucket..b - 1 BY <1>2, <1>3, <1>8
  <2> QED BY <1>2, <1>8, <2>1
<1>10. b \in 1..NumBuckets BY <1>2, <1>3, <1>8
<1> QED BY <1>2, <1>8, <1>9, <1>10

\* The queue gives its first cell, and the wavefront spreads from it.
LEMMA PropagateKeeps == ASSUME FieldInv, Propagate PROVE FieldInv'
<1>1. /\ WorkSound(Work) /\ obstacles = {} /\ \E i \in DOMAIN open : open[i] # <<>>
      /\ \A o \in Voxel : scene[o] = "occupied" => BorderSeeded(Work, o)
  BY DEF FieldInv, Propagate
<1>2. PICK b : b = Lowest OBVIOUS
<1>3. /\ b \in 1..NumBuckets /\ open[b] # <<>> /\ \A d \in 1..b - 1 : open[d] = <<>>
      /\ open \in [1..NumBuckets -> Seq(Voxel)]
  BY <1>1, <1>2, LowestIs
<1>4. PICK q \in Seq(Voxel) : q = open[b] BY <1>3
<1>5. PICK c : c = Head(q) OBVIOUS
<1>6. PICK rest : rest = Tail(q) OBVIOUS
<1>7. /\ c \in Voxel /\ rest \in Seq(Voxel) /\ c = q[1] /\ 1 \in 1..Len(q)
      /\ \A i \in 1..Len(rest) : i + 1 \in 1..Len(q) /\ rest[i] = q[i + 1]
  BY <1>3, <1>4, <1>5, <1>6
<1>8. PICK open2 : open2 = [open EXCEPT ![b] = rest] OBVIOUS
<1>9. PICK w : w = [field |-> field, parent |-> parent, open |-> open2, last |-> b] OBVIOUS
<1>10. PICK u : u = ReachAround(w, c) OBVIOUS
<1>11. /\ Commit(u) /\ scene' = scene /\ generator' = generator /\ obstacles' = {}
  <2>1. w = [field |-> field, parent |-> parent,
             open |-> [open EXCEPT ![Lowest] = Tail(open[Lowest])], last |-> Lowest]
    BY <1>2, <1>4, <1>6, <1>8, <1>9
  <2>2. c = Head(open[Lowest]) BY <1>2, <1>4, <1>5
  <2> QED BY <1>1, <1>10, <2>1, <2>2, Zenon DEF Propagate
<1>12. /\ SceneSound /\ QueueSound(Work) /\ \A o \in Voxel : CellSound(Work, o)
       /\ field \in [Voxel -> Int] /\ parent \in [Voxel -> Voxel \cup {Outside}]
  BY <1>1 DEF WorkSound, Works, Work
<1>13. /\ Work.field = field /\ Work.parent = parent /\ Work.open = open
       /\ w.field = field /\ w.parent = parent /\ w.open = open2 /\ w.last = b
  BY <1>9 DEF Work
<1>14. WorkSound(w)
  <2>1. open2 \in [1..NumBuckets -> Seq(Voxel)] BY <1>3, <1>7, <1>8
  <2>2. w \in Works BY <1>3, <1>9, <1>12, <2>1 DEF Works
  <2>3. \A o \in Voxel : CellSound(w, o) BY <1>12, <1>13 DEF CellSound
  <2>4. \A o : ReachedCell(w, o) <=> ReachedCell(Work, o) BY <1>13 DEF ReachedCell
  <2>5. ASSUME NEW d \in 1..NumBuckets, NEW i \in 1..Len(open2[d])
        PROVE  ReachedCell(Work, open2[d][i])
    <3>1. CASE d = b
      <4>1. open2[d] = rest BY <1>3, <1>8, <3>1
      <4>2. i + 1 \in 1..Len(q) /\ open2[d][i] = q[i + 1] BY <1>7, <4>1
      <4> QED BY <1>3, <1>4, <1>12, <1>13, <4>2 DEF QueueSound
    <3>2. CASE d # b
      <4>1. open2[d] = open[d] BY <1>3, <1>8, <3>2
      <4> QED BY <1>12, <1>13, <4>1 DEF QueueSound
    <3> QED BY <3>1, <3>2
  <2>6. ASSUME NEW d \in 1..b - 1 PROVE open2[d] = <<>>
    <3>1. PICK n \in Nat : n = NumBuckets BY BucketIs
    <3>2. d \in 1..NumBuckets /\ d # b BY <1>3, <3>1
    <3> QED BY <1>3, <1>8, <3>2
  <2>7. QueueSound(w) BY <1>13, <2>4, <2>5, <2>6 DEF QueueSound
  <2> QED BY <1>12, <2>2, <2>3, <2>7 DEF WorkSound
<1>15. ReachedCell(w, c)
  <2>1. ReachedCell(Work, c) BY <1>3, <1>4, <1>7, <1>12, <1>13 DEF QueueSound
  <2> QED BY <1>13, <2>1 DEF ReachedCell
<1>16. \A o \in Voxel : scene[o] = "occupied" => BorderSeeded(w, o)
  BY <1>1, <1>13 DEF BorderSeeded
<1>17. WorkSound(u) /\ \A o \in Voxel : scene[o] = "occupied" => BorderSeeded(u, o)
  BY <1>7, <1>10, <1>14, <1>15, <1>16, ReachAroundIs
<1>18. WorkSound(Work)' /\ \A o \in Voxel : BorderSeeded(u, o) => BorderSeeded(Work, o)'
  BY <1>11, <1>17, CommitKeeps
<1> QED BY <1>11, <1>17, <1>18 DEF FieldInv

\* Nothing happens.
LEMMA FieldStays == ASSUME FieldInv, UNCHANGED fieldVars PROVE FieldInv'
<1>1. WorkSound(Work) BY DEF FieldInv
<1>2. PICK w : w = Work OBVIOUS
<1>3. scene' = scene /\ generator' = generator /\ obstacles' = obstacles /\ Commit(w)
  BY <1>2 DEF fieldVars, Commit, Work
<1>4. WorkSound(Work)' /\ \A o \in Voxel : BorderSeeded(w, o) => BorderSeeded(Work, o)'
  BY <1>1, <1>2, <1>3, CommitKeeps
<1> QED BY <1>2, <1>3, <1>4 DEF FieldInv

\* The invariant holds.
LEMMA FieldInvariant == FieldSpec => []FieldInv
<1>1. ASSUME FieldInv, [FieldNext]_fieldVars PROVE FieldInv'
  BY <1>1, SeedLeafKeeps, PropagateKeeps, FieldStays DEF FieldNext
<1> QED BY <1>1, FieldStarts, PTL DEF FieldSpec

\* The search over all cells finds no distance above that to any of them.
LEMMA BruteForceIs ==
  ASSUME NEW c \in Voxel
  PROVE  /\ BruteForce(c) <= MaxDistance
         /\ \A o \in Opposite(c) : BruteForce(c) <= MinDistanceTo(c, o)
<1> DEFINE S == {MaxDistance} \cup {MinDistanceTo(c, o) : o \in Opposite(c)}
<1>1. \A o \in Opposite(c) : MinDistanceTo(c, o) \in Nat
  <2>1. \A o \in Opposite(c) : o \in Voxel BY DEF Opposite
  <2> QED BY <2>1, LengthsAre
<1>2. S \in SUBSET Nat /\ S # {} BY <1>1, FieldAssumption
<1>3. BruteForce(c) = Min(S) BY DEF BruteForce
<1> HIDE DEF S
<1>4. \A k \in S : Min(S) <= k BY <1>2, LeastNumber
<1> QED BY <1>3, <1>4 DEF S

\* The invariant implies the property.
LEMMA FieldInvIsEnough == FieldInv => SurfaceIsKept
<1> SUFFICES ASSUME FieldInv PROVE SurfaceIsKept OBVIOUS
<1>1. /\ WorkSound(Work)
      /\ \A o \in Voxel \ obstacles : scene[o] = "occupied" => BorderSeeded(Work, o)
  BY DEF FieldInv
<1>2. /\ Work.field = field /\ Work.parent = parent /\ Work.open = open
      /\ Work.last = lastBucket
  BY DEF Work
<1>3. /\ SceneSound /\ QueueSound(Work) /\ \A c \in Voxel : CellSound(Work, c)
      /\ MaxDistance \in Nat \ {0} /\ field \in [Voxel -> Int]
      /\ open \in [1..NumBuckets -> Seq(Voxel)]
  <2>1. open \in [1..NumBuckets -> Seq(Voxel)] BY <1>1, <1>2 DEF WorkSound, Works
  <2> QED BY <1>1, <1>2, <2>1, SoundIs DEF WorkSound
<1>4. ASSUME NEW c \in Voxel
      PROVE  /\ scene[c] = "unobserved" => field[c] = MaxDistance
             /\ scene[c] = "occupied" => field[c] < 0 \/ field[c] = MaxDistance
             /\ scene[c] = "free" => field[c] >= 0
             /\ generator = "full" => Abs(field[c]) >= BruteForce(c)
  <2>1. PICK v \in Int : v = field[c] BY <1>3
  <2>2. CellSound(Work, c) BY <1>3
  <2>3. /\ scene[c] = "unobserved" => v = MaxDistance
        /\ scene[c] = "occupied" => v = MaxDistance \/ v \in -MaxDistance..-1
        /\ scene[c] = "free" => v \in 0..MaxDistance
    BY <1>2, <2>1, <2>2 DEF CellSound
  <2>4. ASSUME generator = "full" PROVE Abs(v) >= BruteForce(c)
    <3>1. \/ v \in {MaxDistance, -MaxDistance}
          \/ parent[c] \in Opposite(c) /\ Abs(v) = MinDistanceTo(c, parent[c])
      BY <1>2, <2>1, <2>2, <2>4 DEF CellSound
    <3>2. CASE v \in {MaxDistance, -MaxDistance}
      <4>1. Abs(v) = MaxDistance BY <1>3, <3>2 DEF Abs
      <4>2. BruteForce(c) <= MaxDistance BY BruteForceIs
      <4> QED BY <4>1, <4>2
    <3>3. CASE parent[c] \in Opposite(c) /\ Abs(v) = MinDistanceTo(c, parent[c])
      BY <3>3, BruteForceIs
    <3> QED BY <3>1, <3>2, <3>3
  <2> QED BY <1>3, <2>1, <2>3, <2>4
<1>5. ASSUME NEW b \in 1..NumBuckets, NEW i \in DOMAIN open[b]
      PROVE  \/ scene[open[b][i]] = "free"
             \/ scene[open[b][i]] = "occupied" /\ field[open[b][i]] < 0
  <2>1. PICK q \in Seq(Voxel) : q = open[b] BY <1>3
  <2>2. i \in 1..Len(q) BY <2>1
  <2>3. ReachedCell(Work, open[b][i]) BY <1>2, <1>3, <2>1, <2>2 DEF QueueSound
  <2> QED BY <1>2, <2>3 DEF ReachedCell
<1>6. ASSUME NEW o \in Voxel \ obstacles, NEW i \in 1..8, scene[o] = "occupied",
             Neighbor(o, i) \in Voxel, scene[Neighbor(o, i)] = "free"
      PROVE  field[Neighbor(o, i)] <= ToSurface(Neighbor(o, i), o)
  BY <1>1, <1>2, <1>6 DEF BorderSeeded
<1>7. \A b \in 1..lastBucket - 1 : open[b] = <<>> BY <1>2, <1>3 DEF QueueSound
<1> QED BY <1>4, <1>5, <1>6, <1>7 DEF SurfaceIsKept

(***************************************************************************)
(* In whatever order the obstacles are visited, and at any time of the     *)
(* propagation: unobserved cells keep the default, all signs are those of  *)
(* the occupancy, only cells with a distance wait in the queue, which      *)
(* never has one below the bucket where it looks next, cells that border   *)
(* visited obstacles stay as close as their seed (DCHECK_LE in propagate), *)
(* and no full Euclidean distance is below the true one.                   *)
(***************************************************************************)
THEOREM SurfacesAreKept == FieldSpec => []SurfaceIsKept
BY FieldInvariant, FieldInvIsEnough, PTL
=============================================================================
