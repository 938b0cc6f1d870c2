----------------------------- MODULE RangeBounds -----------------------------
(***************************************************************************)
(* How the coarse-to-fine integrators decide what a measurement can do to  *)
(* a whole cell: pyramids of the lowest and the highest range and of the   *)
(* unobserved pixels of the range image, and at most four of their nodes   *)
(* to cover the pixels a cell projects to                                  *)
(* (hierarchical_range_bounds_inl.h, range_image_intersector_inl.h).       *)
(*                                                                         *)
(* A cell is represented by the image indices of its corners, rounded      *)
(* outwards and padded by the beam's width, by its distances, and by       *)
(* whether the sensor is in it.  Where the last index is below the first,  *)
(* the cell lies across the seam of the image.                             *)
(***************************************************************************)
EXTENDS Integers, Sequences, FiniteSets, FiniteSetsExt

CONSTANTS Sensors,        \* [rows, columns, wraps, scale] of the projectors
          Images(_),      \* the range images of a sensor
          MinRange,       \* ranges below it are not observations
          MaxRange,       \* what is farther away is not updated
          PaddingBehind,  \* range_threshold_behind_
          PaddingInFront, \* range_threshold_in_front_
          SeenCells(_)    \* bound: the cells that a sensor is asked about

PowerOf2(k) == 2^k

\* The cells that reach a sensor: on an axis that wraps around, indices are
\* within the image.
ProjectedCells(s) ==
  LET columns == IF s.wraps THEN 0..(s.columns - 1) ELSE -1..(s.columns + 1)
      indices == (-1..(s.rows + 1)) \X columns
  IN  {c \in [min : indices, max : indices, near : Int, far : Int, holds_sensor : BOOLEAN] :
         /\ c.near <= c.far
         /\ c.holds_sensor => c.near <= 0 /\ 0 <= c.far}

ASSUME BoundsAssumption ==
  /\ MinRange \in Nat \ {0} /\ MaxRange \in Nat
  /\ PaddingBehind \in Nat /\ PaddingInFront \in Nat
  /\ \A s \in Sensors :
       /\ s.rows \in Nat \ {0} /\ s.columns \in Nat \ {0} /\ s.wraps \in BOOLEAN
       /\ s.scale \in {<<1, 1>>, <<1, 2>>, <<2, 1>>}
       /\ Images(s) \subseteq [(0..(s.rows - 1)) \X (0..(s.columns - 1)) -> Nat]
       /\ SeenCells(s) \subseteq ProjectedCells(s)

\* Arithmetic, as far as it is needed.
ASSUME BoundsPowers ==
  /\ PowerOf2(0) = 1
  /\ \A s \in Sensors : \A k \in 0..(2 * (s.rows + s.columns)) :
       PowerOf2(k) \in Nat \ {0} /\ PowerOf2(k + 1) = 2 * PowerOf2(k)

VARIABLES sensor, rangeImage, lowerBounds, upperBounds, unobservedMask, seenCell, updateType

boundsVars == <<sensor, rangeImage, lowerBounds, upperBounds, unobservedMask, seenCell, updateType>>

UnknownLower == 10000
UnknownUpper == 0

Lesser(a, b) == IF a < b THEN a ELSE b
Greater(a, b) == IF a > b THEN a ELSE b
IsUnobserved(range) == range < MinRange

-----------------------------------------------------------------------------
(* The pyramids *)

Log2Floor(n) == CHOOSE k \in 0..n : PowerOf2(k) <= n /\ n < PowerOf2(k + 1)
Log2Ceil(n) == CHOOSE k \in 0..n : n <= PowerOf2(k) /\ \A j \in 0..(k - 1) : PowerOf2(j) < n
CeilDiv(n, k) == (n + PowerOf2(k) - 1) \div PowerOf2(k)

ScaledRows == sensor.rows * sensor.scale[1]
ScaledColumns == sensor.columns * sensor.scale[2]
Halvings == Log2Ceil(Greater(ScaledRows, ScaledColumns))

\* Dimensions of the image, at height 0, and of the levels above it.
Rows(height) == IF height = 0 THEN sensor.rows ELSE CeilDiv(ScaledRows, height)
Columns(height) == IF height = 0 THEN sensor.columns ELSE CeilDiv(ScaledColumns, height)
Pixels(height) == (0..(Rows(height) - 1)) \X (0..(Columns(height) - 1))

\* A value of the level below, which is padded with init where it ends; the
\* column after the last is the first one if the image wraps around.
Padded(level, height, x, y, init) ==
  IF x >= Rows(height) THEN init
  ELSE IF y < Columns(height) THEN level[<<x, y>>]
  ELSE IF sensor.wraps /\ y = Columns(height) THEN level[<<x, 0>>]
  ELSE init

Reduced(reducer, values) == IF reducer = "min" THEN Min(values)
                            ELSE IF reducer = "max" THEN Max(values)
                            ELSE TRUE \in values

\* Heights 0..Halvings, the first being the image itself.
Pyramid(image, reducer, init) ==
  LET levels[h \in 0..Halvings] ==
        IF h = 0 THEN image
        ELSE [p \in Pixels(h) |->
                LET scale == IF h = 1 THEN sensor.scale ELSE <<1, 1>>
                    x(i) == (2 * p[1] + i) \div scale[1]
                    y(i) == (2 * p[2] + i) \div scale[2]
                    at(i, j) == Padded(levels[h - 1], h - 1, x(i), y(j), init)
                IN  IF x(0) >= Rows(h - 1) \/ y(0) >= Columns(h - 1) THEN init
                    ELSE Reduced(reducer, {at(i, j) : i, j \in 0..1})]
  IN  levels

ValueOrInit(init) == [p \in Pixels(0) |-> IF IsUnobserved(rangeImage[p]) THEN init ELSE rangeImage[p]]

Construct ==
  /\ updateType = "none"
  /\ lowerBounds = <<>>
  /\ lowerBounds' = Pyramid(ValueOrInit(UnknownLower), "min", UnknownLower)
  /\ upperBounds' = Pyramid(ValueOrInit(UnknownUpper), "max", UnknownUpper)
  /\ unobservedMask' = Pyramid([p \in Pixels(0) |-> IsUnobserved(rangeImage[p])],
                               "or", TRUE)
  /\ UNCHANGED <<sensor, rangeImage, seenCell, updateType>>

-----------------------------------------------------------------------------
(* getBounds and hasUnobserved of an interval *)

\* Mutant: nodes that are not neighbours are checked without their parents.
CoverWithoutParents(min, max) ==
  LET diff == Greater((max[1] - min[1]) * sensor.scale[1], (max[2] - min[2]) * sensor.scale[2])
      up == IF diff <= 0 THEN 0 ELSE Log2Floor(diff)
      at(p) == IF up = 0 THEN p ELSE <<(p[1] * sensor.scale[1]) \div PowerOf2(up), (p[2] * sensor.scale[2]) \div PowerOf2(up)>>
  IN  [height |-> up, nodes |-> {at(min)[1], at(max)[1]} \X {at(min)[2], at(max)[2]}]

Scaled(p) == <<p[1] * sensor.scale[1], p[2] * sensor.scale[2]>>
Corners(p, q) == {p[1], q[1]} \X {p[2], q[2]}

\* The end of an interval, past the seam if the interval lies across it.
Unwrapped(min, max) ==
  IF sensor.wraps /\ max[2] < min[2] THEN <<max[1], max[2] + sensor.columns>> ELSE max

\* How far up the image an interval is less than two nodes long.
ChildHeight(min, max) ==
  LET far == Scaled(Unwrapped(min, max))
      diff == Greater(far[1] - Scaled(min)[1], far[2] - Scaled(min)[2])
  IN  IF diff = 0 THEN 0 ELSE Log2Floor(diff)

\* The nodes that cover the pixels from min to max: neighbours at the lowest
\* level that has them, or their parents.
Cover(min, max) ==
  LET up == ChildHeight(min, max)
      child(p) == <<Scaled(p)[1] \div PowerOf2(up), Scaled(p)[2] \div PowerOf2(up)>>
      par(p) == <<child(p)[1] \div 2, child(p)[2] \div 2>>
      near == child(min)
      far == child(Unwrapped(min, max))
      neighbours == far[1] - near[1] <= 1 /\ far[2] - near[2] <= 1
  IN  IF min = max THEN [height |-> 0, nodes |-> {min}]
      ELSE IF neighbours /\ (far[1] = near[1] \/ far[2] = near[2] \/ par(Unwrapped(min, max)) # par(min))
           THEN [height |-> up, nodes |-> IF up = 0 THEN Corners(min, max) ELSE Corners(near, child(max))]
      ELSE [height |-> up + 1, nodes |-> Corners(par(min), par(max))]

LowerBound(min, max) ==
  LET c == Cover(min, max) IN Min({lowerBounds[c.height][n] : n \in c.nodes})
UpperBound(min, max) ==
  LET c == Cover(min, max) IN Max({upperBounds[c.height][n] : n \in c.nodes})
HasUnobserved(min, max) ==
  LET c == Cover(min, max) IN \E n \in c.nodes : unobservedMask[c.height][n]

-----------------------------------------------------------------------------
(* determineUpdateType and getUpdateType *)

GetUpdateType(c) ==
  LET min == <<Greater(c.min[1], 0), Greater(c.min[2], 0)>>
      max == <<Lesser(c.max[1], sensor.rows - 1), Lesser(c.max[2], sensor.columns - 1)>>
  IN  IF UpperBound(min, max) < c.near - PaddingBehind THEN "fully_unobserved"
      ELSE IF c.far + PaddingInFront >= LowerBound(min, max) THEN "possibly_occupied"
      ELSE IF min # c.min \/ max # c.max \/ HasUnobserved(min, max) THEN "free_or_unobserved"
      ELSE "fully_free"

DetermineUpdateType(c) ==
  LET xAcross == c.max[1] < c.min[1]
      yAcross == c.max[2] < c.min[2]
      xOutside == c.max[1] < 0 /\ sensor.rows < c.min[1]
      yOutside == c.max[2] < 0 /\ sensor.columns < c.min[2]
  IN  IF c.holds_sensor THEN "possibly_occupied"
      ELSE IF MaxRange < c.near \/ c.far < MinRange THEN "fully_unobserved"
      ELSE IF xAcross \/ (~sensor.wraps /\ yAcross)
      THEN IF (~xAcross \/ xOutside) /\ (sensor.wraps \/ ~yAcross \/ yOutside)
           THEN "fully_unobserved" ELSE "possibly_occupied"
      ELSE IF \/ c.max[1] < 0 \/ c.max[2] < 0
              \/ sensor.rows <= c.min[1] \/ sensor.columns <= c.min[2]
           THEN "fully_unobserved"
      ELSE GetUpdateType(c)

Determine ==
  /\ updateType = "none"
  /\ lowerBounds # <<>>
  /\ \E c \in SeenCells(sensor) : /\ seenCell' = c
                                  /\ updateType' = DetermineUpdateType(c)
  /\ UNCHANGED <<sensor, rangeImage, lowerBounds, upperBounds, unobservedMask>>

BoundsInit ==
  /\ sensor \in Sensors
  /\ rangeImage \in Images(sensor)
  /\ lowerBounds = <<>> /\ upperBounds = <<>> /\ unobservedMask = <<>>
  /\ seenCell = <<>>
  /\ updateType = "none"

BoundsNext == Construct \/ Determine

BoundsSpec == BoundsInit /\ [][BoundsNext]_boundsVars

-----------------------------------------------------------------------------
(* Properties *)

Between(i, min, max) == IF min <= max THEN min <= i /\ i <= max ELSE i >= min \/ i <= max
PixelsSeen == {p \in Pixels(0) : \A i \in 1..2 : Between(p[i], seenCell.min[i], seenCell.max[i])}
OutOfImage(i, n) == IF seenCell.min[i] <= seenCell.max[i]
                    THEN seenCell.min[i] < 0 \/ seenCell.max[i] >= n
                    ELSE i = 1 \/ ~sensor.wraps

\* How the levels are halved and an interval is covered is only exact across
\* the seam of an image with a power of two of columns; others are not refused.
SeamIsExact == \E exponent \in 0..sensor.columns : sensor.columns = PowerOf2(exponent)

OutOfRange == MaxRange < seenCell.near \/ seenCell.far < MinRange
NothingAt(p) == IsUnobserved(rangeImage[p])
InFrontOf(p) == rangeImage[p] < seenCell.near - PaddingBehind
Beyond(p) == rangeImage[p] > seenCell.far + PaddingInFront

(***************************************************************************)
(* A cell that is skipped, or updated as a whole instead of being refined, *)
(* does not hold the sensor, and no pixel of the cell measures a surface   *)
(* inside it or in the padding around it: a skipped cell lies behind       *)
(* everything its pixels measured, if it is not beyond max_range or closer *)
(* than min_range altogether; a free one lies in front; and one that is    *)
(* called fully free has no unobserved pixel and does not leave the image. *)
(* Of cells across the seam, it is those of images with a power of two of  *)
(* columns.                                                                *)
(***************************************************************************)
BoundsAreConservative ==
  updateType \in {"fully_unobserved", "free_or_unobserved", "fully_free"}
    /\ (seenCell.max[2] < seenCell.min[2] => SeamIsExact) =>
  /\ ~seenCell.holds_sensor
  /\ CASE updateType = "fully_unobserved" ->
            OutOfRange \/ \A p \in PixelsSeen : NothingAt(p) \/ InFrontOf(p)
       [] updateType = "free_or_unobserved" ->
            \A p \in PixelsSeen : NothingAt(p) \/ Beyond(p)
       [] updateType = "fully_free" ->
            /\ \A p \in PixelsSeen : ~NothingAt(p) /\ Beyond(p)
            /\ ~OutOfImage(1, sensor.rows) /\ ~OutOfImage(2, sensor.columns)
=============================================================================
