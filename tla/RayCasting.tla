----------------------------- MODULE RayCasting -----------------------------
(***************************************************************************)
(* RayTracingIntegrator on a HashedBlocks map: the cells of a ray one by   *)
(* one (ray_iterator_inl.h), each with the update of the constant-ray      *)
(* model, added to a grid of hashed dense blocks (dense_block_hash_inl.h,  *)
(* hashed_blocks.cc).  Two dimensions; coordinates of points are integers, *)
(* CellWidth of them to a cell; a parameter t along the ray is multiplied  *)
(* by Scale so that it is an integer.                                      *)
(***************************************************************************)
EXTENDS Integers, Sequences, FiniteSets

CONSTANTS CellWidth,      \* min_cell_width
          CellsPerSide,   \* kCellsPerSide, a power of two
          Rays,           \* <<origin, measured point, point truncated at max_range>>
          NumRays,        \* bound on the number of rays
          Hit, Miss,      \* log_odds_occupied, log_odds_free
          RayMin, RayMax, \* min_log_odds, max_log_odds
          Window          \* cells whose values are compared

RayAxis == {1, 2}

\* No point lies on the boundary of a cell.
ASSUME RayAssumption ==
  /\ CellWidth \in Nat \ {0}
  /\ CellsPerSide \in Nat \ {0}
  /\ Hit \in Int /\ Miss \in Int
  /\ RayMin \in Int /\ RayMin < 0
  /\ RayMax \in Int /\ 0 < RayMax
  /\ Window \subseteq Int \X Int
  /\ Rays \subseteq [1..3 -> [RayAxis -> Int]]
  /\ \A r \in Rays, i \in 1..3, a \in RayAxis : r[i][a] % CellWidth # 0

VARIABLES cellBlocks,  \* block_map_
          ray,         \* the ray being cast, or <<>>
          at,          \* current_index_
          nextT,       \* t_to_next_boundary_
          stepsLeft,   \* cells still to be visited
          beforeRay,   \* history: the values in Window when the ray began
          numCast      \* rays cast so far

rayVars == <<cellBlocks, ray, at, nextT, stepsLeft, beforeRay, numCast>>

-----------------------------------------------------------------------------
(* HashedBlocks *)

BlockOf(c) == <<c[1] \div CellsPerSide, c[2] \div CellsPerSide>>
CellIn(c) == <<c[1] % CellsPerSide, c[2] % CellsPerSide>>
LinearIndex(c) == CellIn(c)[1] + CellsPerSide * CellIn(c)[2]

ZeroBlock == [i \in 0..(CellsPerSide * CellsPerSide - 1) |-> 0]

CellValueAt(c) == IF BlockOf(c) \in DOMAIN cellBlocks
                    THEN cellBlocks[BlockOf(c)][LinearIndex(c)] ELSE 0

ClampCell(v) == IF v < RayMin THEN RayMin ELSE IF v > RayMax THEN RayMax ELSE v

AddToCell(c, update) ==
  LET block == IF BlockOf(c) \in DOMAIN cellBlocks
                 THEN cellBlocks[BlockOf(c)] ELSE ZeroBlock
  IN cellBlocks' = [b \in DOMAIN cellBlocks \cup {BlockOf(c)} |->
                      IF b = BlockOf(c)
                        THEN [block EXCEPT ![LinearIndex(c)] = ClampCell(@ + update)]
                        ELSE cellBlocks[b]]

-----------------------------------------------------------------------------
(* The ray *)

NearestIndex(p) == <<p[1] \div CellWidth, p[2] \div CellWidth>>

Origin == ray[1]
Reach == ray[3]
AbsOf(n) == IF n < 0 THEN -n ELSE n
SignOf(n) == IF n < 0 THEN -1 ELSE IF n > 0 THEN 1 ELSE 0
Along(r, a) == r[3][a] - r[1][a]
Scale(r) == (IF Along(r, 1) = 0 THEN 1 ELSE AbsOf(Along(r, 1)))
             * (IF Along(r, 2) = 0 THEN 1 ELSE AbsOf(Along(r, 2)))

\* Mutant: the next boundary is the cell's lower one in either direction.
FirstBoundaryBelow(r, a) == NearestIndex(r[1])[a] * CellWidth

\* The first boundary the ray crosses: the upper one of the cell if it ascends.
FirstBoundary(r, a) ==
  (NearestIndex(r[1])[a] + (IF Along(r, a) > 0 THEN 1 ELSE 0)) * CellWidth

\* An axis along which the ray does not move is never due: t = 2.
FirstT(r, a) ==
  IF Along(r, a) = 0 THEN 2 * Scale(r)
  ELSE (FirstBoundary(r, a) - r[1][a]) * SignOf(Along(r, a))
         * (Scale(r) \div AbsOf(Along(r, a)))

StepT(r, a) ==
  IF Along(r, a) = 0 THEN 2 * Scale(r)
  ELSE CellWidth * (Scale(r) \div AbsOf(Along(r, a)))

NumCells(r) == AbsOf(NearestIndex(r[3])[1] - NearestIndex(r[1])[1])
               + AbsOf(NearestIndex(r[3])[2] - NearestIndex(r[1])[2]) + 1

\* The occupied update belongs to the cell of the measured point, which a
\* truncated ray does not reach.
RayUpdate(c) == IF c = NearestIndex(ray[2]) THEN Hit ELSE Miss

CastRay(r) ==
  /\ ray = <<>>
  /\ numCast < NumRays
  /\ ray' = r
  /\ at' = NearestIndex(r[1])
  /\ nextT' = [a \in RayAxis |-> FirstT(r, a)]
  /\ stepsLeft' = NumCells(r)
  /\ beforeRay' = [c \in Window |-> CellValueAt(c)]
  /\ numCast' = numCast + 1
  /\ UNCHANGED cellBlocks

\* The axis whose boundary comes first; the first axis if both come at once.
NextAxis == IF nextT[1] <= nextT[2] THEN 1 ELSE 2

VisitCell ==
  /\ ray # <<>>
  /\ stepsLeft > 0
  /\ AddToCell(at, RayUpdate(at))
  /\ at' = [at EXCEPT ![NextAxis] = @ + SignOf(Along(ray, NextAxis))]
  /\ nextT' = [nextT EXCEPT ![NextAxis] = @ + StepT(ray, NextAxis)]
  /\ stepsLeft' = stepsLeft - 1
  /\ UNCHANGED <<ray, beforeRay, numCast>>

RayDone == ray # <<>> /\ stepsLeft = 0

EndRay == /\ RayDone
          /\ ray' = <<>>
          /\ at' = <<0, 0>>
          /\ nextT' = [a \in RayAxis |-> 0]
          /\ beforeRay' = [c \in Window |-> 0]
          /\ UNCHANGED <<cellBlocks, stepsLeft, numCast>>

\* The map operations run between two integrations.
PruneDense ==
  /\ ray = <<>>
  /\ cellBlocks' = [b \in {k \in DOMAIN cellBlocks : cellBlocks[k] # ZeroBlock}
                      |-> cellBlocks[b]]
  /\ UNCHANGED <<ray, at, nextT, stepsLeft, beforeRay, numCast>>

ClearBlocks == /\ ray = <<>>
               /\ cellBlocks' = [b \in {} |-> ZeroBlock]
               /\ UNCHANGED <<ray, at, nextT, stepsLeft, beforeRay, numCast>>

RayInit == /\ cellBlocks = [b \in {} |-> ZeroBlock]
           /\ ray = <<>>
           /\ at = <<0, 0>>
           /\ nextT = [a \in RayAxis |-> 0]
           /\ stepsLeft = 0
           /\ beforeRay = [c \in Window |-> 0]
           /\ numCast = 0

RayNext == \/ \E r \in Rays : CastRay(r)
           \/ VisitCell
           \/ EndRay
           \/ PruneDense
           \/ ClearBlocks

RaySpec == RayInit /\ [][RayNext]_rayVars

-----------------------------------------------------------------------------
(* Properties *)

\* The parameters at which the segment from the origin to the end of the ray
\* enters and leaves the extent of cell c along axis a, as <<enter, leave>>.
Extent(c, a) ==
  LET lower == c[a] * CellWidth
      upper == lower + CellWidth
      d == Along(ray, a)
      unit == Scale(ray) \div (IF d = 0 THEN 1 ELSE AbsOf(d))
  IN IF d > 0 THEN <<(lower - Origin[a]) * unit, (upper - Origin[a]) * unit>>
     ELSE IF d < 0 THEN <<(Origin[a] - upper) * unit, (Origin[a] - lower) * unit>>
     ELSE IF lower < Origin[a] /\ Origin[a] < upper THEN <<0, Scale(ray)>>
     ELSE <<Scale(ray) + 1, 0>>

Enter(c) == {Extent(c, 1)[1], Extent(c, 2)[1], 0}
Leave(c) == {Extent(c, 1)[2], Extent(c, 2)[2], Scale(ray)}
Crosses(c) == \A e \in Enter(c), l \in Leave(c) : e < l
Touches(c) == \A e \in Enter(c), l \in Leave(c) : e <= l

(***************************************************************************)
(* A ray adds exactly one update to each cell its segment crosses, the     *)
(* occupied one in the cell of the measured point, and none to a cell it   *)
(* does not touch; of the two cells beside a corner it passes through,     *)
(* either may count.  The iterator never looks at the segment again after  *)
(* its first step, and the cells lie in blocks with negative indices too.  *)
(***************************************************************************)
RayHitsItsCells ==
  RayDone =>
    \A c \in Window :
      LET hit == CellValueAt(c) = ClampCell(beforeRay[c] + RayUpdate(c))
          missed == CellValueAt(c) = beforeRay[c]
      IN /\ Crosses(c) => hit
         /\ ~Touches(c) => missed
         /\ hit \/ missed
=============================================================================
