--------------------------- MODULE OccupancyGrid ----------------------------
(***************************************************************************)
(* What a block of the map promises, whatever data structure stores it: a  *)
(* log-odds value per cell, which measurements and users increment and     *)
(* which thresholding brings back into its range (core/map/map_base.h).    *)
(***************************************************************************)
EXTENDS Integers

CONSTANTS Cell, Region,             \* Region: the sets of cells that have an index
          Amount,                   \* what may be added to a cell
          MinLogOdds, MaxLogOdds,
          Noise                     \* by which integrators may exceed the range

VARIABLE grid

LowerOf(a, b) == IF a < b THEN a ELSE b
UpperOf(a, b) == IF a < b THEN b ELSE a
Limit(v, low, high) == UpperOf(low, LowerOf(v, high))
Clamp(v) == Limit(v, MinLogOdds, MaxLogOdds)
ClampPadded(v) == Limit(v, MinLogOdds - Noise, MaxLogOdds + Noise)

Init == grid = [c \in Cell |-> 0]

\* A measurement: each cell is left alone, incremented, or incremented and
\* limited to the padded range.
Update ==
  \A c \in Cell : \/ grid'[c] \in {grid[c], ClampPadded(grid[c])}
                  \/ \E s \in Amount : grid'[c] \in {grid[c] + s, ClampPadded(grid[c] + s)}

\* addToCellValue of an index of any height: all the cells below it.
Add == \E r \in Region, s \in Amount :
         grid' = [c \in Cell |-> IF c \in r THEN grid[c] + s ELSE grid[c]]

Threshold == grid' = [c \in Cell |-> Clamp(grid[c])]

Clear == grid' = [c \in Cell |-> 0]

Next == (grid' \in [Cell -> Int] /\ Update) \/ Add \/ Threshold \/ Clear

Spec == Init /\ [][Next]_grid

=============================================================================
