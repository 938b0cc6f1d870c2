---------------------------- MODULE DistanceField ----------------------------
(***************************************************************************)
(* The signed distance field of an occupancy map, by the quasi Euclidean   *)
(* and the full Euclidean generator: the free cells that border an         *)
(* obstacle seed a bucketed queue, from which a wavefront spreads          *)
(* (quasi_euclidean_sdf_generator.cc, full_euclidean_sdf_generator.cc,     *)
(* bucket_queue_inl.h).                                                    *)
(*                                                                         *)
(* The map has one observed layer of Width by Depth cells: the generators  *)
(* never initialise unobserved cells, so nothing leaves the layer.  All    *)
(* lengths are in hundredths of a cell, rounded down.                      *)
(***************************************************************************)
EXTENDS Integers, Sequences, FiniteSetsExt

CONSTANTS Width, Depth,   \* bound: the observed layer
          MaxDistance,    \* max_distance_
          Scenes          \* the occupancy maps, functions on Voxel

Voxel == (1..Width) \X (1..Depth)

ASSUME FieldAssumption ==
  /\ Width \in Nat \ {0} /\ Depth \in Nat \ {0}
  /\ MaxDistance \in Nat \ {0}
  /\ Scenes \subseteq [Voxel -> {"free", "occupied", "unobserved"}]

VARIABLES generator,    \* which of the two is running
          scene,        \* the occupancy map
          obstacles,    \* occupied leaves that forEachLeaf has yet to visit
          field,        \* the signed distance of each cell
          parent,       \* full only: the surface cell that a distance refers to
          open,         \* BucketQueue::buckets_
          lastBucket    \* BucketQueue::last_bucket_index_

fieldVars == <<generator, scene, obstacles, field, parent, open, lastBucket>>

Outside == <<0, 0>>  \* the default parent, which is far from all cells
FieldSpan == 2 * (Width + Depth)

\* Half the root, in hundredths.
SqrtOf == [n \in 0..FieldSpan * FieldSpan |->
             CHOOSE r \in 0..50 * FieldSpan : r * r <= 2500 * n /\ 2500 * n < (r + 1) * (r + 1)]
Distance(a, b) == <<IF a[1] > b[1] THEN a[1] - b[1] ELSE b[1] - a[1],
                    IF a[2] > b[2] THEN a[2] - b[2] ELSE b[2] - a[2]>>

\* From the centre of one cell to that of another, halved; 2 * d per axis.
HalfLength(a, b) == LET d == Distance(a, b) IN SqrtOf[d[1] * d[1] + d[2] * d[2]]
Length(a, b) == 2 * HalfLength(a, b)

\* From the centre of a cell to the closest point of another cell.
MinDistanceTo(child, from) ==
  LET d == Distance(child, from)
      excess(i) == IF d[i] = 0 THEN 0 ELSE 2 * d[i] - 1
  IN  SqrtOf[excess(1) * excess(1) + excess(2) * excess(2)]

\* kNeighborIndexOffsets, in the order of the grid iterator.
Offsets == <<<<-1, -1>>, <<0, -1>>, <<1, -1>>, <<-1, 0>>, <<1, 0>>, <<-1, 1>>, <<0, 1>>, <<1, 1>>>>
Neighbor(c, i) == <<c[1] + Offsets[i][1], c[2] + Offsets[i][2]>>

-----------------------------------------------------------------------------
(* The bucketed queue *)

NumBuckets == (MaxDistance + 99) \div 100
BucketOf(key) ==
  LET b == (key * (NumBuckets - 1)) \div MaxDistance + 1
  IN  IF NumBuckets < b THEN NumBuckets ELSE b

\* front() and pop() look from the last bucket upwards.
Lowest == CHOOSE b \in lastBucket..NumBuckets :
            open[b] # <<>> /\ \A lower \in lastBucket..(b - 1) : open[lower] = <<>>

\* State of a generator's inner loop: the three data structures it writes.
Work == [field |-> field, parent |-> parent, open |-> open, last |-> lastBucket]
Commit(work) == /\ field' = work.field /\ parent' = work.parent
                /\ open' = work.open /\ lastBucket' = work.last

Updated(work, c, distance, from) ==
  [field |-> [work.field EXCEPT ![c] = distance], parent |-> [work.parent EXCEPT ![c] = from],
   open |-> work.open, last |-> work.last]

Push(work, key, c) ==
  LET b == BucketOf(key)
  IN  [work EXCEPT !.open[b] = Append(@, c), !.last = IF b < @ THEN b ELSE @]

-----------------------------------------------------------------------------
(* seed *)

\* A cell that has not been reached.
Fresh(work, c) == IF generator = "quasi" THEN work.field[c] = MaxDistance
                                         ELSE work.parent[c] = Outside

ToSurface(c, obstacle) ==
  IF generator = "quasi" THEN HalfLength(c, obstacle) ELSE MinDistanceTo(c, obstacle)

SeedVoxel(work, obstacle, c) ==
  LET distance == ToSurface(c, obstacle)
      updated == IF distance < work.field[c] THEN Updated(work, c, distance, obstacle) ELSE work
  IN  IF c \notin Voxel \/ scene[c] # "free" THEN work
      ELSE IF Fresh(work, c) THEN Push(updated, distance, c)
      ELSE updated

\* One occupied leaf: all the free cells around it.
SeedAround(work, obstacle) ==
  LET seeded[i \in 0..8] ==
        IF i = 0 THEN work ELSE SeedVoxel(seeded[i - 1], obstacle, Neighbor(obstacle, i))
  IN  seeded[8]

SeedLeaf(obstacle) ==
  /\ obstacle \in obstacles
  /\ obstacles' = obstacles \ {obstacle}
  /\ Commit(SeedAround(Work, obstacle))
  /\ UNCHANGED <<generator, scene>>

-----------------------------------------------------------------------------
(* propagate *)

Abs(x) == IF x < 0 THEN -x ELSE x

\* Mutants: distances are added up across the surface; a cell beyond the
\* surface is as far as it is from the parent on its own side.
SummedCandidate(work, c, n, crossing) ==
  IF generator = "quasi" THEN Abs(work.field[c]) + Length(c, n)
  ELSE IF crossing THEN MinDistanceTo(n, c) ELSE MinDistanceTo(n, work.parent[c])

InheritedCandidate(work, c, n, crossing) ==
  IF generator = "full" THEN MinDistanceTo(n, work.parent[c])
  ELSE IF crossing THEN Length(c, n) - Abs(work.field[c]) ELSE Abs(work.field[c]) + Length(c, n)

\* The distance of n if it is reached from c, across the surface or not.
Candidate(work, c, n, crossing) ==
  IF generator = "quasi"
  THEN IF crossing THEN Length(c, n) - Abs(work.field[c]) ELSE Abs(work.field[c]) + Length(c, n)
  ELSE IF crossing THEN MinDistanceTo(n, c) ELSE MinDistanceTo(n, work.parent[c])

ReachNeighbor(work, c, n) ==
  LET fresh == Fresh(work, n)
      negative == IF fresh THEN scene[n] = "occupied" ELSE work.field[n] < 0
      crossing == negative # (work.field[c] < 0)
      candidate == Candidate(work, c, n, crossing)
      closer == candidate < Abs(work.field[n])
      distance == IF closer THEN candidate ELSE Abs(work.field[n])
      from == IF ~closer THEN work.parent[n] ELSE IF crossing THEN c ELSE work.parent[c]
      updated == Updated(work, n, IF negative THEN -distance ELSE distance, from)
  IN  IF \/ n \notin Voxel
         \/ generator = "full" /\ work.parent[c] = Outside
         \/ Candidate(work, c, n, FALSE) >= MaxDistance
         \/ fresh /\ scene[n] = "unobserved"
         \/ crossing /\ ~negative
      THEN work
      ELSE IF fresh THEN Push(updated, candidate, n) ELSE updated

ReachAround(work, c) ==
  LET spread[i \in 0..8] ==
        IF i = 0 THEN work ELSE ReachNeighbor(spread[i - 1], c, Neighbor(c, i))
  IN  spread[8]

\* One cell is taken from the queue, and its neighbours are updated.
Propagate ==
  /\ obstacles = {}
  /\ \E i \in DOMAIN open : open[i] # <<>>
  /\ LET b == Lowest
         c == Head(open[b])
         popped == [field |-> field, parent |-> parent,
                    open |-> [open EXCEPT ![b] = Tail(@)], last |-> b]
     IN  Commit(ReachAround(popped, c))
  /\ UNCHANGED <<generator, scene, obstacles>>

-----------------------------------------------------------------------------
FieldInit ==
  /\ generator \in {"quasi", "full"}
  /\ scene \in Scenes
  /\ obstacles = {c \in Voxel : scene[c] = "occupied"}
  /\ field = [c \in Voxel |-> MaxDistance]
  /\ parent = [c \in Voxel |-> Outside]
  /\ open = [b \in 1..NumBuckets |-> <<>>]
  /\ lastBucket = 1

FieldNext == Propagate \/ \E obstacle \in Voxel : SeedLeaf(obstacle)

FieldSpec == FieldInit /\ [][FieldNext]_fieldVars

-----------------------------------------------------------------------------
(* Properties *)

\* The distance to the closest cell on the other side of the surface.
Opposite(c) == {o \in Voxel : scene[o] = IF scene[c] = "free" THEN "occupied" ELSE "free"}
BruteForce(c) == Min({MaxDistance} \cup {MinDistanceTo(c, o) : o \in Opposite(c)})

\* kMaxRelativeOverEstimate of the generator, in thousandths; a hundredth of a
\* cell for each of the rounded lengths is added.
MaxOverEstimate == IF generator = "quasi" THEN 135 ELSE 10
IsClose(c) == Abs(field[c]) <= BruteForce(c) + (MaxOverEstimate * BruteForce(c)) \div 1000 + 2

(***************************************************************************)
(* At any time: unobserved cells have no value, and those that have one    *)
(* are positive in free and negative in occupied space, as are those that  *)
(* wait in the queue; once all obstacles were seen, the free cells around  *)
(* them are as close as a seed, from which alone the wavefront enters them *)
(* (DCHECK_LE in propagate); no bucket below the one where the queue looks *)
(* next has a cell; and full Euclidean distances are never too small.      *)
(***************************************************************************)
SurfaceIsKept ==
  /\ \A c \in Voxel :
       /\ scene[c] = "unobserved" => field[c] = MaxDistance
       /\ scene[c] = "occupied" => field[c] < 0 \/ field[c] = MaxDistance
       /\ scene[c] = "free" => field[c] >= 0
       /\ generator = "full" => Abs(field[c]) >= BruteForce(c)
  /\ \A b \in 1..NumBuckets : \A i \in DOMAIN open[b] :
       \/ scene[open[b][i]] = "free"
       \/ scene[open[b][i]] = "occupied" /\ field[open[b][i]] < 0
  /\ \A o \in Voxel \ obstacles, i \in 1..8 :
       scene[o] = "occupied" /\ Neighbor(o, i) \in Voxel /\ scene[Neighbor(o, i)] = "free"
         => field[Neighbor(o, i)] <= ToSurface(Neighbor(o, i), o)
  /\ \A b \in 1..lastBucket - 1 : open[b] = <<>>

Done == obstacles = {} /\ \A i \in DOMAIN open : open[i] = <<>>
Observed == \A c \in Voxel : scene[c] # "unobserved"

\* A side, and not only a corner, connects the cell to the other side of the surface.
OnASide(c) == \E o \in Opposite(c) : Distance(c, o) \in {<<0, 1>>, <<1, 0>>}

(***************************************************************************)
(* The finished field has no value in unobserved space, is positive in     *)
(* free space and negative in occupied space near the surface, and never   *)
(* claims a surface to be closer than it is, in whatever order the         *)
(* obstacles were visited.  Where everything is observed it overestimates  *)
(* by no more than the generator's kMaxRelativeOverEstimate: that of the   *)
(* full Euclidean one everywhere, that of the quasi Euclidean one in free  *)
(* space and at the sides of obstacles.  It does not hold for all cells    *)
(* inside obstacles (see OverestimatesAreBounded).                         *)
(***************************************************************************)
DistancesAreClose ==
  Done => \A c \in Voxel :
    IF scene[c] = "unobserved" THEN field[c] = MaxDistance
    ELSE /\ Abs(field[c]) >= BruteForce(c) - 2
         /\ Observed /\ BruteForce(c) < MaxDistance => (field[c] < 0) = (scene[c] = "occupied")
         /\ Observed /\ (generator = "full" \/ scene[c] = "free" \/ OnASide(c)) => IsClose(c)

(***************************************************************************)
(* What kMaxRelativeOverEstimate says and the test of the generators       *)
(* expects of every cell closer to the surface than max_distance, inside   *)
(* obstacles as in free space (test_sdf_generators.cc).                    *)
(***************************************************************************)
OverestimatesAreBounded ==
  Done /\ Observed => \A c \in Voxel : BruteForce(c) < MaxDistance => IsClose(c)
=============================================================================
