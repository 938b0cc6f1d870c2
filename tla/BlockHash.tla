------------------------------ MODULE BlockHash ------------------------------
(***************************************************************************)
(* Maps that keep their cells in hashed blocks: the hashed wavelet octrees *)
(* (hashed_wavelet_octree*.h), the dense HashedBlocks (dense_block_hash.h) *)
(* and the hash of trees of the classified map (ndtree_block_hash.h), all  *)
(* on top of SpatialHash.                                                  *)
(*                                                                         *)
(* A block is a partial function from the indices in it to values.  Of a   *)
(* wavelet block it has the cells that its tree has nodes for (module      *)
(* WaveletBlock is about the tree), of a dense one all cells, and of a     *)
(* tree its nodes, all of which have data.                                 *)
(***************************************************************************)
EXTENDS Indices, Functions

CONSTANTS WrittenNode,  \* the indices that are written
          WrittenValue, \* values that are set or added
          LowOdds, HighOdds,
          UnusedFor,    \* only_prune_blocks_if_unused_for
          MaxTime, MaxValue \* bounds on time and values

ASSUME HashAssumption ==
  /\ WrittenNode \subseteq NodeIndex
  /\ WrittenValue \subseteq Int
  /\ LowOdds \in Int /\ LowOdds < 0
  /\ HighOdds \in Int /\ 0 < HighOdds
  /\ UnusedFor \in Nat

VARIABLES layout,     \* the kind of map
          block_map,  \* its blocks
          updated,    \* when a wavelet block was last updated
          time,
          held        \* history: the values in an array of all indices

hashVars == <<layout, block_map, updated, time, held>>

Layout == {"wavelet", "dense", "tree"}

\* The maps have values in cells, the hash of trees in all nodes.
IndicesOf(l) == IF l = "tree" THEN NodeIndex ELSE {n \in NodeIndex : n.height = 0}
IndicesIn(block) == {n \in IndicesOf(layout) : IndexToBlockIndex(n) = block}

Empty == [b \in {} |-> 0]

HashInit == /\ layout \in Layout
            /\ block_map = Empty /\ updated = Empty
            /\ time = 0
            /\ held = [n \in IndicesOf(layout) |-> 0]

-----------------------------------------------------------------------------
(* Lookups; the default value is zero *)

ValueOrDefault(n) ==
  LET b == IndexToBlockIndex(n)
      cell == IndexToCellIndex(n)
  IN  IF b \in DOMAIN block_map /\ cell \in DOMAIN block_map[b] THEN block_map[b][cell] ELSE 0

\* getMinIndex and getMaxIndex: of all cells of the blocks, zero without any.
BlockCoordinates(d) == {b[d] : b \in DOMAIN block_map}

MinIndex == [d \in Axis |-> IF block_map = Empty THEN 0
                            ELSE Exp2(MaxHeight) * Min(BlockCoordinates(d))]

MaxIndex == [d \in Axis |-> IF block_map = Empty THEN 0
                            ELSE Exp2(MaxHeight) * (Max(BlockCoordinates(d)) + 1) - 1]

-----------------------------------------------------------------------------
(* Updates *)

NewBlock(b) ==
  IF layout = "dense" THEN [cell \in {IndexToCellIndex(n) : n \in IndicesIn(b)} |-> 0]
  ELSE IF layout = "tree" THEN [cell \in {IndexToCellIndex(Node(MaxHeight, b))} |-> 0]
  ELSE Empty

\* getOrAllocateBlock, then the node and, in a tree, what is missing above it.
Allocated(n) ==
  LET b == IndexToBlockIndex(n)
      block == IF b \in DOMAIN block_map THEN block_map[b] ELSE NewBlock(b)
      above == {IndexToCellIndex(ParentIndex(n, h)) :
                  h \in n.height..IF layout = "tree" THEN MaxHeight ELSE 0}
  IN  [cell \in DOMAIN block \cup above |-> IF cell \in DOMAIN block THEN block[cell] ELSE 0]

Store(n, value) ==
  LET b == IndexToBlockIndex(n)
  IN  /\ block_map' = [c \in DOMAIN block_map \cup {b} |->
                         IF c = b THEN [Allocated(n) EXCEPT ![IndexToCellIndex(n)] = value]
                         ELSE block_map[c]]
      /\ updated' = [c \in DOMAIN updated \cup {b} |-> IF c = b THEN time ELSE updated[c]]
      /\ UNCHANGED <<layout, time>>

Limited(v) == IF v < LowOdds THEN LowOdds ELSE IF HighOdds < v THEN HighOdds ELSE v

\* setCellValue of HashedBlocks, and what is written through getOrAllocateValue.
WriteValue ==
  /\ layout # "wavelet"
  /\ \E n \in WrittenNode \cap IndicesOf(layout), v \in WrittenValue :
       /\ Store(n, v)
       /\ held' = [held EXCEPT ![n] = v]

\* Of a wavelet tree a node has the average of the cells below it.
IsParentValue(x, n) ==
  LET siblings == {m \in DOMAIN held : ParentIndex(m, 1) = ParentIndex(n, 1)}
  IN  Exp2(Dim) * x = MapThenSumSet(ValueOrDefault, siblings)

(***************************************************************************)
(* setCellValue of a wavelet block adds the difference of the new value to *)
(* that of the cell's parent, where its walk stops, and not to that of the *)
(* cell (SetCellSetsIt of module WaveletBlock).                            *)
(***************************************************************************)
SetHashedCell ==
  /\ layout = "wavelet"
  /\ \E n \in WrittenNode \cap IndicesOf(layout), v \in WrittenValue, parent \in -MaxValue..MaxValue :
       /\ IsParentValue(parent, n)
       /\ ValueOrDefault(n) + v - parent \in -MaxValue..MaxValue
       /\ Store(n, ValueOrDefault(n) + v - parent)
       /\ held' = [held EXCEPT ![n] = @ + v - parent]

\* addToCellValue; only HashedBlocks limit the sum at once.
AddToValue ==
  /\ layout # "tree"
  /\ \E n \in WrittenNode \cap IndicesOf(layout), v \in WrittenValue :
       LET Sum(old) == IF layout = "dense" THEN Limited(old + v) ELSE old + v
       IN  /\ Sum(ValueOrDefault(n)) \in -MaxValue..MaxValue
           /\ Store(n, Sum(ValueOrDefault(n)))
           /\ held' = [held EXCEPT ![n] = Sum(@)]

Keep(blocks) ==
  /\ block_map' = Restrict(block_map, blocks)
  /\ updated' = Restrict(updated, blocks)
  /\ UNCHANGED <<layout, time>>

\* eraseBlock, eraseBlockIf and clear.
EraseBlocks ==
  \E erased \in SUBSET DOMAIN block_map :
    /\ Keep(DOMAIN block_map \ erased)
    /\ held' = [n \in DOMAIN held |-> IF IndexToBlockIndex(n) \in erased THEN 0 ELSE held[n]]

\* HashedBlocks need no threshold.
ThresholdMap ==
  /\ layout = "wavelet"
  /\ block_map' = [b \in DOMAIN block_map |->
                     [cell \in DOMAIN block_map[b] |-> Limited(block_map[b][cell])]]
  /\ held' = [n \in DOMAIN held |-> Limited(held[n])]
  /\ UNCHANGED <<layout, updated, time>>

\* Mutant: a block is empty when its first cell is.
EmptyBlockByFirst(block) ==
  DOMAIN block = {} \/ (layout = "dense" /\ block[Node(0, [d \in Axis |-> 0])] = 0)

\* What prune() of a block leaves, and whether the block is then erased.
PrunedBlock(block) == IF layout = "dense" THEN block
                      ELSE Restrict(block, {cell \in DOMAIN block : block[cell] # 0})
EmptyBlock(block) ==
  \/ DOMAIN block = {}
  \/ layout = "dense" /\ \A cell \in DOMAIN block : block[cell] = 0

PruneBlocks(which) ==
  LET after == [b \in DOMAIN block_map |-> IF b \in which THEN PrunedBlock(block_map[b])
                                           ELSE block_map[b]]
      kept == {b \in DOMAIN after : ~EmptyBlock(after[b])}
  IN  /\ layout # "tree"
      /\ block_map' = Restrict(after, kept)
      /\ updated' = Restrict(updated, kept)
      /\ UNCHANGED <<layout, time, held>>

PruneMap == PruneBlocks(DOMAIN block_map)

\* Blocks in use keep their nodes, but are erased when they are empty.
PruneSmart == PruneBlocks({b \in DOMAIN block_map :
                             layout = "dense" \/ UnusedFor < time - updated[b]})

TimePassesBy == /\ time < MaxTime
                /\ time' = time + 1
                /\ UNCHANGED <<layout, block_map, updated, held>>

HashNext == \/ WriteValue \/ SetHashedCell \/ AddToValue \/ EraseBlocks
            \/ ThresholdMap \/ PruneMap \/ PruneSmart \/ TimePassesBy

HashSpec == HashInit /\ [][HashNext]_hashVars

-----------------------------------------------------------------------------
(* Leaves *)

\* forEachLeaf: a node's missing children have its value, once it has any
\* child; a node without children is a leaf itself.
Leaves ==
  LET Children(n) == {ChildIndex(n, c) : c \in 0..Exp2(Dim) - 1}
      There(n) == n.height >= 0 /\ IndexToCellIndex(n) \in DOMAIN block_map[IndexToBlockIndex(n)]
      Inner(n) == n.height > 0 /\ \E child \in Children(n) : There(child)
      nodes(b) == {n \in IndicesIn(b) : There(n)}
  IN  UNION {IF layout # "tree" THEN {[node |-> n, value |-> ValueOrDefault(n)] : n \in IndicesIn(b)}
             ELSE UNION {IF Inner(n)
                         THEN {[node |-> child, value |-> ValueOrDefault(n)] :
                                 child \in {c \in Children(n) : ~There(c)}}
                         ELSE {[node |-> n, value |-> ValueOrDefault(n)]} : n \in nodes(b)}
               : b \in DOMAIN block_map}

(***************************************************************************)
(* A map of blocks is an array of all indices: what an operation leaves at *)
(* an index on either side of the origin (the new value, or the old one    *)
(* and a difference) is there until its block is erased, nothing else      *)
(* changes with it, and pruning does not show.                             *)
(***************************************************************************)
LookupsAreRight == \A n \in DOMAIN held : ValueOrDefault(n) = held[n]

\* The extent of the map covers what it holds, and no row or column of blocks
\* that it does not have.
ExtentIsTight ==
  /\ \A n \in {m \in DOMAIN held : held[m] # 0} :
       \A d \in Axis : MinIndex[d] <= MinCornerIndex(n)[d] /\ MaxCornerIndex(n)[d] <= MaxIndex[d]
  /\ block_map # Empty =>
       \A d \in Axis : \A corner \in {MinIndex, MaxIndex} :
         \E b \in DOMAIN block_map : DivExp2Floor(corner[d], MaxHeight) = b[d]

\* Each cell of a block is below one leaf, of which the value is that of the
\* last node on the way down to the cell.
LeavesPartition ==
  LET leaves == Leaves
  IN  \A b \in DOMAIN block_map : \A c \in {n \in IndicesIn(b) : n.height = 0} :
        LET over == {leaf \in leaves : leaf.node = ParentIndex(c, leaf.node.height)}
            on_the_way == {h \in 0..MaxHeight : IndexToCellIndex(ParentIndex(c, h)) \in DOMAIN block_map[b]}
        IN  /\ Cardinality(over) = 1
            /\ layout = "tree" => \A leaf \in over :
                 leaf.value = held[ParentIndex(c, Min(on_the_way))]

(***************************************************************************)
(* Whatever is written, added, limited, pruned and erased in blocks around *)
(* the origin, the map reads as an array to which the same was done, and   *)
(* its extent and its leaves cover the blocks.  What setCellValue does to  *)
(* a cell of a wavelet map is to add the new value less the parent's.      *)
(***************************************************************************)
HashIsGrid == LookupsAreRight /\ ExtentIsTight /\ LeavesPartition
=============================================================================
