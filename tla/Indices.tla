------------------------------- MODULE Indices -------------------------------
(***************************************************************************)
(* Indices of cells and nodes in Dim dimensions, negative ones included,   *)
(* and their Morton codes (core/indexing, utils/bits, utils/math): how the *)
(* maps find the block of a node, the way down to it, and its place in a   *)
(* chunk.                                                                  *)
(*                                                                         *)
(* `>>` of a negative number rounds down, as \div does, and `&` with a     *)
(* mask of low bits is the remainder that % gives.  Coordinates have Word  *)
(* bits, of which Morton codes keep all: IndexElement has 32, and the      *)
(* codes of three dimensions keep 21 (kMaxTreeHeight).                     *)
(***************************************************************************)
EXTENDS Integers, FiniteSetsExt

CONSTANTS Dim,        \* number of dimensions
          MaxHeight,  \* height of the tree of a block
          Word,       \* bits of a coordinate
          Coordinate  \* those of the cells that are used

ASSUME IndexAssumption ==
  /\ Dim \in Nat \ {0} /\ MaxHeight \in Nat \ {0} /\ Word \in Nat /\ MaxHeight <= Word
  /\ Coordinate \subseteq -2^(Word - 1)..2^(Word - 1) - 1

\* The provers know nothing of powers but this.
ASSUME IndexPowers ==
  /\ 2^0 = 1
  /\ \A n \in 0..(Word + MaxHeight) * Dim : 2^n \in Nat \ {0} /\ 2^(n + 1) = 2 * 2^n
  /\ 2^(Word - 1) \in Nat

Axis == 1..Dim
CellIndex == [Axis -> Coordinate]

-----------------------------------------------------------------------------
(* int_math and bit_ops *)

Exp2(n) == 2^n

DivExp2Floor(value, exp) == value \div Exp2(exp)
DivExp2Remainder(value, exp) == value % Exp2(exp)
\* Mutant: the height of the first difference is rounded down.
DivRoundDown(n, d) == n \div d

DivRoundUp(n, d) == (n + d - 1) \div d
IsBitSet(bits, i) == (bits \div Exp2(i)) % 2 = 1

\* How many of the lowest bits the differing ones are among: digits - clz.
BitsToDiffer(first, second) ==
  CHOOSE k \in 0..(Word + MaxHeight) * Dim :
    /\ DivExp2Floor(first, k) = DivExp2Floor(second, k)
    /\ k > 0 => DivExp2Floor(first, k - 1) # DivExp2Floor(second, k - 1)

-----------------------------------------------------------------------------
(* Morton codes *)

\* The number of which these bits are set, of n.
FromBits(n, set) ==
  LET sum[k \in 0..n] ==
        IF k = 0 THEN 0 ELSE sum[k - 1] + IF k - 1 \in set THEN Exp2(k - 1) ELSE 0
  IN  sum[n]

\* One bit of each coordinate after the other.
Encode(position) ==
  FromBits(Word * Dim,
           {i \in 0..Word * Dim - 1 : IsBitSet(position[(i % Dim) + 1], i \div Dim)})

\* Signs are not preserved.
Decode(morton) ==
  [d \in Axis |-> FromBits(Word, {b \in 0..Word - 1 : IsBitSet(morton, b * Dim + d - 1)})]

-----------------------------------------------------------------------------
(* NdtreeIndex *)

Node(height, position) == [height |-> height, position |-> position]

NodeToMorton(n) == Encode(n.position) * Exp2(n.height * Dim)

ParentIndex(n, height) ==
  Node(height, [d \in Axis |-> DivExp2Floor(n.position[d], height - n.height)])

ChildIndex(n, child) ==
  Node(n.height - 1,
       [d \in Axis |-> 2 * n.position[d] + IF IsBitSet(child, d - 1) THEN 1 ELSE 0])

RelativeChild(morton, parent_height) ==
  DivExp2Remainder(DivExp2Floor(morton, (parent_height - 1) * Dim), Dim)

MinCornerIndex(n) == [d \in Axis |-> n.position[d] * Exp2(n.height)]
MaxCornerIndex(n) == [d \in Axis |-> MinCornerIndex(n)[d] + Exp2(n.height) - 1]

CommonAncestorHeight(first, first_height, second, second_height) ==
  LET older == IF first_height < second_height THEN second_height ELSE first_height
      differ == DivRoundUp(BitsToDiffer(first, second), Dim)
  IN  IF first = second \/ differ < older THEN older ELSE differ

\* Nodes of a perfect tree of this height, without its lowest level.
NumTotalNodes(height) == (Exp2(Dim * height) - 1) \div (Exp2(Dim) - 1)

LevelDistance(morton, parent_height, child_height) ==
  DivExp2Remainder(DivExp2Floor(morton, child_height * Dim), (parent_height - child_height) * Dim)

TreeDistance(morton, parent_height, child_height) ==
  NumTotalNodes(parent_height - child_height) + LevelDistance(morton, parent_height, child_height)

-----------------------------------------------------------------------------
(* Blocks of a hash (ndtree_block_hash_inl.h) *)

NodeIndex == UNION {{ParentIndex(Node(0, c), h) : c \in CellIndex} : h \in 0..MaxHeight}

IndexToBlockIndex(n) == ParentIndex(n, MaxHeight).position

IndexToCellIndex(n) ==
  Node(n.height, [d \in Axis |-> DivExp2Remainder(n.position[d], MaxHeight - n.height)])

CellAndBlockIndexToIndex(block, cell) ==
  Node(cell.height,
       [d \in Axis |-> cell.position[d] + Exp2(MaxHeight - cell.height) * block[d]])

-----------------------------------------------------------------------------
(* The way down to a node, with another one on the side *)

VARIABLES target, other,  \* nodes of the same block
          reached         \* the node that the descent has come to

indexVars == <<target, other, reached>>

IndexInit ==
  /\ target \in NodeIndex
  /\ other \in {n \in NodeIndex : IndexToBlockIndex(n) = IndexToBlockIndex(target)}
  /\ reached = Node(MaxHeight, IndexToBlockIndex(target))

\* getNode, and the index that a traversal gives to the node.
Descend ==
  /\ reached.height > target.height
  /\ reached' = ChildIndex(reached,
                  RelativeChild(NodeToMorton(IndexToCellIndex(target)), reached.height))
  /\ UNCHANGED <<target, other>>

IndexSpec == IndexInit /\ [][Descend]_indexVars

(***************************************************************************)
(* The Morton code of a node's index in its block leads to the node that   *)
(* traversals give this index, on either side of the origin, past all its  *)
(* ancestors; two nodes part where their common ancestor is said to be,    *)
(* have different places in a chunk, and codes that can be decoded.        *)
(***************************************************************************)
DescentsAreRight ==
  LET cell(n) == IndexToCellIndex(n)
      m(n) == NodeToMorton(cell(n))
      common == CommonAncestorHeight(m(target), target.height, m(other), other.height)
      Shared(h) == ParentIndex(target, h) = ParentIndex(other, h)
  IN  /\ reached = ParentIndex(target, reached.height)
      /\ CellAndBlockIndexToIndex(IndexToBlockIndex(target), cell(target)) = target
      /\ Shared(common)
      /\ \A h \in 0..common - 1 : target.height <= h /\ other.height <= h => ~Shared(h)
      /\ TreeDistance(m(target), MaxHeight, target.height)
           = TreeDistance(m(other), MaxHeight, other.height) => target = other
      /\ Decode(Encode(cell(target).position)) = cell(target).position
=============================================================================
