----------------------------- MODULE WaveletTree -----------------------------
(***************************************************************************)
(* WaveletOctree (wavelet_octree.cc, wavelet_octree_inl.h): one tree of    *)
(* wavelet coefficients for the whole map, whose origin lies in the middle *)
(* of it, and the update by WaveletIntegrator (wavelet_integrator.cc).     *)
(* Changes are added to the coefficients; nothing is remembered about what *)
(* is left to threshold or prune.                                          *)
(*                                                                         *)
(* The tree is one level higher than the blocks of module Indices, so that *)
(* the nodes below its root are those of the blocks around the origin.     *)
(***************************************************************************)
EXTENDS HaarTransform

CONSTANTS TreeMin, TreeMax,   \* min_log_odds, max_log_odds
          TreeNoise,          \* kNoiseThreshold
          TreeStep,           \* values that are set, added and computed
          TreeWritten,        \* nodes whose value is set or added to
          TreeSeen,           \* nodes that measurements may observe
          TreeBound           \* bound on the mean of the modelled log-odds

ASSUME TreeAssumption ==
  /\ TreeMin \in Int /\ TreeMax \in Int /\ TreeMin < 0 /\ 0 < TreeMax /\ TreeNoise \in Nat
  /\ TreeStep \subseteq Int /\ 0 \in TreeStep
  /\ TreeWritten \cup TreeSeen \subseteq NodeIndex
  /\ Coordinate = -Exp2(MaxHeight)..Exp2(MaxHeight) - 1  \* the cells under the root

VARIABLES scale_coefficient,   \* root_scale_coefficient_
          detail_coefficients, \* the data of each node
          tree_nodes,          \* the nodes of ndtree_, by internal index
          cells                \* history: the values in an array of all cells

treeVars == <<scale_coefficient, detail_coefficients, tree_nodes, cells>>

TreeLevels == MaxHeight + 1  \* tree_height

\* toInternal and toExternalNodeIndex: the root of the tree is at the origin of
\* internal indices, and in the middle of external ones.
RootOffset(height) == DivExp2Floor(Exp2(TreeLevels - 1), height)
ToInternal(n) == Node(n.height, [d \in Axis |-> n.position[d] + RootOffset(n.height)])
ToExternal(n) == Node(n.height, [d \in Axis |-> n.position[d] - RootOffset(n.height)])

TreeRoot == Node(TreeLevels, [d \in Axis |-> 0])
InternalIndex == {TreeRoot} \cup {ToInternal(n) : n \in NodeIndex}
InnerIndex == {n \in InternalIndex : n.height > 0}
Offspring(n) == {ChildIndex(n, c) : c \in Coefficient}
Ancestor(n, h) == ParentIndex(n, h)
AncestorsOf(n) == {Ancestor(n, h) : h \in n.height + 1..TreeLevels}
Which == [n \in InternalIndex |-> RelativeChild(NodeToMorton(n), n.height + 1)]
Over(c, height) == Ancestor(ToInternal(Node(0, c)), height)  \* a cell's ancestor

NoDetails == [i \in Detail |-> 0]
WithScale(scale, n) ==
  [i \in Coefficient |-> IF i = 0 THEN scale ELSE detail_coefficients[n][i]]

TreeInit == /\ scale_coefficient = 0
            /\ detail_coefficients = [n \in InnerIndex |-> NoDetails]
            /\ tree_nodes = {TreeRoot}
            /\ cells = [c \in CellIndex |-> 0]

\* getCellValue, for every index at once.
NodeValueAt ==
  LET value[n \in InternalIndex] ==
        IF n = TreeRoot THEN scale_coefficient
        ELSE LET parent == Ancestor(n, n.height + 1)
             IN  IF parent \in tree_nodes
                 THEN BackwardSingleChild(WithScale(value[parent], parent), Which[n])
                 ELSE value[parent]
  IN  value

HasNodeBelow(n) == Offspring(n) \cap tree_nodes # {}
LimitTo(low, high, v) == IF v < low THEN low ELSE IF high < v THEN high ELSE v

-----------------------------------------------------------------------------
(* Changes *)

\* Bound: every change is one that the arithmetic of the model can halve.
Halves(n, change) == change % Exp2(Dim * (TreeLevels - n.height)) = 0

JustBelow(over) == {n \in InternalIndex \ over : Ancestor(n, n.height + 1) \in over}

\* Changes of the nodes just below over go to all their cells; on the way back
\* up, the coefficients of each node in over collect those of its children.
AddChanges(over, change) ==
  LET sum[n \in over \cup DOMAIN change] ==
        IF n \in over THEN HaarForward([c \in Coefficient |-> sum[ChildIndex(n, c)]])[0]
        ELSE change[n]
      collected(n) == HaarForward([c \in Coefficient |-> sum[ChildIndex(n, c)]])
  IN  /\ \A n \in DOMAIN change : Halves(n, change[n])
      /\ scale_coefficient' = scale_coefficient + sum[TreeRoot]
      /\ detail_coefficients' =
           [n \in InnerIndex |-> IF n \in over
                                 THEN [i \in Detail |-> detail_coefficients[n][i] + collected(n)[i]]
                                 ELSE detail_coefficients[n]]
      /\ cells' = [c \in CellIndex |->
                     cells[c] + change[CHOOSE n \in DOMAIN change : n = Over(c, n.height)]]

\* The value that the integrator takes a node to have: it starts from the scale
\* of the root at each of the children of the root.
ValueBelieved ==
  LET value[n \in InternalIndex] ==
        IF n.height >= TreeLevels - 1 THEN scale_coefficient
        ELSE LET parent == Ancestor(n, n.height + 1)
             IN  HaarBackward(WithScale(value[parent], parent))[Which[n]]
  IN  value

SeenInside == {ToInternal(n) : n \in TreeSeen}
RefinableNodes ==
  {r \in SUBSET (SeenInside \cap InnerIndex) : \A n \in r : AncestorsOf(n) \subseteq r \cup {TreeRoot}}

\* updateMap: from the root down, each node is left as it is, changed as a
\* whole, or refined; all cells that are reached are limited.
IntegrateImage ==
  \E refined \in RefinableNodes :
    LET over == refined \cup {TreeRoot}
        below == JustBelow(over)
        reached_cells == {n \in below : n.height = 0}
    IN  \E stopped \in SUBSET ((below \cap SeenInside) \ reached_cells) :
          \E sample \in [(stopped \cup reached_cells) \cap SeenInside -> TreeStep] :
            LET believed == ValueBelieved
                Sampled(n) == IF n \in SeenInside THEN sample[n] ELSE 0
                Limited(n) == LimitTo(TreeMin - TreeNoise, TreeMax + TreeNoise,
                                      Sampled(n) + believed[n]) - believed[n]
                changed == stopped \cup reached_cells
            IN  /\ \E change \in {[n \in below |-> IF n \notin changed THEN 0
                                              ELSE IF HasNodeBelow(n) THEN Sampled(n)
                                              ELSE Limited(n)]} : AddChanges(over, change)
                /\ tree_nodes' = tree_nodes \cup over

\* From a node up to the root, with the transform of a single child.
AddToNodeValue(n, change) ==
  LET up[h \in n.height..TreeLevels] ==
        IF h = n.height THEN [i \in Coefficient |-> IF i = 0 THEN change ELSE 0]
        ELSE ForwardSingleChild(up[h - 1][0], Which[Ancestor(n, h - 1)])
  IN  /\ Halves(n, change)
      /\ scale_coefficient' = scale_coefficient + up[TreeLevels][0]
      /\ detail_coefficients' =
           [m \in InnerIndex |-> IF m \in AncestorsOf(n)
                                 THEN [i \in Detail |-> detail_coefficients[m][i] + up[m.height][i]]
                                 ELSE detail_coefficients[m]]
      /\ tree_nodes' = tree_nodes \cup AncestorsOf(n)
      /\ cells' = [c \in CellIndex |-> IF n = Over(c, n.height) THEN cells[c] + change ELSE cells[c]]

AddToTree == \E n \in TreeWritten, v \in TreeStep : AddToNodeValue(ToInternal(n), v)

\* setCellValue: what is subtracted is the value of the node's parent.
SetInTree ==
  \E n \in TreeWritten, v \in TreeStep :
    LET current_value == NodeValueAt[Ancestor(ToInternal(n), n.height + 1)]
    IN  AddToNodeValue(ToInternal(n), v - current_value)

\* recursiveThreshold: all that has no node of its own is limited.
LimitTree ==
  LET value == NodeValueAt
  IN  \E change \in {[n \in JustBelow(tree_nodes) |->
                        LimitTo(TreeMin, TreeMax, value[n]) - value[n]]} : AddChanges(tree_nodes, change)

ThresholdTree == LimitTree /\ UNCHANGED tree_nodes

\* recursivePrune: the nodes with details, and all above them.
NodesKept(nodes, details) ==
  {n \in nodes : n = TreeRoot \/ \E m \in nodes : /\ details[m] # NoDetails
                                                   /\ n \in AncestorsOf(m) \cup {m}}

\* prune limits the values as well.
PruneWaveletTree == LimitTree /\ tree_nodes' = NodesKept(tree_nodes, detail_coefficients')

ClearTree == /\ scale_coefficient' = 0
             /\ detail_coefficients' = [n \in InnerIndex |-> NoDetails]
             /\ tree_nodes' = {TreeRoot}
             /\ cells' = [c \in CellIndex |-> 0]

\* Bound: nothing is added to a map whose mean is beyond TreeBound.
TreeInBounds == scale_coefficient \in -TreeBound..TreeBound

TreeNext == \/ TreeInBounds /\ (IntegrateImage \/ AddToTree \/ SetInTree)
            \/ ThresholdTree \/ PruneWaveletTree \/ ClearTree

TreeSpec == TreeInit /\ [][TreeNext]_treeVars

-----------------------------------------------------------------------------
(* What is read *)

\* empty()
TreeIsEmpty == /\ tree_nodes = {TreeRoot} /\ detail_coefficients[TreeRoot] = NoDetails
               /\ scale_coefficient = 0

\* forEachLeaf: the children that have no node.
TreeLeaves ==
  LET scales[n \in InternalIndex] ==
        IF n = TreeRoot THEN scale_coefficient
        ELSE LET parent == Ancestor(n, n.height + 1)
             IN  HaarBackward(WithScale(scales[parent], parent))[Which[n]]
  IN  IF TreeIsEmpty THEN {}
      ELSE {[node |-> ToExternal(n), value |-> scales[n]] :
              n \in (UNION {Offspring(m) : m \in tree_nodes}) \ tree_nodes}

\* getMinIndex and getMaxIndex: of the leaves that are observed.
LowestIndex(leaves) ==
  [d \in Axis |-> IF TreeIsEmpty THEN 0
                  ELSE Min({MaxCornerIndex(TreeRoot)[d] - RootOffset(0)} \cup
                           {MinCornerIndex(leaf.node)[d] : leaf \in {l \in leaves : l.value # 0}})]
HighestIndex(leaves) ==
  [d \in Axis |-> IF TreeIsEmpty THEN 0
                  ELSE Max({MinCornerIndex(TreeRoot)[d] - RootOffset(0)} \cup
                           {MaxCornerIndex(leaf.node)[d] : leaf \in {l \in leaves : l.value # 0}})]

(***************************************************************************)
(* Whatever is integrated, added, set, limited and pruned anywhere in the  *)
(* tree, the coefficients are those of an array of cells around the origin *)
(* in which only the cells below the changed node change: a lookup, the    *)
(* leaf over a cell and the array agree, a map without leaves has only     *)
(* unobserved cells, all variants of the transform are inverse of each     *)
(* other, and the extent of the map is that of its observed cells.         *)
(***************************************************************************)
TreeIsArray ==
  LET value == NodeValueAt
      leaves == TreeLeaves
      observed == {c \in CellIndex : cells[c] # 0}
  IN  /\ \A c \in CellIndex : value[ToInternal(Node(0, c))] = cells[c]
      /\ IF leaves = {} THEN observed = {}
         ELSE \A c \in CellIndex :
                {leaf.value : leaf \in {l \in leaves : l.node = ParentIndex(Node(0, c), l.node.height)}}
                  = {cells[c]}
      /\ \A n \in tree_nodes : TransformsAgree(WithScale(value[n], n))
      /\ observed # {} =>
           \A d \in Axis : /\ LowestIndex(leaves)[d] = Min({c[d] : c \in observed})
                           /\ HighestIndex(leaves)[d] = Max({c[d] : c \in observed})
=============================================================================
