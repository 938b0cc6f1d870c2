----------------------------- MODULE CellOctree -----------------------------
(***************************************************************************)
(* VolumetricOctree (volumetric_octree.cc, volumetric_octree_inl.h): a     *)
(* tree whose nodes store increments.  The coarse-to-fine integrator adds  *)
(* to nodes at any height; getCellValue returns the data of the deepest    *)
(* node alone, forEachLeaf and prune add up the data on the way to it.     *)
(* Binary trees; a node is the path from the root to it.                   *)
(***************************************************************************)
EXTENDS Integers, Sequences, FiniteSets

CONSTANTS OctreeHeight,    \* tree_height
          OctreeMin,       \* min_log_odds
          OctreeMax,       \* max_log_odds
          Delta,          \* increments of the integrators
          UpdatedPath,     \* nodes the integrators update
          MaxIncrement     \* bound on the data of a node

ASSUME OctreeAssumption ==
  /\ OctreeHeight \in Nat \ {0}
  /\ OctreeMin \in Int /\ OctreeMin < 0
  /\ OctreeMax \in Int /\ 0 < OctreeMax
  /\ Delta \subseteq Int

VARIABLES octreeNodes,     \* the paths of the nodes that exist
          octreeData       \* their data; 0 for the others

octreeVars == <<octreeNodes, octreeData>>

OctreePath ==
  {SubSeq(p, 1, n) : p \in [1..OctreeHeight -> {0, 1}], n \in 0..OctreeHeight}
OctreeCell == {p \in OctreePath : Len(p) = OctreeHeight}
WayTo == [p \in OctreePath |-> {SubSeq(p, 1, n) : n \in 0..Len(p)}]
Up(p) == SubSeq(p, 1, Len(p) - 1)

ASSUME UpdatesAssumption == UpdatedPath \subseteq OctreePath

ClampOdds(v) == IF v < OctreeMin THEN OctreeMin ELSE IF v > OctreeMax THEN OctreeMax ELSE v

HasSubnodes(p) == \E c \in octreeNodes : Len(c) > 0 /\ Up(c) = p

\* The deepest node on the way to a cell.
Deepest(c) == CHOOSE p \in WayTo[c] \cap octreeNodes :
                \A q \in WayTo[c] \cap octreeNodes : Len(q) <= Len(p)

CellValue(c) == octreeData[Deepest(c)]

\* node_value: the sum of the data from the root down.
NodeValues ==
  LET sum[p \in OctreePath] ==
        octreeData[p] + (IF p = <<>> THEN 0 ELSE sum[Up(p)])
  IN sum

-----------------------------------------------------------------------------
OctreeInit == octreeNodes = {<<>>} /\ octreeData = [p \in OctreePath |-> 0]

AddToNode(p, u) ==
  /\ octreeData[p] + u \in -MaxIncrement..MaxIncrement
  /\ octreeNodes' = octreeNodes \cup WayTo[p]
  /\ octreeData' = [octreeData EXCEPT ![p] = @ + u]

SetNode(p, v) ==
  /\ octreeNodes' = octreeNodes \cup WayTo[p]
  /\ octreeData' = [octreeData EXCEPT ![p] = v]

\* Mutant: the value of an inner node only reaches the children it has.
VisitedByPruneIfPresent(value) == octreeNodes

\* The nodes prune visits: it allocates the missing children of an inner node
\* whose value is not zero.
VisitedByPrune(value) ==
  octreeNodes \cup {p \in OctreePath : /\ Len(p) > 0
                                       /\ HasSubnodes(Up(p))
                                       /\ value[Up(p)] # 0}

\* What prune makes of a node, children first: an inner node whose children are
\* identical leaves takes the value of the first one (the value of the inner
\* node itself is added once more, though it is in the child's already); other
\* inner nodes become 0, and leaves take their value.
PrunedNodes(value, visited) ==
  LET pruned[p \in OctreePath] ==
        LET child(i) == p \o <<i>>
            childData(i) == IF child(i) \in visited THEN pruned[child(i)].data ELSE 0
            first == ClampOdds(value[p] + childData(0))
        IN IF ~HasSubnodes(p)
             THEN [leaf |-> TRUE, data |-> ClampOdds(value[p])]
           ELSE IF \A i \in {0, 1} :
                     /\ child(i) \in visited => pruned[child(i)].leaf
                     /\ childData(i) = first
             THEN [leaf |-> TRUE, data |-> first]
           ELSE [leaf |-> FALSE, data |-> 0]
  IN pruned

PruneOctree ==
  LET value == NodeValues
      visited == VisitedByPrune(value)
      pruned == PrunedNodes(value, visited)
  IN /\ octreeNodes' = {p \in visited : \A q \in WayTo[p] \ {p} : ~pruned[q].leaf}
     /\ octreeData' = [p \in OctreePath |-> IF p \in octreeNodes' THEN pruned[p].data ELSE 0]

ClearOctree == octreeNodes' = {<<>>} /\ octreeData' = [p \in OctreePath |-> 0]

OctreeNext == \/ \E p \in UpdatedPath, u \in Delta : AddToNode(p, u)
              \/ \E c \in UpdatedPath \cap OctreeCell, u \in Delta : SetNode(c, u)
              \/ PruneOctree
              \/ ClearOctree

OctreeSpec == OctreeInit /\ [][OctreeNext]_octreeVars

-----------------------------------------------------------------------------
(* Properties *)

(***************************************************************************)
(* Pruning keeps what forEachLeaf reports of every cell, up to the limits, *)
(* and from then on getCellValue reports the same.  Before it,             *)
(* getCellValue leaves out what was added to the ancestors of the deepest  *)
(* node.                                                                   *)
(***************************************************************************)
PruneKeepsLeaves ==
  [][PruneOctree =>
       \A c \in OctreeCell : /\ CellValue(c)' = ClampOdds(NodeValues[c])
                             /\ NodeValues[c]' = ClampOdds(NodeValues[c])]_octreeVars
=============================================================================
