----------------------------- MODULE MapQueries -----------------------------
(***************************************************************************)
(* Queries that start from where the last one ended: the accelerators of   *)
(* the map types (query_accelerator.cc, query_accelerator_inl.h) and the   *)
(* classified map with its own cache (classified_map.cc).                  *)
(*                                                                         *)
(* A behaviour uses one of them.  A pointer to a node is its number, and 0 *)
(* is the null pointer.                                                    *)
(***************************************************************************)
EXTENDS WaveletTrees

CONSTANTS FreeThreshold, Unobserved,  \* the classifier's occupancy threshold, and the
                                      \* bound below which a value is unobserved
          QueryMask,                  \* the occupancy masks that are asked for
          NearCells,                  \* sets of cells that may be near an obstacle
          Allocatable                 \* the nodes that users allocate in an ndtree

Class == {"free", "occupied", "unobserved"}

ASSUME QueryAssumption ==
  /\ "none" \notin Block
  /\ QueryMask \subseteq SUBSET Class /\ NearCells \subseteq SUBSET TreeCell
  /\ Allocatable \subseteq TreeIndex

VARIABLES mode,        \* the accelerator that is used
          occupancy,   \* the trees of the occupancy map
          allocated,   \* the nodes of an ndtree block hash
          classified,  \* the nodes and masks of the classified map
          cells_are,   \* history: the class of each cell at the last update
          cache,       \* what is remembered of the last query
          answer       \* the last query and what it returned

queryVars == <<mode, occupancy, allocated, classified, cells_are, cache, answer>>

OccupancyMaps == UNION {[B -> Trees] : B \in SUBSET Block}

EmptyCache == [block |-> "none", loaded |-> FALSE, height |-> TreeHeight, code |-> 0,
               stack |-> [h \in 0..TreeHeight |-> 0],
               values |-> [h \in 0..TreeHeight |-> 0]]
NoAnswer == [op |-> "none"]

\* reset().
Forget == cache' = EmptyCache /\ answer' = NoAnswer

QueriesInit ==
  /\ mode \in {"values", "nodes", "classes"}
  /\ occupancy = <<>> /\ allocated = <<>> /\ classified = <<>> /\ cells_are = <<>>
  /\ cache = EmptyCache
  /\ answer = NoAnswer

-----------------------------------------------------------------------------
(* Indices: the Morton code of an index is that of the first cell below it *)

Code(n) == n * Exp2(HeightOf(n))
ChildAt(code, parent_height) == (code \div Exp2(parent_height - 1)) % 2

\* Mutant: the heights of the two indices are left out.
CommonAncestorOfCells(first, first_height, second, second_height) ==
  CHOOSE h \in 0..TreeHeight :
    /\ first \div Exp2(h) = second \div Exp2(h)
    /\ \A g \in 0..h - 1 : first \div Exp2(g) # second \div Exp2(g)

LastCommonAncestor(first, first_height, second, second_height) ==
  CHOOSE h \in 0..TreeHeight :
    /\ {first_height, second_height} \subseteq 0..h /\ first \div Exp2(h) = second \div Exp2(h)
    /\ \A g \in 0..h - 1 : \/ ~({first_height, second_height} \subseteq 0..g)
                           \/ first \div Exp2(g) # second \div Exp2(g)

\* The child that a query passes through, if it is allocated.
ChildIn(nodes, parent, code, parent_height) ==
  LET child == 2 * parent + ChildAt(code, parent_height)
  IN  IF child \in nodes THEN child ELSE 0

Asked(op, b, n, mask, result) ==
  answer' = [op |-> op, block |-> b, index |-> n, mask |-> mask, result |-> result]

-----------------------------------------------------------------------------
(* Values: QueryAccelerator<Hashed(Chunked)WaveletOctree>::getCellValue *)

\* One level further down, unless the walk ends here.
ValueStep(tree, height, s) ==
  LET parent == s.stack[s.height]
      half == Half(tree, parent)
      value == s.values[s.height] + (IF ChildAt(s.code, s.height) = 0 THEN -half ELSE half)
  IN  IF parent = 0 \/ s.height = height THEN s
      ELSE [s EXCEPT !.height = @ - 1,
                     !.stack[s.height - 1] = ChildIn(tree.nodes, parent, s.code, s.height),
                     !.values[s.height - 1] = value]

ValueWalk(tree, height, from) ==
  LET walk[k \in 0..TreeHeight] ==
        IF k = 0 THEN from ELSE ValueStep(tree, height, walk[k - 1])
  IN  walk[TreeHeight]

\* The node at the height of the last query is loaded again from its parent.
Reloaded(tree, s) ==
  IF cache.height # TreeHeight /\ s.height = cache.height
  THEN [s EXCEPT !.stack[s.height] =
                   ChildIn(tree.nodes, s.stack[s.height + 1], s.code, s.height + 1)]
  ELSE s

UnknownValue(b, n) ==
  LET now == [cache EXCEPT !.block = b, !.code = Code(n)]
  IN  \/ /\ b = cache.block /\ cache.stack[TreeHeight] = 0
         /\ cache' = now /\ Asked("value", b, n, {}, 0)
      \/ /\ b # cache.block /\ b \notin DOMAIN occupancy
         /\ cache' = [now EXCEPT !.stack[TreeHeight] = 0, !.values[TreeHeight] = 0,
                                 !.height = TreeHeight]
         /\ Asked("value", b, n, {}, 0)

KnownValue(b, n) ==
  /\ b \in DOMAIN occupancy
  /\ b = cache.block => cache.stack[TreeHeight] # 0
  /\ LET height == HeightOf(n)
         code == Code(n)
         now == [cache EXCEPT !.block = b, !.code = code]
         start == IF b = cache.block
                  THEN [now EXCEPT !.height = LastCommonAncestor(code, height, cache.code,
                                                                 cache.height)]
                  ELSE [now EXCEPT !.stack[TreeHeight] = 1,
                                   !.values[TreeHeight] = occupancy[b].scale,
                                   !.height = TreeHeight]
         end == IF start.height = height THEN start
                ELSE ValueWalk(occupancy[b], height, Reloaded(occupancy[b], start))
     IN  cache' = end /\ Asked("value", b, n, {}, end.values[end.height])

GetCellValue ==
  /\ mode = "values"
  /\ \E b \in Block, n \in TreeIndex : UnknownValue(b, n) \/ KnownValue(b, n)
  /\ UNCHANGED <<mode, occupancy, allocated, classified, cells_are>>

\* Whoever changes the map resets the accelerator (query_accelerator.h:101).
ChangeMap ==
  /\ mode = "values"
  /\ occupancy' \in OccupancyMaps
  /\ Forget
  /\ UNCHANGED <<mode, allocated, classified, cells_are>>

-----------------------------------------------------------------------------
(* Nodes: QueryAccelerator<NdtreeBlockHash>, and the classified map's cache *)

\* getBlock; the cells of an ndtree are nodes as well.
Opened(b, n, blocks) ==
  LET now == [cache EXCEPT !.code = Code(n)]
  IN  IF b = cache.block THEN now
      ELSE [now EXCEPT !.block = b, !.height = TreeHeight, !.loaded = b \in blocks,
                       !.stack[TreeHeight] = IF b \in blocks THEN 1 ELSE @]

\* From where the walk starts.
Resumed(s, n) ==
  IF s.height = TreeHeight THEN s
  ELSE [s EXCEPT !.height = LastCommonAncestor(s.code, HeightOf(n), cache.code, cache.height)]

NodeStep(nodes, height, s) ==
  LET child == ChildIn(nodes, s.stack[s.height], s.code, s.height)
  IN  IF s.height <= height \/ child = 0 THEN s
      ELSE [s EXCEPT !.height = @ - 1, !.stack[s.height - 1] = child]

NodeWalk(nodes, height, from) ==
  LET walk[k \in 0..TreeHeight] ==
        IF k = 0 THEN from ELSE NodeStep(nodes, height, walk[k - 1])
  IN  walk[TreeHeight]

\* getNode, or getNodeOrAncestor of the classified map: 0 without the block.
NodeFound(s, nodes, n) ==
  IF ~s.loaded THEN s ELSE NodeWalk(nodes, HeightOf(n), Resumed(s, n))

Found(s) == IF s.loaded THEN s.stack[s.height] ELSE 0

GetNode ==
  /\ mode = "nodes"
  /\ \E b \in Block, n \in TreeIndex :
       LET s == Opened(b, n, DOMAIN allocated)
           end == NodeFound(s, IF s.loaded THEN allocated[b] ELSE {}, n)
       IN  cache' = end /\ Asked("node", b, n, {}, Found(end))
  /\ UNCHANGED <<mode, occupancy, allocated, classified, cells_are>>

\* getOrAllocateBlock.
OpenedOrAllocated(b, n) ==
  IF b = cache.block /\ cache.loaded THEN [cache EXCEPT !.code = Code(n)]
  ELSE [cache EXCEPT !.code = Code(n), !.block = b, !.height = TreeHeight, !.loaded = TRUE,
                     !.stack[TreeHeight] = 1]

GetOrAllocateNode ==
  /\ mode = "nodes"
  /\ \E b \in Block, n \in Allocatable :
       LET s == Resumed(OpenedOrAllocated(b, n), n)
           end == NodeWalk(TreeIndex, HeightOf(n), s)
           old == IF b \in DOMAIN allocated THEN allocated[b] ELSE {1}
           new == old \cup {end.stack[h] : h \in end.height..s.height}
       IN  /\ cache' = end
           /\ allocated' = [c \in DOMAIN allocated \cup {b} |-> IF c = b THEN new ELSE allocated[c]]
           /\ Asked("allocate", b, n, {}, Found(end))
  /\ UNCHANGED <<mode, occupancy, classified, cells_are>>

-----------------------------------------------------------------------------
(* The classified map *)

ClassOf(value) == IF -Unobserved < value /\ value < Unobserved THEN "unobserved"
                  ELSE IF value < FreeThreshold THEN "free" ELSE "occupied"

\* recursiveClassifier: the children that it descends into. With a distance
\* field, free regions are resolved down to its cells.
Descends(tree, with_esdf, n) ==
  n \in TreeNode /\ (n \in tree.nodes \/ (with_esdf /\ ClassOf(Scales(tree)[n]) = "free"))

\* Mutant: a child that has two of the classes is erased like one that has one.
HomogeneousUnlessAll(mask) == Cardinality(mask) # 3

Homogeneous(mask) == Cardinality(mask) = 1

\* The classes below each index, as far as the update descends.
ClassMasks(tree, with_esdf, near) ==
  LET scales == Scales(tree)
      mask[n \in TreeIndex] ==
        IF n = 1 \/ Descends(tree, with_esdf, n) THEN mask[2 * n] \cup mask[2 * n + 1]
        ELSE IF n \in near /\ ClassOf(scales[n]) = "free" THEN {"occupied"}
        ELSE {ClassOf(scales[n])}
  IN  mask

\* The classified tree after an update, given what it was. What it held below
\* a node that the occupancy map has no more stays, and is not updated.
Reclassified(tree, with_esdf, near, old) ==
  LET mask == ClassMasks(tree, with_esdf, near)
      Kept(n) == IF Descends(tree, with_esdf, n) THEN ~Homogeneous(mask[n]) ELSE n \in old.nodes
      nodes == {n \in TreeNode : \A a \in UpFrom(n) \ {1} : Kept(a)}
      Visited(n) == \A a \in UpFrom(n) \ {1, n} : Descends(tree, with_esdf, a)
  IN  [nodes |-> nodes,
       masks |-> [n \in TreeIndex \ {1} |-> IF n \div 2 \notin nodes THEN {}
                                            ELSE IF Visited(n) THEN mask[n] ELSE old.masks[n]]]

ClassOfCell(tree, near, c) ==
  LET class == ClassOf(CellsOf(tree)[c])
  IN  IF c \in near /\ class = "free" THEN "occupied" ELSE class

FreshClasses == [nodes |-> {1}, masks |-> [n \in TreeIndex \ {1} |-> {}]]

\* update(), with the blocks of the occupancy map as they are by then; the
\* second form also takes a distance field.
Update ==
  /\ mode = "classes"
  /\ \E map \in OccupancyMaps, with_esdf \in BOOLEAN, near \in NearCells :
       /\ ~with_esdf => near = {}
       /\ classified' =
            [b \in DOMAIN map |->
               Reclassified(map[b], with_esdf, near,
                            IF b \in DOMAIN classified THEN classified[b] ELSE FreshClasses)]
       /\ cells_are' = [b \in DOMAIN map |-> [c \in TreeCell |-> ClassOfCell(map[b], near, c)]]
  /\ Forget
  /\ UNCHANGED <<mode, occupancy, allocated>>

HasAny(region, mask) == region \cap mask # {}
IsAll(region, mask) == region \subseteq mask

\* The child of the cached node that a query passes through.
Region(s) == 2 * s.stack[s.height] + ChildAt(s.code, s.height)

RegionStep(tree, height, mask, s) ==
  LET region == tree.masks[Region(s)]
      decided == IsAll(region, mask) \/ ~HasAny(region, mask)
  IN  IF decided \/ s.height - 1 = height \/ Region(s) \notin tree.nodes THEN s
      ELSE [s EXCEPT !.height = @ - 1, !.stack[s.height - 1] = Region(s)]

\* The loop of has() and isFully(): down to where the mask decides.
RegionWalk(tree, height, mask, from) ==
  LET walk[k \in 0..TreeHeight] ==
        IF k = 0 THEN from ELSE RegionStep(tree, height, mask, walk[k - 1])
  IN  walk[TreeHeight]

RegionFound(s, tree, n, mask) ==
  LET start == Resumed(s, n)
      node == start.stack[start.height]
  IN  IF start.height = HeightOf(n)
      THEN [cache |-> start, region |-> tree.masks[2 * node] \cup tree.masks[2 * node + 1]]
      ELSE LET end == RegionWalk(tree, HeightOf(n), mask, start)
           IN  [cache |-> end, region |-> tree.masks[Region(end)]]

Has(b, n, mask) ==
  LET s == Opened(b, n, DOMAIN classified)
  IN  IF ~s.loaded THEN cache' = s /\ Asked("has", b, n, mask, FALSE)
      ELSE LET found == RegionFound(s, classified[b], n, mask)
           IN  cache' = found.cache /\ Asked("has", b, n, mask, HasAny(found.region, mask))

IsFully(b, n, mask) ==
  LET s == Opened(b, n, DOMAIN classified)
  IN  IF ~s.loaded THEN cache' = s /\ Asked("fully", b, n, mask, FALSE)
      ELSE LET found == RegionFound(s, classified[b], n, mask)
           IN  cache' = found.cache /\ Asked("fully", b, n, mask, IsAll(found.region, mask))

\* getValueOrAncestor; the root has no parent in the tree.
GetValue(b, n) ==
  LET parent == n \div 2
      s == Opened(b, parent, DOMAIN classified)
      end == NodeFound(s, IF s.loaded THEN classified[b].nodes ELSE {}, parent)
      region == 2 * Found(end) + ChildAt(Code(n), end.height)
  IN  /\ n # 1
      /\ cache' = end
      /\ Asked("class", b, n, {}, IF end.loaded THEN <<region, classified[b].masks[region]>>
                                  ELSE <<>>)

AskClasses ==
  /\ mode = "classes"
  /\ \E b \in Block, n \in TreeIndex :
       \/ \E mask \in QueryMask : Has(b, n, mask) \/ IsFully(b, n, mask)
       \/ GetValue(b, n)
  /\ UNCHANGED <<mode, occupancy, allocated, classified, cells_are>>

\* forEachLeafMatching: the regions that are visited.
MatchingLeaves(tree, mask) ==
  LET Open(n) == /\ n \in tree.nodes
                 /\ n # 1 => HasAny(tree.masks[n], mask) /\ ~IsAll(tree.masks[n], mask)
  IN  {n \in TreeIndex \ {1} :
         /\ \A a \in UpFrom(n) \ {n} : Open(a)
         /\ HasAny(tree.masks[n], mask)
         /\ IsAll(tree.masks[n], mask) \/ n \in TreeCell}

QueriesNext ==
  \/ GetCellValue \/ ChangeMap
  \/ GetNode \/ GetOrAllocateNode
  \/ Update \/ AskClasses

QueriesSpec == QueriesInit /\ [][QueriesNext]_queryVars

-----------------------------------------------------------------------------
(* Properties *)

\* The value of a query is that of a descent from the root, whatever queries
\* came before it (the caching of query_accelerator.cc).
ValueIsRight(b, n, value) ==
  value = IF b \in DOMAIN occupancy THEN Scales(occupancy[b])[n] ELSE 0

\* getNode returns the lowest allocated node above the index, getOrAllocateNode
\* its own.
NodeIsRight(op, b, n, node) ==
  IF op = "allocate" THEN node = n /\ UpFrom(n) \subseteq allocated[b]
  ELSE IF b \in DOMAIN allocated
  THEN LET above == UpFrom(n) \cap allocated[b]
       IN  node \in above /\ \A m \in above : InSubtree(m, node) => m = node
  ELSE node = 0

ClassesBelow(b, n) == {cells_are[b][c] : c \in {d \in TreeCell : InSubtree(d, n)}}

\* Nodes below a region of which the classified map says that it has one class.
Leftover(b) == {n \in classified[b].nodes \ {1} : Homogeneous(classified[b].masks[n])}

ClassIsRight(a) ==
  IF a.block \notin DOMAIN classified
  THEN IF a.op = "class" THEN a.result = <<>> ELSE a.result = FALSE
  ELSE IF a.op = "has" THEN a.result = HasAny(ClassesBelow(a.block, a.index), a.mask)
  ELSE IF a.op = "fully" THEN a.result = IsAll(ClassesBelow(a.block, a.index), a.mask)
  ELSE /\ a.result[1] = a.index \/ a.result[1] \in UpFrom(a.index) \ classified[a.block].nodes
       /\ a.result[2] = ClassesBelow(a.block, a.result[1])

\* No sequence of queries, allocations and updates makes a cached path or value
\* answer for another place or another map: not even in a classified map, but
\* for what is at or below its leftover nodes.
AnswersAreRight ==
  \/ answer.op = "none"
  \/ answer.op = "value" /\ ValueIsRight(answer.block, answer.index, answer.result)
  \/ answer.op \in {"node", "allocate"}
       /\ NodeIsRight(answer.op, answer.block, answer.index, answer.result)
  \/ /\ answer.op \in {"has", "fully", "class"}
     /\ \/ ClassIsRight(answer)
        \/ UpFrom(answer.index) \cap Leftover(answer.block) # {}

\* What has() and isFully() return agrees with the occupancy of the cells,
\* whatever was asked before (test_classified_map.cc:51, which disturbs the
\* cache before each query).
ClassesAreRight == answer.op \in {"has", "fully"} => ClassIsRight(answer)

\* A planner that visits the leaves that match a mask gets exactly the cells
\* that match it, after any sequence of updates with or without a distance
\* field: no region it should avoid, and none missed.
LeavesCoverMatches ==
  \A b \in DOMAIN classified, mask \in QueryMask :
    {c \in TreeCell : UpFrom(c) \cap MatchingLeaves(classified[b], mask) # {}}
      = {c \in TreeCell : cells_are[b][c] \in mask}

=============================================================================
