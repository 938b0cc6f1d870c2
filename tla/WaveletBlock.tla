---------------------------- MODULE WaveletBlock ----------------------------
(***************************************************************************)
(* A block of the hashed (chunked) wavelet octree: an octree of Haar       *)
(* detail coefficients under one scale coefficient, with lazy thresholding *)
(* and pruning, and the update that an integrator makes to it              *)
(* (hashed_wavelet_octree_block.cc, hashed_chunked_wavelet_octree_block.cc,*)
(* updateBlock of both integrators, haar_transform_inl.h).                 *)
(*                                                                         *)
(* The tree has one dimension: the code applies the same lifting step to   *)
(* its three axes in turn.  A path is the list of relative child indices   *)
(* from the root; paths of length Height are cells, shorter ones nodes.    *)
(* Log-odds are integers, multiples of 2^Height, so that halving is exact: *)
(* in a chunked block always (HalvingIsExact), in a plain one as long as no*)
(* node that has details is limited as a whole.                            *)
(***************************************************************************)
EXTENDS Integers, Sequences, SequencesExt

CONSTANTS Height,           \* tree_height_
          MinLogOdds, MaxLogOdds,
          Noise,              \* kNoiseThreshold
          Sample,             \* the values of computeUpdate
          Chunked,            \* a chunked block, or a plain one
          ChunkHeight,        \* kChunkHeight, the levels of a chunk
          Visible,            \* the paths that measurements may observe
          AddPath,            \* the paths addToCellValue is called with
          SetPath, SetValue,  \* the arguments of setCellValue
          MaxAbs              \* bound on the modelled log-odds

Path == UNION {[1..n -> {0, 1}] : n \in 0..Height}
Leaf == [1..Height -> {0, 1}]
NodePath == Path \ Leaf

ASSUME BlockAssumption ==
  /\ Height \in Nat \ {0}
  /\ {MinLogOdds, MaxLogOdds} \cup Sample \cup SetValue \subseteq Int
  /\ MinLogOdds < MaxLogOdds /\ Noise \in Nat
  /\ 0 \in Sample /\ MaxAbs \in Nat
  /\ \A v \in {MinLogOdds, MaxLogOdds, Noise} \cup Sample \cup SetValue : v % (2^Height) = 0
  /\ Chunked \in BOOLEAN /\ ChunkHeight \in Nat \ {0}
  /\ Visible \cup AddPath \cup SetPath \subseteq Path \ {<<>>}

\* The provers know nothing of powers but this.
ASSUME PowersOfTwo ==
  /\ 2^0 = 1 /\ 2^1 = 2
  /\ \A m, n \in 0..Height : 2^m \in Nat \ {0} /\ 2^(m + n) = 2^m * 2^n

VARIABLES root_scale,           \* root_scale_coefficient_
          details,              \* the detail coefficient of each node
          nodes,                \* the allocated nodes
          needs_thresholding, needs_pruning

vars == <<root_scale, details, nodes, needs_thresholding, needs_pruning>>

Init == /\ root_scale = 0
        /\ details = [p \in NodePath |-> 0]
        /\ nodes = {<<>>}
        /\ needs_thresholding = FALSE
        /\ needs_pruning = FALSE

-----------------------------------------------------------------------------
(* The Haar transform along one axis *)

\* Mutant: the children are swapped.
BackwardSwapped(scale, detail, child) ==
  IF child = 1 THEN scale - detail \div 2 ELSE scale + detail \div 2

Backward(scale, detail, child) ==
  IF child = 0 THEN scale - detail \div 2 ELSE scale + detail \div 2

ForwardScale(low, high) == low + (high - low) \div 2
ForwardDetail(low, high) == high - low

\* forwardSingleChild, applied once per level on the way up from path p: what
\* an increment v of p adds to the coefficients of each of its ancestors.
ScaleShare(p, v, ancestor) == v \div 2^(Len(p) - Len(ancestor))
DetailShare(p, v, ancestor) ==
  LET below == ScaleShare(p, v, SubSeq(p, 1, Len(ancestor) + 1))
  IN  IF p[Len(ancestor) + 1] = 0 THEN -below ELSE below

Above(p) == {SubSeq(p, 1, n) : n \in 0..Len(p) - 1}

\* getCellValue, for every path at once; unallocated nodes have no details.
Value ==
  LET value[p \in Path] == IF p = <<>> THEN root_scale
                           ELSE Backward(value[Front(p)], details[Front(p)], Last(p))
  IN  value

-----------------------------------------------------------------------------
Limit(v, low, high) == IF v < low THEN low ELSE IF high < v THEN high ELSE v
Clamp(v) == Limit(v, MinLogOdds, MaxLogOdds)
ClampPadded(v) == Limit(v, MinLogOdds - Noise, MaxLogOdds + Noise)
Child(p, i) == Append(p, i)
HasChildren(p) == \E i \in {0, 1} : Child(p, i) \in nodes

\* In a chunk, a node exists as soon as one of its siblings does.
Siblings(p) == IF Chunked /\ Len(p) % ChunkHeight # 0
               THEN {Child(Front(p), i) : i \in {0, 1}} ELSE {p}

\* The values of the nodes in `over' follow from those of their children.
Lifted(over, base) ==
  LET value[p \in Path] ==
        IF p \in over THEN ForwardScale(value[Child(p, 0)], value[Child(p, 1)]) ELSE base[p]
  IN  value

\* Replaces the values below the nodes in `over` by the given ones, bottom up.
Compress(over, value) ==
  /\ details' = [p \in NodePath |->
                   IF p \in over THEN ForwardDetail(value[Child(p, 0)], value[Child(p, 1)])
                   ELSE details[p]]
  /\ root_scale' = value[<<>>]

(* updateBlock: from the root down, each node is left untouched (it is not  *)
(* observed, or already saturated free), incremented as a whole, or refined;*)
(* cells that are reached are incremented and limited to the padded range.  *)

Refinable == {r \in SUBSET ((Visible \cap NodePath) \cup {<<>>}) :
                <<>> \in r /\ \A p \in r : Above(p) \subseteq r}
Frontier(refined) == {p \in Path \ refined : p # <<>> /\ Front(p) \in refined}

\* Mutant: only a node with allocated children asks for thresholding.
StopFlagsOnlyParents(p) == HasChildren(p)

\* Whether a node that is incremented as a whole is left to be thresholded;
\* otherwise its value is limited on the spot.
StopFlags(p) == Chunked \/ HasChildren(p)
StoppedValue(p, v) == IF StopFlags(p) THEN v ELSE ClampPadded(v)

Allocate(refined) == nodes' = nodes \cup UNION {Siblings(p) : p \in refined}

UpdateBlock ==
  \E refined \in Refinable :
    \E stopped \in SUBSET (Frontier(refined) \cap Visible \cap NodePath) :
      \E sample \in [stopped \cup (Frontier(refined) \cap Leaf) -> Sample] :
        LET old == Value
            new == [p \in Path |->
                      IF p \in stopped THEN StoppedValue(p, old[p] + sample[p])
                      ELSE IF p \in DOMAIN sample THEN ClampPadded(old[p] + sample[p])
                      ELSE old[p]]
        IN  /\ \A c \in DOMAIN sample \ Visible : sample[c] = 0
            /\ Compress(refined, Lifted(refined, new))
            /\ Allocate(refined)
            /\ needs_thresholding' = (needs_thresholding \/ \E p \in stopped : StopFlags(p))
            /\ needs_pruning' = TRUE

(* addToCellValue and setCellValue *)

Increment(p, v) ==
  /\ root_scale' = root_scale + ScaleShare(p, v, <<>>)
  /\ details' = [q \in NodePath |-> IF q \in Above(p) THEN details[q] + DetailShare(p, v, q)
                                    ELSE details[q]]
  /\ Allocate(Above(p))
  /\ needs_thresholding' = TRUE
  /\ needs_pruning' = TRUE

AddToCellValue(p, update) == Increment(p, update)

\* The descent ends at the parent of p: its value is what is subtracted.
\* Bound: the increment keeps the arithmetic of the model exact.
SetCellValue(p, new_value) ==
  LET current_value == Value[Front(p)]
  IN  /\ (new_value - current_value) % (2^Height) = 0
      /\ Increment(p, new_value - current_value)

(* threshold, prune and clear *)

\* recursiveThreshold: what has no node of its own is clamped.
Clamped ==
  LET old == Value
  IN  Lifted(nodes, [p \in Path |-> Clamp(old[p])])

ThresholdValues ==
  IF needs_thresholding THEN Compress(nodes, Clamped)
                        ELSE UNCHANGED <<root_scale, details>>

Threshold ==
  /\ ThresholdValues
  /\ needs_thresholding' = FALSE
  /\ UNCHANGED <<nodes, needs_pruning>>

\* Mutant: the children that were just erased are still counted.
WorthlessStale(p, kept) == ~HasChildren(p) /\ details'[p] = 0

\* A node without children is erased if its details are zero.
Worthless(p, kept) == (\A i \in {0, 1} : Child(p, i) \notin kept) /\ details'[p] = 0

\* recursivePrune, children first: what is left of the nodes of height at most h.
KeptNodes ==
  LET kept[h \in 0..Height] ==
        IF h = 0 THEN {}
        ELSE kept[h - 1] \cup {p \in nodes : /\ Len(p) = Height - h
                                             /\ \E q \in Siblings(p) : ~Worthless(q, kept[h - 1])}
  IN  kept[Height - 1] \cup {<<>>}

Prune ==
  /\ needs_pruning
  /\ ThresholdValues
  /\ nodes' = KeptNodes
  /\ needs_thresholding' = FALSE
  /\ needs_pruning' = FALSE

\* The flags keep their values.
Clear ==
  /\ root_scale' = 0
  /\ details' = [p \in NodePath |-> 0]
  /\ nodes' = {<<>>}
  /\ UNCHANGED <<needs_thresholding, needs_pruning>>

-----------------------------------------------------------------------------
\* Bound: nothing is added to a block with a value beyond MaxAbs.
Bounded == \A p \in Path : Value[p] \in -MaxAbs..MaxAbs

Next == \/ Bounded /\ UpdateBlock
        \/ Bounded /\ \E p \in AddPath, update \in Sample : AddToCellValue(p, update)
        \/ Bounded /\ \E p \in SetPath, v \in SetValue : SetCellValue(p, v)
        \/ Threshold
        \/ Prune
        \/ Clear

Spec == Init /\ [][Next]_vars

-----------------------------------------------------------------------------
\* The allocated nodes form a tree, and only they have details
\* (getOrAllocateChild before data(), eraseChild).
TypeOK ==
  /\ root_scale \in Int
  /\ details \in [NodePath -> Int]
  /\ <<>> \in nodes /\ nodes \subseteq NodePath
  /\ \A p \in nodes : Above(p) \subseteq nodes
  /\ \A p \in NodePath \ nodes : details[p] = 0
  /\ needs_thresholding \in BOOLEAN /\ needs_pruning \in BOOLEAN

\* A block whose needs_thresholding flag is down, so that threshold() returns
\* at once, has no cell outside the range that integrators limit cells to.
FlagsBoundCells ==
  ~needs_thresholding =>
    \A c \in Leaf : Value[c] \in (MinLogOdds - Noise)..(MaxLogOdds + Noise)

\* A block whose needs_pruning flag is down, so that prune() returns at once,
\* holds no node that prune() would erase, and nothing left to threshold.
FlagsKeepPruning ==
  ~needs_pruning =>
    /\ ~needs_thresholding
    /\ \A p \in nodes \ {<<>>} :
         \E q \in Siblings(p) : HasChildren(q) \/ details[q] # 0

\* Whatever is compressed, allocated, thresholded or pruned, a block is a grid
\* of cells: integrators and users add to cells, and pruning loses nothing.
Grid == INSTANCE OccupancyGrid
          WITH Cell <- Leaf,
               Region <- {{c \in Leaf : SubSeq(c, 1, Len(p)) = p} : p \in Path},
               Amount <- Sample,
               grid <- [c \in Leaf |-> Value[c]]

ImplementsGrid == Grid!Spec

\* setCellValue leaves the cell with the value it was asked to set
\* (core/map/map_base.h:109).
SetCellSetsIt ==
  [][\A p \in SetPath, v \in SetValue : SetCellValue(p, v) => Value'[p] = v]_vars

=============================================================================
