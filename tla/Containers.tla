----------------------------- MODULE Containers -----------------------------
(***************************************************************************)
(* The two tree containers of the library, driven by the same calls:       *)
(* Ndtree, whose nodes point to an array of children (ndtree_inl.h,        *)
(* ndtree_node_inl.h), and ChunkedNdtree, which stores ChunkLevels levels  *)
(* in one array and keeps a bit per node that says whether it has children *)
(* (chunked_ndtree_*_inl.h).  Binary trees; a node is the path that leads  *)
(* to it, as its Morton code spells it out.                                *)
(***************************************************************************)
EXTENDS Integers, Sequences, FiniteSets

CONSTANTS MaxTreeHeight,  \* max_height_, a multiple of ChunkLevels
          ChunkLevels,    \* kHeight of a chunk
          NodeValue,      \* the data written to a node; 0 is the default
          Written,        \* paths of the nodes written
          Erased          \* paths of the nodes erased

ASSUME ContainersAssumption ==
  /\ MaxTreeHeight \in Nat
  /\ ChunkLevels \in 1..MaxTreeHeight
  /\ MaxTreeHeight % ChunkLevels = 0
  /\ NodeValue \subseteq Nat

\* The provers know nothing of powers but this.
ASSUME SlotPowers ==
  2^0 = 1 /\ \A n \in 0..ChunkLevels : 2^n \in Nat \ {0} /\ 2^(n + 1) = 2 * 2^n

VARIABLES treeNodes,    \* Ndtree: the paths of the nodes that exist
          arrays,       \* Ndtree: the nodes that own a children array
          nodeData,     \* Ndtree: data_
          chunks        \* ChunkedNdtree: the chunks, by the path of their root

containerVars == <<treeNodes, arrays, nodeData, chunks>>

First(p, n) == SubSeq(p, 1, n)
TreePath == {First(p, n) : p \in [1..MaxTreeHeight -> {0, 1}], n \in 0..MaxTreeHeight}
Parent(p) == First(p, Len(p) - 1)
PathsTo == [p \in TreePath |-> {First(p, n) : n \in 0..Len(p)}]
Under == [p \in TreePath |-> {q \in TreePath : p \in PathsTo[q]}]

\* Users erase children of nodes, not the root.
ASSUME CallsAssumption == Written \subseteq TreePath /\ Erased \subseteq TreePath \ {<<>>}

-----------------------------------------------------------------------------
(* Ndtree *)

Children(p) == {c \in treeNodes : Len(c) > 0 /\ Parent(c) = p}

\* An array of null pointers only, as erasing the last child leaves behind.
Hollow(p) == p \in arrays /\ Children(p) = {}

\* The nodes the post-order iterator visits.  It enqueues nothing for a hollow
\* node: its parent comes next, and the siblings after it are never reached.
Visited == {p \in treeNodes :
  \A q \in PathsTo[p] :
     /\ ~Hollow(q)
     /\ Len(q) > 0 /\ q[Len(q)] = 1 => ~Hollow(Parent(q) \o <<0>>)}

\* Whether a node is still there once the visit of its parent is over: the
\* visit drops the children without data or array, and its own array when no
\* child is left.
NodesAfterPrune ==
  LET visited == Visited
      survives[n \in 0..MaxTreeHeight] ==
        {p \in treeNodes :
           /\ Len(p) = MaxTreeHeight - n
           /\ \/ Len(p) = 0
              \/ Parent(p) \notin visited
              \/ nodeData[p] # 0
              \/ /\ p \in arrays
                 /\ p \in visited => \E c \in survives[n - 1] : Parent(c) = p}
  IN UNION {survives[n] : n \in 0..MaxTreeHeight}

PlainWrite(p, v) ==
  /\ treeNodes' = treeNodes \cup PathsTo[p]
  /\ arrays' = arrays \cup (PathsTo[p] \ {p})
  /\ nodeData' = [nodeData EXCEPT ![p] = v]

\* eraseNode: the children array stays.
PlainErase(p) ==
  IF Parent(p) \in treeNodes
    THEN /\ treeNodes' = treeNodes \ Under[p]
         /\ arrays' = arrays \ Under[p]
         /\ nodeData' = [q \in TreePath |-> IF q \in Under[p] THEN 0 ELSE nodeData[q]]
    ELSE UNCHANGED <<treeNodes, arrays, nodeData>>

PlainValue == [p \in TreePath |-> IF p \in treeNodes THEN nodeData[p] ELSE 0]

-----------------------------------------------------------------------------
(* ChunkedNdtree *)

\* The relative index of a node in its chunk: level by level.
Slot == 0..(2^ChunkLevels - 2)

EmptyChunk == [data |-> [i \in Slot |-> 0], hasChild |-> [i \in Slot |-> FALSE]]

Key == [p \in TreePath |-> First(p, Len(p) - (Len(p) % ChunkLevels))]
DepthInChunk(p) == Len(p) % ChunkLevels

\* level_traversal_distance_: the position of the node in its level.
Position[p \in TreePath] ==
  IF DepthInChunk(p) = 0 THEN 0 ELSE 2 * Position[Parent(p)] + p[Len(p)]

IndexInChunk == [p \in TreePath |-> 2^DepthInChunk(p) - 1 + Position[p]]

\* getNode: every node on the way has its bit set, and the chunks exist.  A
\* node inside a chunk exists as soon as its parent has any child.
HasNode(p) == \A q \in PathsTo[p] \ {p} :
                /\ Key[q] \in DOMAIN chunks
                /\ chunks[Key[q]].hasChild[IndexInChunk[q]]
                /\ Key[First(p, Len(q) + 1)] \in DOMAIN chunks

ChunkedWrite(p, v) ==
  LET keys == {Key[q] : q \in PathsTo[p]}
      old(k) == IF k \in DOMAIN chunks THEN chunks[k] ELSE EmptyChunk
      passed(k, i) == \E q \in PathsTo[p] \ {p} :
                        Key[q] = k /\ IndexInChunk[q] = i
  IN chunks' = [k \in DOMAIN chunks \cup keys |->
       IF k \notin keys THEN old(k)
       ELSE [data |-> [i \in Slot |-> IF k = Key[p] /\ i = IndexInChunk[p]
                                        THEN v ELSE old(k).data[i]],
             hasChild |-> [i \in Slot |-> old(k).hasChild[i] \/ passed(k, i)]]]

\* Mutant: the chunks below an erased node are kept.
ReleasedNone(p) == {}

\* The chunks below an erased node are released with it.
Released(p) == DOMAIN chunks \cap Under[p]

\* eraseChild of p's parent: the data and bits of p and of the nodes below it
\* are reset as far as the chunk goes; the parent's own bit stays.
EraseChild(p) ==
  LET reset(k, i) == \E q \in Under[p] : /\ Key[q] = Key[Parent(p)]
                                        /\ Key[q] = k
                                        /\ IndexInChunk[q] = i
  IN chunks' = [k \in DOMAIN chunks \ Released(p) |->
       [data |-> [i \in Slot |-> IF reset(k, i) THEN 0 ELSE chunks[k].data[i]],
        hasChild |-> [i \in Slot |-> ~reset(k, i) /\ chunks[k].hasChild[i]]]]

ChunkedErase(p) ==
  LET q == Parent(p)
  IN IF HasNode(q) /\ chunks[Key[q]].hasChild[IndexInChunk[q]]
       THEN EraseChild(p)
       ELSE UNCHANGED chunks

ChunkedValue ==
  [p \in TreePath |-> IF HasNode(p) THEN chunks[Key[p]].data[IndexInChunk[p]] ELSE 0]

-----------------------------------------------------------------------------
(* The calls *)

ContainersInit == /\ treeNodes = {<<>>}
                  /\ arrays = {}
                  /\ nodeData = [p \in TreePath |-> 0]
                  /\ chunks = [k \in {<<>>} |-> EmptyChunk]

WriteNode(p, v) == PlainWrite(p, v) /\ ChunkedWrite(p, v)

EraseNode(p) == PlainErase(p) /\ ChunkedErase(p)

\* Ndtree only.  A visited node without children loses its array.
PruneTree ==
  LET visited == Visited
  IN /\ treeNodes' = NodesAfterPrune
     /\ arrays' = {p \in arrays \cap treeNodes' :
                    p \in visited => \E c \in Children(p) : c \in treeNodes'}
     /\ nodeData' = [p \in TreePath |-> IF p \in treeNodes' THEN nodeData[p] ELSE 0]
     /\ UNCHANGED chunks

ClearTrees == /\ treeNodes' = {<<>>}
              /\ arrays' = {}
              /\ nodeData' = [p \in TreePath |-> 0]
              /\ chunks' = [k \in {<<>>} |-> EmptyChunk]

ContainersNext == \/ \E p \in Written, v \in NodeValue : WriteNode(p, v)
                  \/ \E p \in Erased : EraseNode(p)
                  \/ PruneTree
                  \/ ClearTrees

ContainersSpec == ContainersInit /\ [][ContainersNext]_containerVars

-----------------------------------------------------------------------------
(* Properties *)

PlainTree == INSTANCE DataTree
  WITH tree <- PlainValue, Path <- TreePath, Value <- NodeValue
ChunkedTree == INSTANCE DataTree
  WITH tree <- ChunkedValue, Path <- TreePath, Value <- NodeValue

(***************************************************************************)
(* Both containers are the abstract tree: a child that was erased and is   *)
(* allocated again starts from the default with all its descendants,       *)
(* although a chunk keeps their slots and only resets them                 *)
(* (ChunkedNdtreeNodeRef::eraseChild), and pruning loses no data.          *)
(***************************************************************************)
TreesImplementDataTree == PlainTree!Spec /\ ChunkedTree!Spec
=============================================================================
