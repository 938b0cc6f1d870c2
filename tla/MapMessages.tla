----------------------------- MODULE MapMessages -----------------------------
(***************************************************************************)
(* Maps as messages and as streams (map_msg_conversions.cc and             *)
(* stream_conversions.cc): a publisher whose blocks change sends all or    *)
(* some of them, messages may be lost, and a subscriber keeps a copy; and  *)
(* a map is written to a stream, which may be cut off, and read back.      *)
(*                                                                         *)
(* The chunked hashed octree is written like the plain one, and read as a  *)
(* plain one.  A block of HashedBlocks is a tree without detail to it: its *)
(* cells are written one by one.                                           *)
(***************************************************************************)
EXTENDS WaveletTrees

CONSTANTS LowLogOdds, HighLogOdds,
          CutNoise,      \* kNumericalNoise
          MapConfig,     \* values of the metadata
          MaxInFlight    \* bound on the messages on their way

\* The limits are multiples like the cells, so that limited cells are as well.
ASSUME MessageAssumption ==
  /\ LowLogOdds \in Int /\ HighLogOdds \in Int /\ LowLogOdds < HighLogOdds
  /\ \A limit \in {LowLogOdds, HighLogOdds} : limit % Exp2(TreeHeight) = 0
  /\ CutNoise \in Nat /\ MaxInFlight \in Nat

VARIABLES kind,       \* the type of the published map
          config,     \* its configuration
          blocks,     \* its blocks
          in_flight,  \* messages on their way
          copy,       \* what the subscriber has
          expected    \* history: the trees that its blocks should be

messageVars == <<kind, config, blocks, in_flight, copy, expected>>

Kind == {"hashed_blocks", "wavelet_octree", "hashed_wavelet_octree"}

\* A wavelet octree is a single tree, which always exists.
OnlyTree == CHOOSE b \in Block : TRUE
BlocksOf(k) == IF k = "wavelet_octree" THEN {OnlyTree} ELSE Block

EmptyTree == [scale |-> 0, details |-> [n \in TreeNode |-> 0], nodes |-> {1}]
NewMap(k) == [b \in IF k = "wavelet_octree" THEN {OnlyTree} ELSE {} |-> EmptyTree]
NoMap == [config |-> "none", blocks |-> <<>>]

MessagesInit ==
  /\ kind \in Kind
  /\ config \in MapConfig
  /\ blocks = NewMap(kind)
  /\ in_flight = <<>>
  /\ copy = NoMap
  /\ expected = <<>>

-----------------------------------------------------------------------------
(* Writing and reading a tree, depth first, with an explicit stack *)

\* The children i of n that are in which, the last one first, by writer and
\* reader alike.
Pushed(n, which) == (IF 1 \in which THEN <<2 * n + 1>> ELSE <<>>) \o
                    (IF 0 \in which THEN <<2 * n>> ELSE <<>>)

Saturated(scale) ==
  scale < LowLogOdds + CutNoise \/ HighLogOdds - CutNoise < scale

\* The children that follow node n; the hashed octrees leave out the
\* descendants of a saturated child.
Followers(tree, scales, n) ==
  {i \in {0, 1} : /\ 2 * n + i \in tree.nodes
                  /\ ~(kind = "hashed_wavelet_octree" /\ Saturated(scales[2 * n + i]))}

\* The node at the top of the stack is written.
WriteNode(tree, scales, s) ==
  LET n == Last(s.stack)
      children == Followers(tree, scales, n)
  IN  [stack |-> Front(s.stack) \o Pushed(n, children),
       out |-> Append(s.out, [detail |-> tree.details[n], children |-> children])]

NodesWritten(tree) ==
  LET scales == Scales(tree)
      loop[k \in 0..Cardinality(TreeNode)] ==
        IF k = 0 THEN [stack |-> <<1>>, out |-> <<>>]
        ELSE IF loop[k - 1].stack = <<>> THEN loop[k - 1]
        ELSE WriteNode(tree, scales, loop[k - 1])
  IN  loop[Cardinality(TreeNode)].out

\* One node is read into the tree at the top of the stack.
ReadNode(s, node) ==
  LET n == Last(s.stack)
  IN  [stack |-> Front(s.stack) \o Pushed(n, node.children),
       tree |-> [s.tree EXCEPT !.details[n] = node.detail,
                               !.nodes = @ \cup {2 * n + i : i \in node.children}]]

NodesRead(tree, in) ==
  LET loop[k \in 0..Len(in)] ==
        IF k = 0 THEN [stack |-> <<1>>, tree |-> tree] ELSE ReadNode(loop[k - 1], in[k])
  IN  loop[Len(in)].tree

BlockWritten(tree) ==
  IF kind = "hashed_blocks" THEN [cells |-> CellsOf(tree)]
  ELSE [scale |-> tree.scale, nodes |-> NodesWritten(tree)]

\* Mutant: an existing block is not cleared before it is read.
BlockReadOver(old, block) ==
  IF kind = "hashed_blocks" THEN TreeOf(block.cells, TreeNode)
  ELSE NodesRead([old EXCEPT !.scale = block.scale], block.nodes)

\* A block of a hashed octree is cleared first.  The tree of the wavelet
\* octree keeps the children that the message does not have.
BlockRead(old, block) ==
  IF kind = "hashed_blocks" THEN TreeOf(block.cells, TreeNode)
  ELSE NodesRead([IF kind = "wavelet_octree" THEN old ELSE EmptyTree EXCEPT !.scale = block.scale],
                 block.nodes)

-----------------------------------------------------------------------------
(* The publisher's map *)

\* threshold() of a tree.
ThresholdedTree(tree) ==
  TreeOf([c \in TreeCell |-> LET v == CellsOf(tree)[c]
                             IN  IF v < LowLogOdds THEN LowLogOdds
                                 ELSE IF HighLogOdds < v THEN HighLogOdds ELSE v], tree.nodes)

\* Measurements, pruning and edits leave a block with any content; that of
\* HashedBlocks has no nodes to leave out, and is kept in range all the time.
ChangeBlock ==
  /\ \E b \in BlocksOf(kind), tree \in Trees :
     /\ kind = "hashed_blocks" => tree.nodes = TreeNode /\ ThresholdedTree(tree) = tree
     /\ blocks' = [c \in DOMAIN blocks \cup {b} |-> IF c = b THEN tree ELSE blocks[c]]
  /\ UNCHANGED <<kind, config, in_flight, copy, expected>>

\* Pruning and cropping erase blocks.
EraseBlock ==
  /\ kind # "wavelet_octree"
  /\ \E b \in DOMAIN blocks : blocks' = [c \in DOMAIN blocks \ {b} |-> blocks[c]]
  /\ UNCHANGED <<kind, config, in_flight, copy, expected>>

\* Another process, with another configuration, publishes the same topic.
RestartMapper ==
  /\ \E c \in MapConfig : config' = c
  /\ blocks' = NewMap(kind)
  /\ UNCHANGED <<kind, in_flight, copy, expected>>

\* mapToRosMsg; include is what the message has the content of.
Message(of, include) ==
  [config |-> config,
   allocated |-> DOMAIN of,
   blocks |-> [b \in include \cap DOMAIN of |-> BlockWritten(of[b])],
   trees |-> [b \in include \cap DOMAIN of |-> of[b]]]  \* history

Send(of, include) ==
  /\ Len(in_flight) < MaxInFlight
  /\ in_flight' = Append(in_flight, Message(of, include))
  /\ UNCHANGED <<kind, config, copy, expected>>

\* PublishMapOperation::run, which does nothing while the map is empty.
PublishWholeMap ==
  LET limited == [b \in DOMAIN blocks |->
                    IF kind = "hashed_blocks" THEN blocks[b] ELSE ThresholdedTree(blocks[b])]
  IN  /\ \E b \in DOMAIN blocks : kind = "wavelet_octree" => blocks[b] # EmptyTree
      /\ blocks' = limited
      /\ Send(limited, DOMAIN limited)

\* A caller that passes include_blocks, which only the hashed octrees take;
\* the map is as publishing left it.
PublishBlocks ==
  /\ kind = "hashed_wavelet_octree"
  /\ \A b \in DOMAIN blocks : ThresholdedTree(blocks[b]) = blocks[b]
  /\ \E include \in SUBSET Block : Send(blocks, include)
  /\ UNCHANGED blocks

LoseMessage ==
  /\ in_flight # <<>>
  /\ in_flight' = Tail(in_flight)
  /\ UNCHANGED <<kind, config, blocks, copy, expected>>

\* rosMsgToMap.
ReceiveMessage ==
  /\ in_flight # <<>>
  /\ LET msg == Head(in_flight)
         Kept(old) == IF copy.config # msg.config THEN NewMap(kind)
                      ELSE [b \in DOMAIN old \cap msg.allocated |-> old[b]]
         kept == Kept(copy.blocks)
         old_trees == IF copy.config # msg.config THEN <<>> ELSE Kept(expected)
     IN  /\ copy' = [config |-> msg.config,
                     blocks |-> [b \in DOMAIN kept \cup DOMAIN msg.blocks |->
                                   IF b \in DOMAIN msg.blocks
                                   THEN BlockRead(IF b \in DOMAIN kept THEN kept[b] ELSE EmptyTree,
                                                  msg.blocks[b])
                                   ELSE kept[b]]]
         /\ expected' = [b \in DOMAIN old_trees \cup DOMAIN msg.trees |->
                           IF b \in DOMAIN msg.trees THEN msg.trees[b] ELSE old_trees[b]]
  /\ in_flight' = Tail(in_flight)
  /\ UNCHANGED <<kind, config, blocks>>

MessagesNext ==
  \/ ChangeBlock \/ EraseBlock \/ RestartMapper
  \/ PublishWholeMap \/ PublishBlocks
  \/ LoseMessage \/ ReceiveMessage

MessagesSpec == MessagesInit /\ [][MessagesNext]_messageVars

-----------------------------------------------------------------------------
(* Streams: a header, then what each block is made of *)

StreamHeader == [kind |-> kind, config |-> config, num_blocks |-> Cardinality(DOMAIN blocks)]

\* A block of HashedBlocks, and a block of a tree.
DenseItem(b) == [block |-> b, cells |-> BlockWritten(blocks[b]).cells]
TreeItems(b) ==
  LET block == BlockWritten(blocks[b])
  IN  <<[block |-> b, scale |-> block.scale]>> \o block.nodes

BlockItems(b) == IF kind = "hashed_blocks" THEN <<DenseItem(b)>> ELSE TreeItems(b)

MapToStream ==
  LET order == SetToSeq(DOMAIN blocks)
      items[i \in 0..Len(order)] ==
        IF i = 0 THEN <<StreamHeader>> ELSE items[i - 1] \o BlockItems(order[i])
  IN  items[Len(order)]

\* Mutant: the nodes of a tree may end before its stack is empty.
ItemsReadLeniently(read) == read.left = 0

\* Everything was read before the stream ended.
ItemsRead(read) == read.left = 0 /\ read.stack = <<>>

\* The next block of s is replaced by this tree, of which the nodes on the
\* stack are still to be read.
NextBlock(s, b, tree, stack) ==
  [at |-> b, left |-> s.left - 1, stack |-> stack,
   blocks |-> [c \in DOMAIN s.blocks \cup {b} |-> IF c = b THEN tree ELSE s.blocks[c]]]

\* An item is a node of the current tree while its stack is not empty, and
\* otherwise the next block.
ReadItem(s, item) ==
  IF s.stack # <<>>
  THEN LET node == ReadNode([stack |-> s.stack, tree |-> s.blocks[s.at]], item)
       IN  [s EXCEPT !.stack = node.stack, !.blocks[s.at] = node.tree]
  ELSE IF kind = "hashed_blocks"
  THEN NextBlock(s, item.block, TreeOf(item.cells, TreeNode), <<>>)
  ELSE NextBlock(s, item.block, [EmptyTree EXCEPT !.scale = item.scale], <<1>>)

\* Reads the first items of a stream: into a new map, which replaces the
\* caller's only if all of it was there.
StreamToMap(stream, items, old) ==
  IF items = 0 THEN [ok |-> FALSE, map |-> NoMap]
  ELSE LET read[k \in 1..items] ==
             IF k = 1 THEN [at |-> OnlyTree, left |-> stream[1].num_blocks, stack |-> <<>>, blocks |-> <<>>]
             ELSE ReadItem(read[k - 1], stream[k])
       IN  IF ItemsRead(read[items])
           THEN [ok |-> TRUE, map |-> [config |-> stream[1].config, blocks |-> read[items].blocks]]
           ELSE [ok |-> FALSE, map |-> old]

-----------------------------------------------------------------------------
(* Properties *)

\* What leaving out the descendants of saturated children may change: their
\* average is within the noise of a limit that none of the cells exceeds.
CutError == Exp2(TreeHeight - 1) * CutNoise

\* Two trees with the same cells but for CutError, unless the cell is below
\* a node that the reader has and the writer has not.
SameCells(read, written) ==
  \A c \in TreeCell :
    \/ CellsOf(read)[c] - CellsOf(written)[c] \in -CutError..CutError
    \/ /\ kind = "wavelet_octree"
       /\ UpFrom(c) \cap (read.nodes \ written.nodes) # {}

\* Whatever was sent, lost, erased or restarted in between, the subscriber has
\* the blocks that the last message it received says are allocated, as far as
\* it has received them, each as it was when last sent: nothing of removed
\* blocks, of earlier contents or of another configuration is left.
CopyIsMap ==
  /\ DOMAIN copy.blocks = DOMAIN expected
  /\ \A b \in DOMAIN expected : SameCells(copy.blocks[b], expected[b])

\* A map that is written to a stream is read back, and no stream that was cut
\* off is accepted or changes the caller's map.
StreamsAreWhole ==
  (\A b \in DOMAIN blocks : ThresholdedTree(blocks[b]) = blocks[b]) =>
    LET stream == MapToStream
        whole == StreamToMap(stream, Len(stream), copy)
    IN  /\ \A items \in 1..Len(stream) - 1 : StreamToMap(stream, items, copy) =
                                               [ok |-> FALSE, map |-> copy]
        /\ whole.ok /\ whole.map.config = config
        /\ DOMAIN whole.map.blocks = DOMAIN blocks
        /\ \A b \in DOMAIN blocks :
             \A c \in TreeCell : CellsOf(whole.map.blocks[b])[c] - CellsOf(blocks[b])[c]
                                   \in -CutError..CutError

=============================================================================
