---------------------------- MODULE WaveletTrees ----------------------------
(***************************************************************************)
(* The octree of wavelet coefficients of a block, as the modules that read *)
(* it see it: MapMessages and MapQueries.  (WaveletBlock is about how it   *)
(* is updated.)                                                            *)
(*                                                                         *)
(* A tree has one dimension: the code applies the same lifting step to its *)
(* three axes in turn.  Node n has the children 2n and 2n + 1; those of    *)
(* the lowest nodes are the cells.  Log-odds are integers, and those of    *)
(* cells are multiples of 2^TreeHeight, so that halving is exact.          *)
(***************************************************************************)
EXTENDS Integers, Sequences, SequencesExt

CONSTANTS Block,         \* positions of blocks
          TreeHeight,
          Content        \* what the cells of a block may hold

Exp2(n) == 2^n

TreeNode == 1..(Exp2(TreeHeight) - 1)
TreeCell == Exp2(TreeHeight)..(Exp2(TreeHeight + 1) - 1)
TreeIndex == TreeNode \cup TreeCell

ASSUME TreeAssumption ==
  /\ TreeHeight \in Nat \ {0}
  /\ Content \subseteq [TreeCell -> Int]
  /\ \A content \in Content : \A c \in TreeCell : content[c] % Exp2(TreeHeight) = 0

\* The provers know nothing of powers but this.
ASSUME TreePowers ==
  /\ Exp2(0) = 1
  /\ \A n \in 0..TreeHeight : Exp2(n) \in Nat \ {0} /\ Exp2(n + 1) = 2 * Exp2(n)

\* The heights of indices in the tree.
HeightOf(n) == CHOOSE h \in 0..TreeHeight : n \in Exp2(TreeHeight - h)..(Exp2(TreeHeight - h + 1) - 1)

\* n and what is above it; n and what is below it.
UpFrom(n) == {n \div Exp2(e) : e \in 0..TreeHeight - HeightOf(n)}
InSubtree(m, n) == n \in UpFrom(m)

\* The averages of the cells below each index.
Average(cells) ==
  LET average[n \in TreeIndex] ==
        IF n \in TreeCell THEN cells[n] ELSE (average[2 * n] + average[2 * n + 1]) \div 2
  IN  average

\* What forward() and backward() make of each other's results.
Coefficients(cells) ==
  LET average == Average(cells)
  IN  [scale |-> average[1],
       details |-> [n \in TreeNode |-> average[2 * n + 1] - average[2 * n]]]

\* What lies between the value of a node and those of its children.
Half(tree, n) == tree.details[n] \div 2

Scales(tree) ==
  LET scale[n \in TreeIndex] ==
        IF n = 1 THEN tree.scale
        ELSE IF n % 2 = 0 THEN scale[n \div 2] - Half(tree, n \div 2)
        ELSE scale[n \div 2] + Half(tree, n \div 2)
  IN  scale

CellsOf(tree) == LET scales == Scales(tree) IN [c \in TreeCell |-> scales[c]]

\* The nodes that are left when a tree is pruned.
Needed(cells) ==
  LET details == Coefficients(cells).details
  IN  {n \in TreeNode : n = 1 \/ \E m \in TreeNode : InSubtree(m, n) /\ details[m] # 0}

\* A tree with these cells, of which all nodes or only those are allocated.
TreeOf(cells, nodes) ==
  LET tree == Coefficients(cells)
  IN  [scale |-> tree.scale, details |-> tree.details, nodes |-> nodes]
Trees == {TreeOf(cells, TreeNode) : cells \in Content}
           \cup {TreeOf(cells, Needed(cells)) : cells \in Content}

=============================================================================
