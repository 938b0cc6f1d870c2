------------------------------ MODULE DataTree ------------------------------
(***************************************************************************)
(* What a tree container promises: a value for every node of a complete    *)
(* binary tree, the default where nothing was written; writing changes one *)
(* node, erasing a child resets all nodes below it, and nothing else that  *)
(* the container does is visible.                                          *)
(***************************************************************************)
EXTENDS Naturals, Sequences

CONSTANTS Path,       \* the nodes, as paths from the root
          Value       \* the data of a node; 0 is the default

VARIABLE tree

\* The nodes of the subtree whose root is p.
Below(p) == {q \in Path : Len(q) >= Len(p) /\ SubSeq(q, 1, Len(p)) = p}

Init == tree = [p \in Path |-> 0]

(***************************************************************************)
(* A write changes one node; an erasure leaves only defaults in a subtree  *)
(* and everything outside it as it was.                                    *)
(***************************************************************************)
Next ==
  LET changed == {p \in Path : tree'[p] # tree[p]}
  IN \/ \E p \in changed : changed = {p} /\ tree'[p] \in Value
     \/ \E p \in Path : /\ changed \subseteq Below(p)
                        /\ \A q \in changed : tree'[q] = 0
                        /\ \A q \in Below(p) \ changed : tree[q] = 0

Spec == Init /\ [][Next]_tree
=============================================================================
