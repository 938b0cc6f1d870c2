------------------------------ MODULE MapsProofs ------------------------------
(***************************************************************************)
(* The containers that maps are made of, whatever is written to them.      *)
(*                                                                         *)
(* Hashed blocks: a node is known by its block and its place there, which  *)
(* shifts and masks find on either side of the origin; with trees that     *)
(* have their roots, the map reads as an array, and its extent and its     *)
(* leaves follow.                                                          *)
(*                                                                         *)
(* Tree containers: a slot of a chunk belongs to one node, and slots of    *)
(* nodes that do not exist hold nothing; with that, each container reads   *)
(* as the abstract tree, of which a write changes one node and an erasure  *)
(* empties a subtree.                                                      *)
(*                                                                         *)
(* The octree: prune visits all nodes that matter, and where it makes a    *)
(* leaf all cells below had, within the limits, the value of that leaf.    *)
(*                                                                         *)
(* Indices: numbers are told by their bits, and those of a Morton code are *)
(* the bits of the coordinates, so that the code shifted by a height tells *)
(* the ancestor there, and its lowest bits the next child.                 *)
(***************************************************************************)
EXTENDS Containers, BlockHash, CellOctree, NumberLemmas, FiniteSetTheorems,
        SequenceTheorems, TLAPS

-----------------------------------------------------------------------------
(* Shifts and masks                                                        *)

\* The largest power of two that is needed.
PowerLimit == (Word + MaxHeight) * Dim

LEMMA LimitIs ==
  /\ PowerLimit \in Nat /\ MaxHeight + Dim <= PowerLimit
  /\ Word * Dim \in Nat /\ MaxHeight * Dim \in Nat
  /\ PowerLimit = Word * Dim + MaxHeight * Dim
  /\ MaxHeight * Dim <= Word * Dim
  /\ Word <= Word * Dim
<1> SUFFICES ASSUME NEW w \in Nat, w = Word, NEW m \in Nat \ {0}, m = MaxHeight, m <= w,
                    NEW d \in Nat \ {0}, d = Dim
             PROVE  /\ (w + m) * d \in Nat /\ m + d <= (w + m) * d
                    /\ w * d \in Nat /\ m * d \in Nat
                    /\ (w + m) * d = w * d + m * d
                    /\ m * d <= w * d
                    /\ w <= w * d
  BY IndexAssumption DEF PowerLimit
<1>1. PICK c \in Nat : d = c + 1
  <2>1. d - 1 \in Nat /\ d = (d - 1) + 1 OBVIOUS
  <2> QED BY <2>1
<1>2. PICK e \in Nat : w = m + e
  <2>1. w - m \in Nat /\ w = m + (w - m) OBVIOUS
  <2> QED BY <2>1
<1>3. PICK a \in Nat : m = a + 1
  <2>1. m - 1 \in Nat /\ m = (m - 1) + 1 OBVIOUS
  <2> QED BY <2>1
<1>4. w * c \in Nat /\ m * c \in Nat /\ e * c \in Nat /\ a * c \in Nat OBVIOUS
<1>5. w * d = w * c + w /\ m * d = m * c + m /\ (w + m) * d = w * c + m * c + w + m BY <1>1
<1>6. w * c = m * c + e * c BY <1>2
<1>7. m * c = a * c + c BY <1>3
<1> QED BY <1>1, <1>2, <1>4, <1>5, <1>6, <1>7

LEMMA PowersDouble ==
  /\ Exp2(0) = 1
  /\ \A n \in 0..PowerLimit : Exp2(n) \in Nat \ {0} /\ Exp2(n + 1) = 2 * Exp2(n)
BY IndexPowers DEF Exp2, PowerLimit

LEMMA PowersMultiply ==
  ASSUME NEW a \in Nat, NEW b \in Nat, a + b <= PowerLimit
  PROVE  Exp2(a + b) = Exp2(a) * Exp2(b)
<1> DEFINE M == PowerLimit
           S == {k \in Nat : a + k <= M => Exp2(a + k) = Exp2(a) * Exp2(k)}
<1>1. M \in Nat BY LimitIs
<1>2. 0 \in S
  <2>1. a <= M => Exp2(a) \in Nat BY <1>1, PowersDouble
  <2>2. a <= M => Exp2(a) = Exp2(a) * Exp2(0) BY <2>1, PowersDouble
  <2>3. a + 0 = a OBVIOUS
  <2> QED BY <2>2, <2>3
<1>3. ASSUME NEW k \in Nat, k \in S PROVE k + 1 \in S
  <2> SUFFICES ASSUME a + (k + 1) <= M PROVE Exp2(a + (k + 1)) = Exp2(a) * Exp2(k + 1) OBVIOUS
  <2>1. a + k \in 0..M /\ a \in 0..M /\ k \in 0..M /\ a + (k + 1) = (a + k) + 1 BY <1>1
  <2>2. Exp2((a + k) + 1) = 2 * Exp2(a + k) /\ Exp2(k + 1) = 2 * Exp2(k) BY <2>1, PowersDouble
  <2>3. Exp2(a) \in Nat /\ Exp2(k) \in Nat BY <2>1, PowersDouble
  <2>4. Exp2(a + k) = Exp2(a) * Exp2(k) BY <2>1, <1>3
  <2>5. PICK x \in Nat, y \in Nat : x = Exp2(a) /\ y = Exp2(k) BY <2>3
  <2>6. 2 * (x * y) = x * (2 * y) BY <2>5
  <2> QED BY <2>1, <2>2, <2>4, <2>5, <2>6
<1> HIDE DEF S
<1>4. Nat \subseteq S BY <1>2, <1>3, NatInductionSet
<1> QED BY <1>4 DEF S

LEMMA SmallPowers == MaxHeight + Dim \in Nat /\ \A n \in 0..MaxHeight + Dim : n \in 0..PowerLimit
<1>1. MaxHeight + Dim \in Nat BY IndexAssumption
<1>2. PowerLimit \in Nat /\ MaxHeight + Dim <= PowerLimit BY LimitIs
<1> QED BY <1>1, <1>2

LEMMA PowerIs ==
  /\ Exp2(0) = 1
  /\ \A n \in 0..MaxHeight + Dim : Exp2(n) \in Nat \ {0} /\ Exp2(n + 1) = 2 * Exp2(n)
BY PowersDouble, SmallPowers

LEMMA PowersAdd ==
  ASSUME NEW a \in Nat, NEW b \in Nat, a + b <= MaxHeight + Dim
  PROVE  Exp2(a + b) = Exp2(a) * Exp2(b)
<1>1. a + b <= PowerLimit BY SmallPowers
<1> QED BY <1>1, PowersMultiply

-----------------------------------------------------------------------------
(* Nodes and their ancestors                                               *)

\* Ancestors are above their descendants, one at each height.
LEMMA AncestorIs ==
  ASSUME NEW a \in 0..MaxHeight, NEW p \in [Axis -> Int], NEW b \in a..MaxHeight
  PROVE  /\ ParentIndex(Node(a, p), b) = Node(b, [d \in Axis |-> p[d] \div Exp2(b - a)])
         /\ [d \in Axis |-> p[d] \div Exp2(b - a)] \in [Axis -> Int]
<1>1. b - a \in 0..MaxHeight + Dim BY IndexAssumption
<1>2. Exp2(b - a) \in Nat \ {0} BY <1>1, PowerIs
<1>3. PICK e \in Nat \ {0} : e = Exp2(b - a) BY <1>2
<1>4. \A d \in Axis : p[d] \div e \in Int OBVIOUS
<1> QED BY <1>3, <1>4 DEF ParentIndex, Node, DivExp2Floor

LEMMA AncestorOfSelf ==
  ASSUME NEW a \in 0..MaxHeight, NEW p \in [Axis -> Int]
  PROVE  ParentIndex(Node(a, p), a) = Node(a, p)
<1>1. a - a = 0 /\ a \in a..MaxHeight OBVIOUS
<1>2. \A d \in Axis : p[d] \div Exp2(0) = p[d] BY PowerIs
<1>3. [d \in Axis |-> p[d] \div Exp2(0)] = p BY <1>2
<1> QED BY <1>1, <1>3, AncestorIs

LEMMA AncestorOfAncestor ==
  ASSUME NEW a \in 0..MaxHeight, NEW p \in [Axis -> Int],
         NEW b \in a..MaxHeight, NEW c \in b..MaxHeight
  PROVE  ParentIndex(ParentIndex(Node(a, p), b), c) = ParentIndex(Node(a, p), c)
<1> DEFINE q == [d \in Axis |-> p[d] \div Exp2(b - a)]
<1>1. ParentIndex(Node(a, p), b) = Node(b, q) /\ q \in [Axis -> Int] BY AncestorIs
<1>2. /\ b - a \in 0..MaxHeight + Dim /\ c - b \in 0..MaxHeight + Dim
      /\ (b - a) + (c - b) = c - a /\ c - a <= MaxHeight + Dim
  BY IndexAssumption
<1>3. Exp2(c - a) = Exp2(b - a) * Exp2(c - b) BY <1>2, PowersAdd
<1>4. Exp2(b - a) \in Nat \ {0} /\ Exp2(c - b) \in Nat \ {0} BY <1>2, PowerIs
<1>5. \A d \in Axis : q[d] \div Exp2(c - b) = p[d] \div Exp2(c - a)
  <2> TAKE d \in Axis
  <2>1. p[d] \in Int OBVIOUS
  <2>2. (p[d] \div Exp2(b - a)) \div Exp2(c - b) = p[d] \div (Exp2(b - a) * Exp2(c - b))
    BY <2>1, <1>4, ShiftTwice
  <2> QED BY <2>2, <1>3
<1> HIDE DEF q
<1>6. ParentIndex(Node(b, q), c) = Node(c, [d \in Axis |-> q[d] \div Exp2(c - b)])
  <2>1. b \in 0..MaxHeight OBVIOUS
  <2> QED BY <2>1, <1>1, AncestorIs
<1>7. c \in a..MaxHeight OBVIOUS
<1>8. ParentIndex(Node(a, p), c) = Node(c, [d \in Axis |-> p[d] \div Exp2(c - a)])
  BY <1>7, AncestorIs
<1>9. [d \in Axis |-> q[d] \div Exp2(c - b)] = [d \in Axis |-> p[d] \div Exp2(c - a)] BY <1>5
<1> QED BY <1>1, <1>6, <1>8, <1>9

\* The nodes are the ancestors of cells.
LEMMA NodeIs ==
  /\ \A n \in NodeIndex : /\ n.height \in 0..MaxHeight /\ n.position \in [Axis -> Int]
                          /\ n = Node(n.height, n.position)
                          /\ \A h \in n.height..MaxHeight : ParentIndex(n, h) \in NodeIndex
  /\ \A n \in NodeIndex : n.height = 0 =>
       n.position \in CellIndex /\ \A h \in 0..MaxHeight : ParentIndex(n, h) \in NodeIndex
<1>0. 0 \in 0..MaxHeight BY IndexAssumption
<1>1. CellIndex \subseteq [Axis -> Int]
  <2>1. Coordinate \subseteq Int BY IndexAssumption
  <2> QED BY <2>1 DEF CellIndex
<1>2. ASSUME NEW n \in NodeIndex
      PROVE  /\ n.height \in 0..MaxHeight /\ n.position \in [Axis -> Int]
             /\ n = Node(n.height, n.position)
             /\ \A h \in n.height..MaxHeight : ParentIndex(n, h) \in NodeIndex
             /\ n.height = 0 => n.position \in CellIndex
  <2>1. PICK g \in 0..MaxHeight, c \in CellIndex : n = ParentIndex(Node(0, c), g)
    BY DEF NodeIndex
  <2>2. c \in [Axis -> Int] /\ g \in 0..MaxHeight BY <1>1
  <2> DEFINE q == [d \in Axis |-> c[d] \div Exp2(g - 0)]
  <2>3. n = Node(g, q) /\ q \in [Axis -> Int] BY <1>0, <2>1, <2>2, AncestorIs
  <2>4. n.height = g /\ n.position = q BY <2>3 DEF Node
  <2> HIDE DEF q
  <2>5. ASSUME NEW h \in g..MaxHeight PROVE ParentIndex(n, h) \in NodeIndex
    <3>1. ParentIndex(n, h) = ParentIndex(Node(0, c), h) BY <1>0, <2>1, <2>2, AncestorOfAncestor
    <3>2. h \in 0..MaxHeight OBVIOUS
    <3> QED BY <3>1, <3>2 DEF NodeIndex
  <2>6. g = 0 => n = Node(0, c) BY <1>0, <2>1, <2>2, AncestorOfSelf
  <2>7. g = 0 => n.position = c BY <2>6 DEF Node
  <2> QED BY <2>3, <2>4, <2>5, <2>7
<1> QED BY <1>2

LEMMA BlockAndCellAre ==
  ASSUME NEW n \in NodeIndex
  PROVE  /\ Exp2(MaxHeight - n.height) \in Nat \ {0}
         /\ IndexToBlockIndex(n) = [d \in Axis |-> n.position[d] \div Exp2(MaxHeight - n.height)]
         /\ IndexToBlockIndex(n) \in [Axis -> Int]
         /\ IndexToCellIndex(n) =
              Node(n.height, [d \in Axis |-> n.position[d] % Exp2(MaxHeight - n.height)])
<1>1. /\ n.height \in 0..MaxHeight /\ n.position \in [Axis -> Int]
      /\ n = Node(n.height, n.position)
  BY NodeIs
<1>2. MaxHeight \in n.height..MaxHeight BY <1>1, IndexAssumption
<1>3. MaxHeight - n.height \in 0..MaxHeight + Dim BY <1>1, IndexAssumption
<1>4. Exp2(MaxHeight - n.height) \in Nat \ {0} BY <1>3, PowerIs
<1>5. /\ ParentIndex(n, MaxHeight) =
           Node(MaxHeight, [d \in Axis |-> n.position[d] \div Exp2(MaxHeight - n.height)])
      /\ [d \in Axis |-> n.position[d] \div Exp2(MaxHeight - n.height)] \in [Axis -> Int]
  BY <1>1, <1>2, AncestorIs
<1>6. IndexToBlockIndex(n) = [d \in Axis |-> n.position[d] \div Exp2(MaxHeight - n.height)]
  BY <1>5 DEF IndexToBlockIndex, Node
<1>7. IndexToCellIndex(n) =
              Node(n.height, [d \in Axis |-> n.position[d] % Exp2(MaxHeight - n.height)])
  BY DEF IndexToCellIndex, DivExp2Remainder
<1> QED BY <1>4, <1>5, <1>6, <1>7

\* A node is known by its block and its cell there.
LEMMA BlockAndCellTell ==
  ASSUME NEW n \in NodeIndex, NEW m \in NodeIndex,
         IndexToBlockIndex(n) = IndexToBlockIndex(m), IndexToCellIndex(n) = IndexToCellIndex(m)
  PROVE  n = m
<1>1. /\ n.position \in [Axis -> Int] /\ n = Node(n.height, n.position)
      /\ m.position \in [Axis -> Int] /\ m = Node(m.height, m.position)
  BY NodeIs
<1>2. n.height = m.height BY BlockAndCellAre DEF Node
<1>3. PICK e \in Nat \ {0} : e = Exp2(MaxHeight - n.height) BY BlockAndCellAre
<1>4. [d \in Axis |-> n.position[d] \div e] = [d \in Axis |-> m.position[d] \div e]
  BY <1>2, <1>3, BlockAndCellAre
<1>5. [d \in Axis |-> n.position[d] % e] = [d \in Axis |-> m.position[d] % e]
  BY <1>2, <1>3, BlockAndCellAre DEF Node
<1>6. ASSUME NEW d \in Axis PROVE n.position[d] = m.position[d]
  <2>1. n.position[d] \div e = m.position[d] \div e
    <3>1. [k \in Axis |-> n.position[k] \div e][d] = [k \in Axis |-> m.position[k] \div e][d] BY <1>4
    <3> QED BY <3>1
  <2>2. n.position[d] % e = m.position[d] % e
    <3>1. [k \in Axis |-> n.position[k] % e][d] = [k \in Axis |-> m.position[k] % e][d] BY <1>5
    <3> QED BY <3>1
  <2>3. PICK x \in Int, y \in Int : x = n.position[d] /\ y = m.position[d] BY <1>1
  <2>4. PICK a \in Int, r \in 0..(e - 1) : x = e * a + r /\ x \div e = a /\ x % e = r BY DivisionIs
  <2>5. PICK b \in Int, s \in 0..(e - 1) : y = e * b + s /\ y \div e = b /\ y % e = s BY DivisionIs
  <2>6. a = b /\ r = s BY <2>1, <2>2, <2>3, <2>4, <2>5
  <2> QED BY <2>3, <2>4, <2>5, <2>6
<1>7. n.position = m.position BY <1>1, <1>6
<1> QED BY <1>1, <1>2, <1>7

-----------------------------------------------------------------------------
(* Lookups                                                                 *)

HashTypeOK ==
  /\ layout \in Layout
  /\ held \in [IndicesOf(layout) -> Int]
  /\ block_map = [b \in DOMAIN block_map |-> block_map[b]]
  /\ DOMAIN block_map \subseteq {IndexToBlockIndex(n) : n \in NodeIndex}
  /\ \A b \in DOMAIN block_map : block_map[b] = [cell \in DOMAIN block_map[b] |-> block_map[b][cell]]

\* The nodes of a tree have their parents, up to the root.
TreesAreRooted ==
  layout = "tree" => \A b \in DOMAIN block_map :
    /\ IndexToCellIndex(Node(MaxHeight, b)) \in DOMAIN block_map[b]
    /\ \A n \in IndicesIn(b), h \in 0..MaxHeight :
         n.height <= h /\ IndexToCellIndex(n) \in DOMAIN block_map[b] =>
           IndexToCellIndex(ParentIndex(n, h)) \in DOMAIN block_map[b]

HashInv == HashTypeOK /\ TreesAreRooted /\ LookupsAreRight

\* What a block has for a cell.
Stored(b, cell) ==
  IF b \in DOMAIN block_map /\ cell \in DOMAIN block_map[b] THEN block_map[b][cell] ELSE 0

LEMMA LookupIsStored ==
  ASSUME NEW n PROVE ValueOrDefault(n) = Stored(IndexToBlockIndex(n), IndexToCellIndex(n))
BY DEF ValueOrDefault, Stored

LEMMA IndexIsNode ==
  ASSUME NEW n \in IndicesOf(layout)
  PROVE  /\ n \in NodeIndex /\ n.height \in 0..MaxHeight
         /\ layout # "tree" => n.height = 0
         /\ ParentIndex(n, n.height) = n
         /\ n \in IndicesIn(IndexToBlockIndex(n))
<1>1. n \in NodeIndex /\ (layout # "tree" => n.height = 0) BY DEF IndicesOf
<1>2. /\ n.height \in 0..MaxHeight /\ n.position \in [Axis -> Int]
      /\ n = Node(n.height, n.position)
  BY <1>1, NodeIs
<1>3. ParentIndex(n, n.height) = n BY <1>2, AncestorOfSelf
<1> QED BY <1>1, <1>2, <1>3 DEF IndicesIn

\* Allocating a node changes no value.
LEMMA AllocationShows ==
  ASSUME NEW n \in IndicesOf(layout)
  PROVE  LET b == IndexToBlockIndex(n)
             A == Allocated(n)
         IN  /\ IndexToCellIndex(n) \in DOMAIN A
             /\ A = [cell \in DOMAIN A |-> A[cell]]
             /\ \A cell \in DOMAIN A : A[cell] = Stored(b, cell)
             /\ b \in DOMAIN block_map => DOMAIN block_map[b] \subseteq DOMAIN A
             /\ \A cell : cell \notin DOMAIN A => Stored(b, cell) = 0
<1> DEFINE b == IndexToBlockIndex(n)
           block == IF b \in DOMAIN block_map THEN block_map[b] ELSE NewBlock(b)
           above == {IndexToCellIndex(ParentIndex(n, h)) :
                       h \in n.height..IF layout = "tree" THEN MaxHeight ELSE 0}
           A == Allocated(n)
<1>1. A = [cell \in DOMAIN block \cup above |-> IF cell \in DOMAIN block THEN block[cell] ELSE 0]
  BY DEF Allocated
<1>2. IndexToCellIndex(n) \in above
  <2>1. /\ n.height \in 0..MaxHeight /\ ParentIndex(n, n.height) = n
        /\ layout # "tree" => n.height = 0
    BY IndexIsNode
  <2>2. n.height \in n.height..IF layout = "tree" THEN MaxHeight ELSE 0 BY <2>1, IndexAssumption
  <2> QED BY <2>1, <2>2
<1>3. b \notin DOMAIN block_map => \A cell \in DOMAIN block : block[cell] = 0
  BY DEF NewBlock, Empty
<1> HIDE DEF block, above, A
<1>4. DOMAIN A = DOMAIN block \cup above /\ A = [cell \in DOMAIN A |-> A[cell]]
      /\ \A cell \in DOMAIN A : A[cell] = IF cell \in DOMAIN block THEN block[cell] ELSE 0
  BY <1>1
<1>5. b \in DOMAIN block_map => block = block_map[b] BY DEF block
<1> HIDE DEF b
<1>6. \A cell \in DOMAIN A : A[cell] = Stored(b, cell) BY <1>3, <1>4, <1>5 DEF Stored
<1>7. \A cell : cell \notin DOMAIN A => Stored(b, cell) = 0 BY <1>4, <1>5 DEF Stored
<1> QED BY <1>2, <1>4, <1>5, <1>6, <1>7 DEF A, b

LEMMA InitLooks == ASSUME HashInit PROVE HashInv
<1>1. HashTypeOK BY DEF HashInit, HashTypeOK, Empty
<1>2. TreesAreRooted /\ LookupsAreRight
  BY DEF HashInit, TreesAreRooted, LookupsAreRight, ValueOrDefault, Empty
<1> QED BY <1>1, <1>2 DEF HashInv

LEMMA StoreStep ==
  ASSUME HashInv, NEW n \in IndicesOf(layout), NEW v \in Int, Store(n, v),
         held' = [held EXCEPT ![n] = v]
  PROVE  HashTypeOK' /\ LookupsAreRight'
<1> PICK b, own, A : b = IndexToBlockIndex(n) /\ own = IndexToCellIndex(n) /\ A = Allocated(n)
  OBVIOUS
<1>1. HashTypeOK /\ LookupsAreRight /\ layout' = layout BY DEF HashInv, Store
<1>2. block_map' = [c \in DOMAIN block_map \cup {b} |->
                      IF c = b THEN [A EXCEPT ![own] = v] ELSE block_map[c]]
  BY DEF Store
<1>3. /\ own \in DOMAIN A /\ A = [cell \in DOMAIN A |-> A[cell]]
      /\ \A cell \in DOMAIN A : A[cell] = Stored(b, cell)
      /\ \A cell : cell \notin DOMAIN A => Stored(b, cell) = 0
  BY AllocationShows
<1>4. /\ DOMAIN block_map' = DOMAIN block_map \cup {b}
      /\ DOMAIN block_map'[b] = DOMAIN A /\ block_map'[b][own] = v
      /\ \A cell \in DOMAIN A : cell # own => block_map'[b][cell] = A[cell]
      /\ \A c \in DOMAIN block_map : c # b => block_map'[c] = block_map[c]
  BY <1>2, <1>3
<1>5. IndicesOf(layout)' = IndicesOf(layout) BY <1>1 DEF IndicesOf
<1>6. HashTypeOK'
  <2>1. held' \in [IndicesOf(layout) -> Int] BY <1>1 DEF HashTypeOK
  <2>2. b \in {IndexToBlockIndex(m) : m \in NodeIndex} BY IndexIsNode
  <2>3. block_map' = [c \in DOMAIN block_map' |-> block_map'[c]] BY <1>2
  <2>4. ASSUME NEW c \in DOMAIN block_map'
        PROVE  block_map'[c] = [cell \in DOMAIN block_map'[c] |-> block_map'[c][cell]]
    <3>1. CASE c = b
      <4>1. block_map'[b] = [A EXCEPT ![own] = v] BY <1>2
      <4>2. [A EXCEPT ![own] = v] = [cell \in DOMAIN A |-> [A EXCEPT ![own] = v][cell]] OBVIOUS
      <4> QED BY <3>1, <4>1, <4>2, <1>4
    <3>2. CASE c # b BY <3>2, <1>1, <1>4 DEF HashTypeOK
    <3> QED BY <3>1, <3>2
  <2> QED BY <2>1, <2>2, <2>3, <2>4, <1>1, <1>4, <1>5 DEF HashTypeOK
<1>7. LookupsAreRight'
  <2>0. DOMAIN held' = IndicesOf(layout) /\ DOMAIN held = IndicesOf(layout) /\ held'[n] = v
        /\ \A m \in DOMAIN held : m # n => held'[m] = held[m]
    BY <1>1 DEF HashTypeOK
  <2>1. ASSUME NEW m \in IndicesOf(layout) PROVE ValueOrDefault(m)' = held'[m]
    <3> PICK c, cell : c = IndexToBlockIndex(m) /\ cell = IndexToCellIndex(m) OBVIOUS
    <3>1. Stored(c, cell) = held[m] BY <1>1, <2>0, LookupIsStored DEF LookupsAreRight
    <3>2. ValueOrDefault(m)' =
            IF c \in DOMAIN block_map' /\ cell \in DOMAIN block_map'[c]
            THEN block_map'[c][cell] ELSE 0
      BY DEF ValueOrDefault
    <3>3. CASE m = n BY <3>2, <3>3, <2>0, <1>3, <1>4
    <3>4. CASE m # n /\ c # b
      <4>1. ValueOrDefault(m)' = Stored(c, cell) BY <3>2, <3>4, <1>4 DEF Stored
      <4> QED BY <4>1, <3>1, <3>4, <2>0
    <3>5. CASE m # n /\ c = b
      <4>1. cell # own BY <3>5, IndexIsNode, BlockAndCellTell
      <4>2. ValueOrDefault(m)' = Stored(c, cell) BY <3>2, <3>5, <4>1, <1>3, <1>4
      <4> QED BY <4>2, <3>1, <3>5, <2>0
    <3> QED BY <3>3, <3>4, <3>5
  <2> QED BY <2>0, <2>1 DEF LookupsAreRight
<1> QED BY <1>6, <1>7

\* A node and its ancestors are in one block, below its root.
LEMMA AncestorInBlock ==
  ASSUME NEW n \in NodeIndex, NEW h \in n.height..MaxHeight
  PROVE  /\ ParentIndex(n, h) \in NodeIndex /\ ParentIndex(n, h).height = h
         /\ h \in 0..MaxHeight
         /\ IndexToBlockIndex(ParentIndex(n, h)) = IndexToBlockIndex(n)
         /\ ParentIndex(n, MaxHeight) = Node(MaxHeight, IndexToBlockIndex(n))
         /\ \A g \in h..MaxHeight : ParentIndex(ParentIndex(n, h), g) = ParentIndex(n, g)
<1>1. /\ n.height \in 0..MaxHeight /\ n.position \in [Axis -> Int]
      /\ n = Node(n.height, n.position) /\ ParentIndex(n, h) \in NodeIndex
  BY NodeIs
<1>2. h \in 0..MaxHeight /\ MaxHeight \in h..MaxHeight /\ MaxHeight \in n.height..MaxHeight
  BY <1>1, IndexAssumption
<1>3. ParentIndex(n, h).height = h BY DEF ParentIndex, Node
<1>4. \A g \in h..MaxHeight : ParentIndex(ParentIndex(n, h), g) = ParentIndex(n, g)
  BY <1>1, AncestorOfAncestor
<1>5. ParentIndex(n, MaxHeight) = Node(MaxHeight, IndexToBlockIndex(n))
  BY DEF ParentIndex, IndexToBlockIndex, Node
<1> QED BY <1>1, <1>2, <1>3, <1>4, <1>5 DEF IndexToBlockIndex

LEMMA StoreRoots ==
  ASSUME HashInv, NEW n \in IndicesOf(layout), NEW v, Store(n, v) PROVE TreesAreRooted'
<1> SUFFICES ASSUME layout = "tree" PROVE TreesAreRooted' BY DEF TreesAreRooted, Store
<1> PICK b, own, A : b = IndexToBlockIndex(n) /\ own = IndexToCellIndex(n) /\ A = Allocated(n)
  OBVIOUS
<1> DEFINE Rooted(c, cells) ==
             /\ IndexToCellIndex(Node(MaxHeight, c)) \in cells
             /\ \A m \in IndicesIn(c), h \in 0..MaxHeight :
                  m.height <= h /\ IndexToCellIndex(m) \in cells =>
                    IndexToCellIndex(ParentIndex(m, h)) \in cells
<1>1. TreesAreRooted /\ layout' = layout BY DEF HashInv, Store
<1>2. \A c : IndicesIn(c)' = IndicesIn(c) BY <1>1 DEF IndicesIn, IndicesOf
<1>3. /\ DOMAIN block_map' = DOMAIN block_map \cup {b}
      /\ DOMAIN block_map'[b] = DOMAIN A
      /\ \A c \in DOMAIN block_map : c # b => block_map'[c] = block_map[c]
  <2>1. block_map' = [c \in DOMAIN block_map \cup {b} |->
                      IF c = b THEN [A EXCEPT ![own] = v] ELSE block_map[c]]
    BY DEF Store
  <2> QED BY <2>1
<1>4. n \in NodeIndex /\ n.height \in 0..MaxHeight BY IndexIsNode
<1> DEFINE old == IF b \in DOMAIN block_map THEN DOMAIN block_map[b]
                  ELSE {IndexToCellIndex(Node(MaxHeight, b))}
           above == {IndexToCellIndex(ParentIndex(n, h)) : h \in n.height..MaxHeight}
<1>5. DOMAIN A = old \cup above BY DEF Allocated, NewBlock
<1> HIDE DEF old, above
<1>6. Rooted(b, DOMAIN A)
  <2>1. IndexToCellIndex(Node(MaxHeight, b)) \in old BY <1>1 DEF old, TreesAreRooted
  <2>2. ASSUME NEW m \in IndicesIn(b), NEW h \in 0..MaxHeight,
               m.height <= h, IndexToCellIndex(m) \in DOMAIN A
        PROVE  IndexToCellIndex(ParentIndex(m, h)) \in DOMAIN A
    <3>0. m \in NodeIndex /\ IndexToBlockIndex(m) = b /\ m.height \in 0..MaxHeight
          /\ h \in m.height..MaxHeight
      <4>1. m \in NodeIndex /\ IndexToBlockIndex(m) = b BY DEF IndicesIn, IndicesOf
      <4> QED BY <4>1, <2>2, NodeIs
    <3>1. CASE IndexToCellIndex(m) \in old /\ b \in DOMAIN block_map
      BY <3>1, <2>2, <1>1, <1>5 DEF old, TreesAreRooted
    <3>2. CASE IndexToCellIndex(m) \in old /\ b \notin DOMAIN block_map
      <4>1. IndexToCellIndex(m) = IndexToCellIndex(Node(MaxHeight, b)) BY <3>2 DEF old
      <4>2. m.height = MaxHeight BY <4>1 DEF IndexToCellIndex, Node
      <4>3. h = MaxHeight BY <4>2, <3>0, <2>2, IndexAssumption
      <4>4. ParentIndex(m, h) = Node(MaxHeight, b) BY <4>3, <3>0, AncestorInBlock
      <4> QED BY <4>4, <2>1, <1>5
    <3>3. CASE IndexToCellIndex(m) \in above
      <4>1. PICK g \in n.height..MaxHeight : IndexToCellIndex(m) = IndexToCellIndex(ParentIndex(n, g))
        BY <3>3 DEF above
      <4>2. /\ ParentIndex(n, g) \in NodeIndex /\ IndexToBlockIndex(ParentIndex(n, g)) = b
            /\ ParentIndex(n, g).height = g
            /\ \A k \in g..MaxHeight : ParentIndex(ParentIndex(n, g), k) = ParentIndex(n, k)
        BY <1>4, AncestorInBlock
      <4>3. m = ParentIndex(n, g) BY <4>1, <4>2, <3>0, BlockAndCellTell
      <4>4. h \in g..MaxHeight /\ h \in n.height..MaxHeight BY <4>2, <4>3, <3>0, <1>4, IndexAssumption
      <4>5. ParentIndex(m, h) = ParentIndex(n, h) BY <4>2, <4>3, <4>4
      <4> QED BY <4>4, <4>5, <1>5 DEF above
    <3> QED BY <2>2, <3>1, <3>2, <3>3, <1>5
  <2> QED BY <2>1, <2>2, <1>5
<1>7. ASSUME NEW c \in DOMAIN block_map' PROVE Rooted(c, DOMAIN block_map'[c])
  <2>1. CASE c = b BY <2>1, <1>3, <1>6
  <2>2. CASE c # b BY <2>2, <1>1, <1>3 DEF TreesAreRooted
  <2> QED BY <2>1, <2>2
<1> QED BY <1>1, <1>2, <1>7 DEF TreesAreRooted

\* Blocks are left out, or values without weight in them.
LEMMA KeepStep ==
  ASSUME HashInv, NEW blocks \in SUBSET DOMAIN block_map, layout' = layout,
         block_map' = Restrict(block_map, blocks),
         held' = [n \in DOMAIN held |-> IF IndexToBlockIndex(n) \in blocks THEN held[n] ELSE 0]
  PROVE  HashInv'
<1>1. /\ DOMAIN block_map' = blocks
      /\ \A b \in blocks : block_map'[b] = block_map[b]
      /\ block_map' = [b \in DOMAIN block_map' |-> block_map'[b]]
  BY DEF Restrict
<1>2. HashTypeOK /\ TreesAreRooted /\ LookupsAreRight BY DEF HashInv
<1>3. HashTypeOK'
  <2>1. held \in [IndicesOf(layout) -> Int] BY <1>2 DEF HashTypeOK
  <2>2. held' \in [IndicesOf(layout) -> Int] BY <2>1
  <2>3. \A b \in DOMAIN block_map' :
          block_map'[b] = [cell \in DOMAIN block_map'[b] |-> block_map'[b][cell]]
    BY <1>1, <1>2 DEF HashTypeOK
  <2>4. DOMAIN block_map' \subseteq {IndexToBlockIndex(n) : n \in NodeIndex}
    BY <1>1, <1>2 DEF HashTypeOK
  <2>5. layout' \in Layout /\ IndicesOf(layout)' = IndicesOf(layout)
    BY <1>2 DEF HashTypeOK, IndicesOf
  <2>6. block_map' = [b \in DOMAIN block_map' |-> block_map'[b]] BY <1>1
  <2> QED BY <2>2, <2>3, <2>4, <2>5, <2>6 DEF HashTypeOK
<1>4. TreesAreRooted' BY <1>1, <1>2 DEF TreesAreRooted, IndicesIn, IndicesOf
<1>5. LookupsAreRight'
  <2>1. ASSUME NEW n \in DOMAIN held PROVE ValueOrDefault(n)' = held'[n]
    <3>1. ValueOrDefault(n) = held[n] BY <1>2 DEF LookupsAreRight
    <3> QED BY <3>1, <1>1 DEF ValueOrDefault
  <2> QED BY <2>1 DEF LookupsAreRight
<1> QED BY <1>3, <1>4, <1>5 DEF HashInv

LEMMA EraseStep == ASSUME HashInv, EraseBlocks PROVE HashInv'
<1>1. PICK erased \in SUBSET DOMAIN block_map :
        /\ Keep(DOMAIN block_map \ erased)
        /\ held' = [n \in DOMAIN held |-> IF IndexToBlockIndex(n) \in erased THEN 0 ELSE held[n]]
  BY DEF EraseBlocks
<1> DEFINE blocks == DOMAIN block_map \ erased
<1>2. ASSUME NEW n \in DOMAIN held
      PROVE  (IF IndexToBlockIndex(n) \in erased THEN 0 ELSE held[n]) =
             (IF IndexToBlockIndex(n) \in blocks THEN held[n] ELSE 0)
  <2>1. ValueOrDefault(n) = held[n] BY DEF HashInv, LookupsAreRight
  <2> QED BY <2>1 DEF ValueOrDefault
<1>3. held' = [n \in DOMAIN held |-> IF IndexToBlockIndex(n) \in blocks THEN held[n] ELSE 0]
  BY <1>1, <1>2
<1>4. block_map' = Restrict(block_map, blocks) /\ layout' = layout BY <1>1 DEF Keep
<1> HIDE DEF blocks
<1>5. blocks \in SUBSET DOMAIN block_map BY DEF blocks
<1> QED BY <1>3, <1>4, <1>5, KeepStep

LEMMA ThresholdStep == ASSUME HashInv, ThresholdMap PROVE HashInv'
<1>1. HashTypeOK /\ TreesAreRooted /\ LookupsAreRight BY DEF HashInv
<1>2. /\ layout = "wavelet" /\ layout' = layout
      /\ DOMAIN block_map' = DOMAIN block_map
      /\ block_map' = [b \in DOMAIN block_map' |-> block_map'[b]]
      /\ \A b \in DOMAIN block_map :
           /\ DOMAIN block_map'[b] = DOMAIN block_map[b]
           /\ block_map'[b] = [cell \in DOMAIN block_map'[b] |-> block_map'[b][cell]]
           /\ \A cell \in DOMAIN block_map[b] : block_map'[b][cell] = Limited(block_map[b][cell])
      /\ DOMAIN held' = DOMAIN held
      /\ held' = [n \in DOMAIN held |-> held'[n]]
      /\ \A n \in DOMAIN held : held'[n] = Limited(held[n])
  BY DEF ThresholdMap
<1>3. \A x \in Int : Limited(x) \in Int BY HashAssumption DEF Limited
<1>4. Limited(0) = 0 BY HashAssumption DEF Limited
<1>5. HashTypeOK' BY <1>1, <1>2, <1>3 DEF HashTypeOK, IndicesOf
<1>6. TreesAreRooted' BY <1>2 DEF TreesAreRooted
<1>7. ASSUME NEW n \in DOMAIN held PROVE ValueOrDefault(n)' = held'[n]
  <2>1. ValueOrDefault(n) = held[n] BY <1>1 DEF LookupsAreRight
  <2>2. ValueOrDefault(n)' = Limited(ValueOrDefault(n)) BY <1>2, <1>4 DEF ValueOrDefault
  <2> QED BY <2>1, <2>2, <1>2
<1>8. LookupsAreRight' BY <1>2, <1>7 DEF LookupsAreRight
<1> QED BY <1>5, <1>6, <1>8 DEF HashInv

LEMMA PruneStep == ASSUME HashInv, NEW which, PruneBlocks(which) PROVE HashInv'
<1> DEFINE after == [b \in DOMAIN block_map |-> IF b \in which THEN PrunedBlock(block_map[b])
                                                ELSE block_map[b]]
           kept == {b \in DOMAIN after : ~EmptyBlock(after[b])}
<1>1. HashTypeOK /\ LookupsAreRight BY DEF HashInv
<1>2. /\ layout # "tree" /\ layout' = layout /\ held' = held
      /\ block_map' = Restrict(after, kept)
  BY DEF PruneBlocks
<1>3. /\ DOMAIN block_map' = kept /\ kept \subseteq DOMAIN block_map
      /\ block_map' = [b \in DOMAIN block_map' |-> block_map'[b]]
      /\ \A b \in kept : block_map'[b] = after[b]
  BY <1>2 DEF Restrict
<1>4. ASSUME NEW b \in DOMAIN block_map
      PROVE  /\ DOMAIN after[b] \subseteq DOMAIN block_map[b]
             /\ after[b] = [cell \in DOMAIN after[b] |-> after[b][cell]]
             /\ \A cell \in DOMAIN after[b] : after[b][cell] = block_map[b][cell]
             /\ \A cell \in DOMAIN block_map[b] \ DOMAIN after[b] : block_map[b][cell] = 0
             /\ b \notin kept => \A cell \in DOMAIN after[b] : after[b][cell] = 0
  <2>1. after[b] = block_map[b] \/
        after[b] = [cell \in {k \in DOMAIN block_map[b] : block_map[b][k] # 0} |-> block_map[b][cell]]
    BY DEF PrunedBlock, Restrict
  <2>2. block_map[b] = [cell \in DOMAIN block_map[b] |-> block_map[b][cell]] BY <1>1 DEF HashTypeOK
  <2>3. b \notin kept => EmptyBlock(after[b]) OBVIOUS
  <2> HIDE DEF after, kept
  <2>4. b \notin kept => \A cell \in DOMAIN after[b] : after[b][cell] = 0 BY <2>3 DEF EmptyBlock
  <2> QED BY <2>1, <2>2, <2>4
<1> HIDE DEF after, kept
<1>5. HashTypeOK' BY <1>1, <1>2, <1>3, <1>4 DEF HashTypeOK, IndicesOf
<1>6. TreesAreRooted' BY <1>2 DEF TreesAreRooted
<1>7. ASSUME NEW n \in DOMAIN held PROVE ValueOrDefault(n)' = held[n]
  <2>1. ValueOrDefault(n) = held[n] BY <1>1 DEF LookupsAreRight
  <2> PICK b, cell : b = IndexToBlockIndex(n) /\ cell = IndexToCellIndex(n) OBVIOUS
  <2>2. held[n] = IF b \in DOMAIN block_map /\ cell \in DOMAIN block_map[b]
                  THEN block_map[b][cell] ELSE 0
    BY <2>1 DEF ValueOrDefault
  <2>3. ValueOrDefault(n)' = IF b \in kept /\ cell \in DOMAIN after[b] THEN after[b][cell] ELSE 0
    BY <1>3 DEF ValueOrDefault
  <2>4. CASE b \notin DOMAIN block_map BY <2>2, <2>3, <2>4, <1>3
  <2>5. CASE b \in DOMAIN block_map /\ cell \in DOMAIN after[b]
    <3>1. held[n] = block_map[b][cell] /\ after[b][cell] = block_map[b][cell]
      BY <2>2, <2>5, <1>4
    <3>2. CASE b \in kept BY <2>3, <2>5, <3>1, <3>2
    <3>3. CASE b \notin kept BY <2>3, <2>5, <3>1, <3>3, <1>4
    <3> QED BY <3>2, <3>3
  <2>6. CASE b \in DOMAIN block_map /\ cell \notin DOMAIN after[b] BY <2>2, <2>3, <2>6, <1>4
  <2> QED BY <2>4, <2>5, <2>6
<1>8. LookupsAreRight' BY <1>2, <1>7 DEF LookupsAreRight
<1> QED BY <1>5, <1>6, <1>8 DEF HashInv

LEMMA HashStep == HashInv /\ [HashNext]_hashVars => HashInv'
<1> SUFFICES ASSUME HashInv, [HashNext]_hashVars PROVE HashInv' OBVIOUS
<1>1. CASE WriteValue
  <2>1. PICK n \in WrittenNode \cap IndicesOf(layout), v \in WrittenValue :
          Store(n, v) /\ held' = [held EXCEPT ![n] = v]
    BY <1>1 DEF WriteValue
  <2>2. v \in Int BY HashAssumption
  <2> QED BY <2>1, <2>2, StoreStep, StoreRoots DEF HashInv
<1>2. CASE AddToValue
  <2> DEFINE Sum(old, v) == IF layout = "dense" THEN Limited(old + v) ELSE old + v
  <2>1. PICK n \in WrittenNode \cap IndicesOf(layout), v \in WrittenValue :
          /\ Sum(ValueOrDefault(n), v) \in -MaxValue..MaxValue
          /\ Store(n, Sum(ValueOrDefault(n), v))
          /\ held' = [held EXCEPT ![n] = Sum(@, v)]
    BY <1>2 DEF AddToValue
  <2>2. n \in DOMAIN held /\ held[n] \in Int BY DEF HashInv, HashTypeOK
  <2>3. ValueOrDefault(n) = held[n] BY <2>2 DEF HashInv, LookupsAreRight
  <2>4. PICK s : s = Sum(held[n], v) OBVIOUS
  <2>5. s \in Int BY <2>2, <2>4, HashAssumption DEF Limited
  <2>6. held' = [held EXCEPT ![n] = s] /\ Store(n, s) BY <2>1, <2>3, <2>4
  <2> QED BY <2>5, <2>6, StoreStep, StoreRoots DEF HashInv
<1>3. CASE EraseBlocks BY <1>3, EraseStep
<1>7. CASE SetHashedCell
  <2>1. PICK n \in WrittenNode \cap IndicesOf(layout), v \in WrittenValue, parent \in -MaxValue..MaxValue :
          /\ ValueOrDefault(n) + v - parent \in -MaxValue..MaxValue
          /\ Store(n, ValueOrDefault(n) + v - parent)
          /\ held' = [held EXCEPT ![n] = @ + v - parent]
    BY <1>7 DEF SetHashedCell
  <2>2. n \in DOMAIN held BY DEF HashInv, HashTypeOK
  <2>3. ValueOrDefault(n) = held[n] BY <2>2 DEF HashInv, LookupsAreRight
  <2>4. PICK s : s = ValueOrDefault(n) + v - parent OBVIOUS
  <2>5. s \in Int BY <2>1, <2>4
  <2>6. held' = [held EXCEPT ![n] = s] /\ Store(n, s) BY <2>1, <2>3, <2>4
  <2> QED BY <2>5, <2>6, StoreStep, StoreRoots DEF HashInv
<1>4. CASE ThresholdMap BY <1>4, ThresholdStep
<1>5. CASE PruneMap \/ PruneSmart BY <1>5, PruneStep DEF PruneMap, PruneSmart
<1>6. CASE TimePassesBy \/ UNCHANGED hashVars
  <2>1. UNCHANGED <<layout, block_map, held>> BY <1>6 DEF TimePassesBy, hashVars
  <2> QED BY <2>1 DEF HashInv, HashTypeOK, TreesAreRooted, LookupsAreRight, ValueOrDefault,
                      IndicesOf, IndicesIn
<1> QED BY <1>1, <1>2, <1>3, <1>4, <1>5, <1>6, <1>7 DEF HashNext

-----------------------------------------------------------------------------
(* The extent of the map                                                   *)

LEMMA ExtremesExist ==
  ASSUME NEW K \in Nat, NEW S \in SUBSET (-K..K), S # {}
  PROVE  /\ Min(S) \in S /\ \A y \in S : Min(S) <= y
         /\ Max(S) \in S /\ \A y \in S : y <= Max(S)
<1>1. \E x \in S : \A y \in S : x <= y
  <2> DEFINE T == {x + K : x \in S}
  <2>1. T \in SUBSET Nat /\ T # {} OBVIOUS
  <2>2. PICK t \in T : \A y \in T : t <= y
    <3> HIDE DEF T
    <3> QED BY <2>1, LeastNumber
  <2>3. PICK x \in S : t = x + K OBVIOUS
  <2>4. ASSUME NEW y \in S PROVE x <= y
    <3>1. y + K \in T /\ y \in Int OBVIOUS
    <3>2. t <= y + K BY <3>1, <2>2
    <3> QED BY <3>1, <3>2, <2>3
  <2> QED BY <2>4
<1>2. \E x \in S : \A y \in S : y <= x
  <2> DEFINE T == {K - x : x \in S}
  <2>1. T \in SUBSET Nat /\ T # {} OBVIOUS
  <2>2. PICK t \in T : \A y \in T : t <= y
    <3> HIDE DEF T
    <3> QED BY <2>1, LeastNumber
  <2>3. PICK x \in S : t = K - x OBVIOUS
  <2>4. ASSUME NEW y \in S PROVE y <= x
    <3>1. K - y \in T /\ y \in Int OBVIOUS
    <3>2. t <= K - y BY <3>1, <2>2
    <3> QED BY <3>1, <3>2, <2>3
  <2> QED BY <2>4
<1>3. S \subseteq Int OBVIOUS
<1>4. Min(S) \in S /\ \A y \in S : Min(S) <= y BY <1>1 DEF Min
<1>5. Max(S) \in S /\ \A y \in S : Max(S) >= y
  <2>1. \E x \in S : \A y \in S : x >= y BY <1>2, <1>3
  <2> QED BY <2>1 DEF Max
<1> QED BY <1>3, <1>4, <1>5

LEMMA QuotientBound ==
  ASSUME NEW K \in Nat, NEW n \in -K..K, NEW c \in Nat \ {0} PROVE n \div c \in -K..K
<1>1. PICK a \in Int, r \in 0..(c - 1) : n = c * a + r /\ n \div c = a BY DivisionIs
<1>2. c * K >= 1 * K
  <2>1. c - 1 >= 0 /\ K >= 0 OBVIOUS
  <2>2. (c - 1) * K >= 0 BY <2>1
  <2> QED BY <2>2
<1>3. a <= K
  <2> SUFFICES ASSUME a > K PROVE FALSE BY <1>1
  <2>1. c * (a - K) >= c * 1 OBVIOUS
  <2>2. c * a >= c * K + c BY <2>1
  <2> QED BY <2>2, <1>1, <1>2
<1>4. a >= -K
  <2> SUFFICES ASSUME a < -K PROVE FALSE BY <1>1
  <2>1. c * (-K - a) >= c * 1 OBVIOUS
  <2>2. c * a <= -(c * K) - c BY <2>1
  <2> QED BY <2>2, <1>1, <1>2
<1> QED BY <1>1, <1>3, <1>4

\* Blocks do not lie beyond the cells.
LEMMA BlocksBounded ==
  \E K \in Nat : \A n \in NodeIndex : \A d \in Axis : IndexToBlockIndex(n)[d] \in -K..K
<1>1. PICK K \in Nat : K = 2^(Word - 1) BY IndexPowers
<1>2. Coordinate \subseteq -K..K BY <1>1, IndexAssumption
<1>3. ASSUME NEW n \in NodeIndex, NEW d \in Axis PROVE IndexToBlockIndex(n)[d] \in -K..K
  <2>1. PICK g \in 0..MaxHeight, c \in CellIndex : n = ParentIndex(Node(0, c), g) BY DEF NodeIndex
  <2>2. /\ c \in [Axis -> Int] /\ c[d] \in -K..K
        /\ 0 \in 0..MaxHeight /\ MaxHeight \in g..MaxHeight /\ MaxHeight \in 0..MaxHeight
        /\ MaxHeight - 0 = MaxHeight /\ MaxHeight \in 0..MaxHeight + Dim
    <3>1. c \in [Axis -> -K..K] BY <1>2 DEF CellIndex
    <3>2. c \in [Axis -> Int] /\ c[d] \in -K..K BY <3>1
    <3>3. MaxHeight \in Nat /\ Dim \in Nat BY IndexAssumption
    <3> QED BY <3>2, <3>3
  <2>3. ParentIndex(n, MaxHeight) = ParentIndex(Node(0, c), MaxHeight)
    BY <2>1, <2>2, AncestorOfAncestor
  <2>4. ParentIndex(Node(0, c), MaxHeight) =
          Node(MaxHeight, [k \in Axis |-> c[k] \div Exp2(MaxHeight - 0)])
    BY <2>2, AncestorIs
  <2>5. IndexToBlockIndex(n) = [k \in Axis |-> c[k] \div Exp2(MaxHeight)]
    BY <2>2, <2>3, <2>4 DEF IndexToBlockIndex, Node
  <2>6. Exp2(MaxHeight) \in Nat \ {0} BY <2>2, PowerIs
  <2> QED BY <2>2, <2>5, <2>6, QuotientBound
<1> QED BY <1>3

LEMMA ExtentLemma == ASSUME HashInv PROVE ExtentIsTight
<1>1. HashTypeOK /\ LookupsAreRight BY DEF HashInv
<1>2. PICK K \in Nat : \A n \in NodeIndex : \A d \in Axis : IndexToBlockIndex(n)[d] \in -K..K
  BY BlocksBounded
<1>3. PICK E \in Nat \ {0} : E = Exp2(MaxHeight)
  <2>1. MaxHeight \in 0..MaxHeight + Dim BY IndexAssumption
  <2> QED BY <2>1, PowerIs
<1>4. ASSUME NEW d \in Axis, DOMAIN block_map # {}
      PROVE  /\ Min(BlockCoordinates(d)) \in Int /\ Max(BlockCoordinates(d)) \in Int
             /\ \E b \in DOMAIN block_map : Min(BlockCoordinates(d)) = b[d]
             /\ \E b \in DOMAIN block_map : Max(BlockCoordinates(d)) = b[d]
             /\ \A b \in DOMAIN block_map : /\ b[d] \in Int
                                            /\ Min(BlockCoordinates(d)) <= b[d]
                                            /\ b[d] <= Max(BlockCoordinates(d))
  <2>1. \A b \in DOMAIN block_map : b[d] \in -K..K BY <1>1, <1>2 DEF HashTypeOK
  <2>2. BlockCoordinates(d) \in SUBSET (-K..K) /\ BlockCoordinates(d) # {}
    BY <1>4, <2>1 DEF BlockCoordinates
  <2>3. \A b \in DOMAIN block_map : b[d] \in BlockCoordinates(d) BY DEF BlockCoordinates
  <2>4. PICK lo, hi : lo = Min(BlockCoordinates(d)) /\ hi = Max(BlockCoordinates(d)) OBVIOUS
  <2>5. /\ lo \in BlockCoordinates(d) /\ hi \in BlockCoordinates(d)
        /\ \A y \in BlockCoordinates(d) : lo <= y
        /\ \A y \in BlockCoordinates(d) : y <= hi
    BY <2>2, <2>4, ExtremesExist
  <2>6. lo \in Int /\ hi \in Int BY <2>2, <2>5
  <2>7. (\E b \in DOMAIN block_map : lo = b[d]) /\ (\E b \in DOMAIN block_map : hi = b[d])
    BY <2>5 DEF BlockCoordinates
  <2>8. \A b \in DOMAIN block_map : b[d] \in Int BY <2>1
  <2>9. \A b \in DOMAIN block_map : lo <= b[d] /\ b[d] <= hi BY <2>3, <2>5
  <2> QED BY <2>4, <2>6, <2>7, <2>8, <2>9
<1>5. DOMAIN block_map # {} <=> block_map # Empty BY <1>1 DEF HashTypeOK, Empty
<1>6. ASSUME NEW n \in DOMAIN held, held[n] # 0, NEW d \in Axis
      PROVE  MinIndex[d] <= MinCornerIndex(n)[d] /\ MaxCornerIndex(n)[d] <= MaxIndex[d]
  <2>1. n \in NodeIndex BY <1>1 DEF HashTypeOK, IndicesOf
  <2>2. IndexToBlockIndex(n) \in DOMAIN block_map
    BY <1>1, <1>6 DEF LookupsAreRight, ValueOrDefault
  <2>3. PICK lo \in Int, hi \in Int, x \in Int, p \in Int :
          /\ lo = Min(BlockCoordinates(d)) /\ hi = Max(BlockCoordinates(d))
          /\ x = IndexToBlockIndex(n)[d] /\ p = n.position[d]
          /\ lo <= x /\ x <= hi
    BY <1>4, <2>1, <2>2, NodeIs
  <2>4. PICK f \in Nat \ {0}, g \in Nat \ {0} :
          f = Exp2(n.height) /\ g = Exp2(MaxHeight - n.height) /\ E = f * g
    <3>1. n.height \in 0..MaxHeight BY <2>1, NodeIs
    <3>2. /\ n.height \in 0..MaxHeight + Dim /\ MaxHeight - n.height \in 0..MaxHeight + Dim
          /\ n.height \in Nat /\ MaxHeight - n.height \in Nat
          /\ n.height + (MaxHeight - n.height) = MaxHeight /\ MaxHeight <= MaxHeight + Dim
      BY <3>1, IndexAssumption
    <3>3. Exp2(MaxHeight) = Exp2(n.height) * Exp2(MaxHeight - n.height) BY <3>2, PowersAdd
    <3> QED BY <3>2, <3>3, <1>3, PowerIs
  <2>5. x = p \div g BY <2>1, <2>3, <2>4, BlockAndCellAre
  <2>6. PICK r \in 0..(g - 1) : p = g * x + r
    <3>1. PICK a \in Int, r \in 0..(g - 1) : p = g * a + r /\ p \div g = a BY DivisionIs
    <3> QED BY <3>1, <2>5
  <2>7. MinIndex[d] = E * lo /\ MaxIndex[d] = E * (hi + 1) - 1
    BY <1>3, <1>5, <2>2, <2>3 DEF MinIndex, MaxIndex
  <2>8. MinCornerIndex(n)[d] = p * f /\ MaxCornerIndex(n)[d] = p * f + f - 1
    BY <2>3, <2>4 DEF MinCornerIndex, MaxCornerIndex
  <2>9. E * lo <= p * f
    <3>1. E * (x - lo) >= 0 BY <2>3
    <3>2. E * lo <= E * x BY <3>1
    <3>3. p * f = E * x + r * f BY <2>4, <2>6
    <3>4. r * f >= 0 OBVIOUS
    <3> QED BY <3>2, <3>3, <3>4
  <2>10. p * f + f - 1 <= E * (hi + 1) - 1
    <3>1. E * (hi - x) >= 0 BY <2>3
    <3>2. E * (x + 1) <= E * (hi + 1) BY <3>1
    <3>3. p * f + f = E * x + (r + 1) * f BY <2>4, <2>6
    <3>4. (g - (r + 1)) * f >= 0 OBVIOUS
    <3>5. (r + 1) * f <= E BY <3>4, <2>4
    <3> QED BY <3>2, <3>3, <3>5
  <2> QED BY <2>7, <2>8, <2>9, <2>10
<1>7. ASSUME block_map # Empty, NEW d \in Axis, NEW corner \in {MinIndex, MaxIndex}
      PROVE  \E b \in DOMAIN block_map : DivExp2Floor(corner[d], MaxHeight) = b[d]
  <2>1. PICK lo \in Int, hi \in Int :
          /\ lo = Min(BlockCoordinates(d)) /\ hi = Max(BlockCoordinates(d))
          /\ \E b \in DOMAIN block_map : lo = b[d]
          /\ \E b \in DOMAIN block_map : hi = b[d]
    BY <1>4, <1>5, <1>7
  <2>2. MinIndex[d] = E * lo /\ MaxIndex[d] = E * (hi + 1) - 1
    BY <1>3, <1>7, <2>1 DEF MinIndex, MaxIndex
  <2>3. (E * lo) \div E = lo
    <3>1. 0 \in 0..(E - 1) /\ E * lo = E * lo + 0 OBVIOUS
    <3> QED BY <3>1, QuotientIs
  <2>4. (E * (hi + 1) - 1) \div E = hi
    <3>1. E - 1 \in 0..(E - 1) /\ E * (hi + 1) - 1 = E * hi + (E - 1) OBVIOUS
    <3>2. (E * hi + (E - 1)) \div E = hi BY <3>1, QuotientIs
    <3> QED BY <3>1, <3>2
  <2> QED BY <2>1, <2>2, <2>3, <2>4, <1>3 DEF DivExp2Floor
<1> QED BY <1>6, <1>7 DEF ExtentIsTight

-----------------------------------------------------------------------------
(* Leaves                                                                  *)

\* There is a number with these bits.
LEMMA BitsAre ==
  ASSUME NEW B \in SUBSET Axis
  PROVE  \E k \in 0..Exp2(Dim) - 1 : \A d \in Axis : IsBitSet(k, d - 1) <=> d \in B
<1> DEFINE Has(D, k) == \A d \in 1..D : IsBitSet(k, d - 1) <=> d \in B
           S == {D \in Nat : D <= Dim => \E k \in Nat : k < Exp2(D) /\ Has(D, k)}
<1>0. Dim \in Nat /\ MaxHeight \in Nat BY IndexAssumption
<1>1. 0 \in S
  <2>1. Exp2(0) = 1 BY PowerIs
  <2>2. 0 \in Nat /\ 0 < Exp2(0) BY <2>1
  <2>3. Has(0, 0) OBVIOUS
  <2> HIDE DEF Has
  <2> QED BY <2>2, <2>3
<1>2. ASSUME NEW D \in Nat, D \in S PROVE D + 1 \in S
  <2> SUFFICES ASSUME D + 1 <= Dim PROVE \E k \in Nat : k < Exp2(D + 1) /\ Has(D + 1, k) OBVIOUS
  <2>1. PICK k \in Nat : k < Exp2(D) /\ Has(D, k) BY <1>0, <1>2
  <2>2. PICK E \in Nat \ {0} : E = Exp2(D) /\ Exp2(D + 1) = 2 * E
    <3>1. D \in 0..MaxHeight + Dim BY <1>0
    <3> QED BY <3>1, PowerIs
  <2>3. PICK bit \in {0, 1} : bit = 1 <=> D + 1 \in B OBVIOUS
  <2>4. PICK m \in Nat : m = E * bit + k OBVIOUS
  <2>5. m < 2 * E BY <2>1, <2>2, <2>3, <2>4
  <2>6. ASSUME NEW d \in 1..D PROVE IsBitSet(m, d - 1) <=> IsBitSet(k, d - 1)
    <3>1. PICK e \in Nat \ {0}, f \in Nat \ {0} : e = Exp2(d - 1) /\ E = e * (2 * f)
      <4>1. /\ d - 1 \in 0..MaxHeight + Dim /\ D - d \in 0..MaxHeight + Dim
            /\ (D - d) + 1 = D - d + 1 /\ (d - 1) + (D - d + 1) = D
            /\ d - 1 \in Nat /\ D - d + 1 \in Nat /\ D <= MaxHeight + Dim
        BY <1>0
      <4>2. Exp2(D) = Exp2(d - 1) * Exp2(D - d + 1)
        <5>1. Exp2((d - 1) + (D - d + 1)) = Exp2(d - 1) * Exp2(D - d + 1) BY <4>1, PowersAdd
        <5> QED BY <5>1, <4>1
      <4>3. PICK f \in Nat \ {0} : f = Exp2(D - d) /\ Exp2((D - d) + 1) = 2 * f BY <4>1, PowerIs
      <4>4. Exp2(d - 1) \in Nat \ {0} BY <4>1, PowerIs
      <4> QED BY <4>1, <4>2, <4>3, <4>4, <2>2
    <3>2. PICK a \in Int, r \in 0..(e - 1) : k = e * a + r /\ k \div e = a BY DivisionIs
    <3>3. PICK g \in Int : g = f * bit OBVIOUS
    <3>4. m = e * (a + 2 * g) + r
      <4>1. E * bit = e * (2 * g) BY <3>1, <3>3
      <4> QED BY <4>1, <3>2, <2>4
    <3>5. m \div e = a + 2 * g
      <4>1. a + 2 * g \in Int OBVIOUS
      <4> QED BY <4>1, <3>4, QuotientIs
    <3>6. (a + 2 * g) % 2 = a % 2 OBVIOUS
    <3> QED BY <3>1, <3>2, <3>5, <3>6 DEF IsBitSet
  <2>7. IsBitSet(m, (D + 1) - 1) <=> D + 1 \in B
    <3>1. k \in 0..(E - 1) BY <2>1, <2>2
    <3>2. m \div E = bit BY <3>1, <2>3, <2>4, QuotientIs
    <3>3. bit % 2 = bit BY <2>3
    <3>4. (D + 1) - 1 = D OBVIOUS
    <3> QED BY <3>2, <3>3, <3>4, <2>2, <2>3 DEF IsBitSet
  <2>8. \A d \in 1..(D + 1) : d \in 1..D \/ d = D + 1 OBVIOUS
  <2>9. Has(D + 1, m) BY <2>1, <2>6, <2>7, <2>8
  <2> HIDE DEF Has
  <2> QED BY <2>2, <2>4, <2>5, <2>9
<1> HIDE DEF S
<1>3. Dim \in S BY <1>0, <1>1, <1>2, NatInductionSet
<1>4. Exp2(Dim) \in Nat \ {0}
  <2>1. Dim \in 0..MaxHeight + Dim BY <1>0
  <2> QED BY <2>1, PowerIs
<1>5. PICK k \in Nat : k < Exp2(Dim) /\ Has(Dim, k) BY <1>0, <1>3 DEF S
<1>6. k \in 0..Exp2(Dim) - 1 BY <1>4, <1>5
<1> QED BY <1>5, <1>6 DEF Axis

ChildrenOf(n) == {ChildIndex(n, c) : c \in 0..Exp2(Dim) - 1}
There(n) == n.height >= 0 /\ IndexToCellIndex(n) \in DOMAIN block_map[IndexToBlockIndex(n)]
Inner(n) == n.height > 0 /\ \E child \in ChildrenOf(n) : There(child)

LEMMA ChildIs ==
  ASSUME NEW n \in NodeIndex, NEW child \in ChildrenOf(n)
  PROVE  child.height = n.height - 1 /\ ParentIndex(child, n.height) = n
<1>1. /\ n.height \in 0..MaxHeight /\ n.position \in [Axis -> Int]
      /\ n = Node(n.height, n.position)
  BY NodeIs
<1>2. PICK c \in 0..Exp2(Dim) - 1 : child = ChildIndex(n, c) BY DEF ChildrenOf
<1> DEFINE p == [d \in Axis |-> 2 * n.position[d] + IF IsBitSet(c, d - 1) THEN 1 ELSE 0]
<1>3. child.height = n.height - 1 /\ child.position = p BY <1>2 DEF ChildIndex, Node
<1>4. Exp2(n.height - child.height) = 2
  <2>1. n.height - (n.height - 1) = 0 + 1 BY <1>1
  <2>2. 0 \in 0..MaxHeight + Dim BY IndexAssumption
  <2> QED BY <2>1, <2>2, <1>3, PowerIs
<1>5. ASSUME NEW d \in Axis PROVE p[d] \div 2 = n.position[d]
  <2>1. PICK a \in Int : a = n.position[d] BY <1>1
  <2>2. PICK bit \in 0..(2 - 1) : p[d] = 2 * a + bit BY <2>1
  <2> HIDE DEF p
  <2>3. (2 * a + bit) \div 2 = a BY QuotientIs
  <2> QED BY <2>1, <2>2, <2>3
<1> HIDE DEF p
<1>6. [d \in Axis |-> DivExp2Floor(child.position[d], n.height - child.height)] = n.position
  BY <1>1, <1>3, <1>4, <1>5 DEF DivExp2Floor
<1> QED BY <1>1, <1>3, <1>6 DEF ParentIndex

\* Each node is among the children of its parent.
LEMMA ChildOfParent ==
  ASSUME NEW n \in NodeIndex, n.height < MaxHeight
  PROVE  n \in ChildrenOf(ParentIndex(n, n.height + 1))
<1>1. /\ n.height \in 0..MaxHeight /\ n.position \in [Axis -> Int]
      /\ n = Node(n.height, n.position)
  BY NodeIs
<1> PICK h \in Nat : h = n.height BY <1>1
<1>2. PICK k \in 0..Exp2(Dim) - 1 :
        \A d \in Axis : IsBitSet(k, d - 1) <=> d \in {x \in Axis : n.position[x] % 2 = 1}
  BY BitsAre
<1>3. Exp2((h + 1) - h) = 2
  <2>1. (h + 1) - h = 0 + 1 OBVIOUS
  <2>2. 0 \in 0..MaxHeight + Dim BY IndexAssumption
  <2> QED BY <2>1, <2>2, PowerIs
<1>4. ParentIndex(n, h + 1) = Node(h + 1, [d \in Axis |-> n.position[d] \div 2])
  BY <1>3 DEF ParentIndex, DivExp2Floor
<1>5. ASSUME NEW d \in Axis
      PROVE  2 * (n.position[d] \div 2) + (IF IsBitSet(k, d - 1) THEN 1 ELSE 0) = n.position[d]
  <2>1. PICK a \in Int : a = n.position[d] BY <1>1
  <2>2. PICK q \in Int, r \in 0..(2 - 1) : a = 2 * q + r /\ a \div 2 = q /\ a % 2 = r BY DivisionIs
  <2>3. IsBitSet(k, d - 1) <=> r = 1 BY <1>2, <2>1, <2>2
  <2> QED BY <2>1, <2>2, <2>3
<1>6. [d \in Axis |-> 2 * (n.position[d] \div 2) + (IF IsBitSet(k, d - 1) THEN 1 ELSE 0)]
        = n.position
  BY <1>1, <1>5
<1>7. (h + 1) - 1 = n.height OBVIOUS
<1>8. ChildIndex(ParentIndex(n, h + 1), k) = n BY <1>1, <1>4, <1>6, <1>7 DEF ChildIndex, Node
<1> QED BY <1>8 DEF ChildrenOf

LEMMA LeavesAre ==
  ASSUME layout = "tree"
  PROVE  \A leaf : leaf \in Leaves <=>
           \E b \in DOMAIN block_map : \E n \in IndicesIn(b) :
             /\ There(n)
             /\ \/ /\ Inner(n)
                   /\ \E child \in ChildrenOf(n) :
                        ~There(child) /\ leaf = [node |-> child, value |-> ValueOrDefault(n)]
                \/ ~Inner(n) /\ leaf = [node |-> n, value |-> ValueOrDefault(n)]
<1>1. Leaves =
        UNION {UNION {IF Inner(n)
                      THEN {[node |-> child, value |-> ValueOrDefault(n)] :
                              child \in {c \in ChildrenOf(n) : ~There(c)}}
                      ELSE {[node |-> n, value |-> ValueOrDefault(n)]} :
                        n \in {m \in IndicesIn(b) : There(m)}} : b \in DOMAIN block_map}
  BY DEF Leaves, Inner, There, ChildrenOf
<1> QED BY <1>1

LEMMA OneLeafOver ==
  ASSUME HashInv, NEW b \in DOMAIN block_map, NEW c \in IndicesIn(b), c.height = 0
  PROVE  LET over == {leaf \in Leaves : leaf.node = ParentIndex(c, leaf.node.height)}
             way == {h \in 0..MaxHeight : IndexToCellIndex(ParentIndex(c, h)) \in DOMAIN block_map[b]}
         IN  \E one : /\ over = {one}
                      /\ layout = "tree" => one.value = held[ParentIndex(c, Min(way))]
<1> DEFINE over == {leaf \in Leaves : leaf.node = ParentIndex(c, leaf.node.height)}
           way == {h \in 0..MaxHeight : IndexToCellIndex(ParentIndex(c, h)) \in DOMAIN block_map[b]}
<1>1. c \in NodeIndex /\ IndexToBlockIndex(c) = b /\ MaxHeight \in Nat
  BY IndexAssumption DEF IndicesIn, IndicesOf
<1>2. CASE layout # "tree"
  <2> DEFINE one == [node |-> c, value |-> ValueOrDefault(c)]
  <2>1. Leaves = UNION {{[node |-> n, value |-> ValueOrDefault(n)] : n \in IndicesIn(x)} :
                          x \in DOMAIN block_map}
    BY <1>2 DEF Leaves
  <2>2. ParentIndex(c, 0) = c /\ \A x : \A n \in IndicesIn(x) : n.height = 0
    BY <1>2, <1>1, IndexIsNode DEF IndicesIn, IndicesOf
  <2>3. one \in over BY <2>1, <2>2
  <2>4. ASSUME NEW leaf \in over PROVE leaf = one
    <3>1. PICK x \in DOMAIN block_map : \E n \in IndicesIn(x) :
            leaf = [node |-> n, value |-> ValueOrDefault(n)]
      BY <2>1
    <3> PICK n \in IndicesIn(x) : leaf = [node |-> n, value |-> ValueOrDefault(n)] BY <3>1
    <3>2. n = c BY <2>2
    <3> QED BY <3>2
  <2>5. over = {one} BY <2>3, <2>4
  <2> HIDE DEF over, way, one
  <2> QED BY <2>5, <1>2 DEF over, way
<1>3. CASE layout = "tree"
  <2> DEFINE A(h) == ParentIndex(c, h)
  <2>1. ASSUME NEW h \in 0..MaxHeight
        PROVE  /\ A(h) \in NodeIndex /\ A(h).height = h /\ IndexToBlockIndex(A(h)) = b
               /\ A(h) \in IndicesIn(b)
               /\ \A g \in h..MaxHeight : ParentIndex(A(h), g) = A(g)
    <3>1. h \in c.height..MaxHeight OBVIOUS
    <3>2. /\ A(h) \in NodeIndex /\ A(h).height = h /\ IndexToBlockIndex(A(h)) = b
          /\ \A g \in h..MaxHeight : ParentIndex(A(h), g) = A(g)
      BY <3>1, <1>1, AncestorInBlock
    <3> QED BY <3>2, <1>3 DEF IndicesIn, IndicesOf
  <2> HIDE DEF A
  <2>2. \A h \in 0..MaxHeight : There(A(h)) <=> h \in way
    <3> TAKE h \in 0..MaxHeight
    <3> QED BY <2>1 DEF There, A
  <2>3. MaxHeight \in way
    <3>1. A(MaxHeight) = Node(MaxHeight, b)
      <4>1. 0 \in c.height..MaxHeight BY <1>1
      <4> QED BY <4>1, <1>1, AncestorInBlock DEF A
    <3>2. IndexToCellIndex(A(MaxHeight)) \in DOMAIN block_map[b]
      BY <3>1, <1>3 DEF HashInv, TreesAreRooted
    <3>3. MaxHeight \in 0..MaxHeight BY <1>1
    <3> QED BY <3>2, <3>3 DEF A
  <2>4. ASSUME NEW h \in way, NEW g \in h..MaxHeight PROVE g \in way
    <3>1. h \in 0..MaxHeight /\ g \in 0..MaxHeight /\ h <= g OBVIOUS
    <3>2. IndexToCellIndex(A(h)) \in DOMAIN block_map[b] BY DEF A
    <3>3. A(h) \in IndicesIn(b) /\ A(h).height = h /\ ParentIndex(A(h), g) = A(g) BY <3>1, <2>1
    <3>4. IndexToCellIndex(A(g)) \in DOMAIN block_map[b]
      BY <3>1, <3>2, <3>3, <1>3 DEF HashInv, TreesAreRooted
    <3> QED BY <3>1, <3>4 DEF A
  <2>5. way \in SUBSET Nat OBVIOUS
  <2>6. way \subseteq 0..MaxHeight OBVIOUS
  <2> HIDE DEF way
  <2>7. PICK low : low = Min(way) /\ low \in way /\ \A y \in way : low <= y
    BY <2>3, <2>5, LeastNumber
  <2>8. low \in 0..MaxHeight BY <2>6, <2>7
  <2> DEFINE value == ValueOrDefault(A(low))
             one == [node |-> IF Inner(A(low)) THEN A(low - 1) ELSE A(low), value |-> value]
  <2>9. value = held[A(low)]
    <3>1. A(low) \in DOMAIN held BY <2>1, <2>8, <1>3 DEF HashInv, HashTypeOK, IndicesOf
    <3> QED BY <3>1 DEF HashInv, LookupsAreRight
  <2>10. ASSUME NEW h \in 1..MaxHeight
         PROVE  /\ A(h - 1) \in ChildrenOf(A(h)) /\ h - 1 \in 0..MaxHeight /\ h \in 0..MaxHeight
    <3>1. h - 1 \in 0..MaxHeight /\ h \in 0..MaxHeight /\ h \in (h - 1)..MaxHeight
          /\ (h - 1) + 1 = h /\ h - 1 < MaxHeight
      BY <1>1
    <3>2. A(h - 1) \in NodeIndex /\ A(h - 1).height = h - 1 /\ ParentIndex(A(h - 1), h) = A(h)
      BY <3>1, <2>1
    <3> QED BY <3>1, <3>2, ChildOfParent
  <2>11. one \in over
    <3>1. There(A(low)) /\ A(low) \in IndicesIn(b) /\ A(low).height = low BY <2>1, <2>2, <2>7, <2>8
    <3>2. CASE Inner(A(low))
      <4>1. low \in 1..MaxHeight BY <3>1, <3>2, <2>8 DEF Inner
      <4>2. A(low - 1) \in ChildrenOf(A(low)) /\ low - 1 \in 0..MaxHeight BY <4>1, <2>10
      <4>3. low - 1 \notin way BY <2>7, <4>1
      <4>4. ~There(A(low - 1)) BY <2>2, <4>2, <4>3
      <4>5. one = [node |-> A(low - 1), value |-> value] BY <3>2
      <4>6. one \in Leaves BY <3>1, <3>2, <4>2, <4>4, <4>5, <1>3, LeavesAre
      <4>7. A(low - 1).height = low - 1 BY <4>2, <2>1
      <4> QED BY <4>5, <4>6, <4>7 DEF A
    <3>3. CASE ~Inner(A(low))
      <4>1. one = [node |-> A(low), value |-> value] BY <3>3
      <4>2. one \in Leaves BY <3>1, <3>3, <4>1, <1>3, LeavesAre
      <4> QED BY <4>1, <4>2, <3>1 DEF A
    <3> QED BY <3>2, <3>3
  <2>12. ASSUME NEW leaf \in over PROVE leaf = one
    <3>1. leaf \in Leaves /\ leaf.node = A(leaf.node.height) BY DEF A
    <3>2. PICK n \in IndicesOf(layout) :
            /\ There(n)
            /\ \/ /\ Inner(n)
                  /\ \E child \in ChildrenOf(n) :
                       ~There(child) /\ leaf = [node |-> child, value |-> ValueOrDefault(n)]
               \/ ~Inner(n) /\ leaf = [node |-> n, value |-> ValueOrDefault(n)]
      BY <3>1, <1>3, LeavesAre DEF IndicesIn
    <3>3. n \in NodeIndex /\ n.height \in 0..MaxHeight BY IndexIsNode
    <3> PICK h \in 0..MaxHeight : h = n.height BY <3>3
    <3>4. CASE Inner(n)
      <4>1. PICK child \in ChildrenOf(n) :
              ~There(child) /\ leaf = [node |-> child, value |-> ValueOrDefault(n)]
        BY <3>2, <3>4
      <4>2. h \in 1..MaxHeight BY <3>4 DEF Inner
      <4>3. child.height = h - 1 /\ ParentIndex(child, h) = n BY <3>3, ChildIs
      <4>4. child = A(h - 1) BY <4>1, <4>3, <3>1
      <4>5. h - 1 \in 0..MaxHeight /\ h \in (h - 1)..MaxHeight BY <4>2, <1>1
      <4>6. n = A(h) BY <4>3, <4>4, <4>5, <2>1
      <4>7. h \in way /\ h - 1 \notin way BY <4>1, <4>4, <4>5, <4>6, <3>2, <2>2
      <4>8. low = h
        <5>1. low <= h BY <4>7, <2>7
        <5>2. ~(low <= h - 1)
          <6>1. ASSUME low <= h - 1 PROVE FALSE
            <7>1. h - 1 \in low..MaxHeight BY <6>1, <4>5, <2>8
            <7> QED BY <7>1, <4>7, <2>4, <2>7
          <6> QED BY <6>1
        <5> QED BY <5>1, <5>2, <2>8
      <4> QED BY <4>1, <4>4, <4>6, <4>8, <3>4
    <3>5. CASE ~Inner(n)
      <4>1. leaf = [node |-> n, value |-> ValueOrDefault(n)] BY <3>2, <3>5
      <4>2. n = A(h) BY <4>1, <3>1
      <4>3. h \in way BY <4>2, <3>2, <2>2
      <4>4. low = h
        <5>1. low <= h BY <4>3, <2>7
        <5>2. ~(low < h)
          <6>1. ASSUME low < h PROVE FALSE
            <7>1. h \in 1..MaxHeight /\ h - 1 \in low..MaxHeight BY <6>1, <2>8, <1>1
            <7>2. h - 1 \in way BY <7>1, <2>4, <2>7
            <7>3. A(h - 1) \in ChildrenOf(n) /\ There(A(h - 1)) BY <7>1, <7>2, <4>2, <2>2, <2>10
            <7>4. n.height > 0 BY <7>1
            <7> QED BY <7>3, <7>4, <3>5 DEF Inner
          <6> QED BY <6>1
        <5> QED BY <5>1, <5>2, <2>8
      <4> QED BY <4>1, <4>2, <4>4, <3>5
    <3> QED BY <3>2, <3>4, <3>5
  <2>13. over = {one} BY <2>11, <2>12
  <2>14. one.value = held[ParentIndex(c, Min(way))] BY <2>7, <2>9 DEF A
  <2> HIDE DEF over, one
  <2> QED BY <2>13, <2>14 DEF over, way
<1> QED BY <1>2, <1>3

LEMMA LeavesLemma == ASSUME HashInv PROVE LeavesPartition
<1> SUFFICES ASSUME NEW b \in DOMAIN block_map, NEW c \in {n \in IndicesIn(b) : n.height = 0}
             PROVE  LET over == {leaf \in Leaves : leaf.node = ParentIndex(c, leaf.node.height)}
                        way == {h \in 0..MaxHeight :
                                  IndexToCellIndex(ParentIndex(c, h)) \in DOMAIN block_map[b]}
                    IN  /\ Cardinality(over) = 1
                        /\ layout = "tree" => \A leaf \in over :
                             leaf.value = held[ParentIndex(c, Min(way))]
  BY DEF LeavesPartition
<1> DEFINE over == {leaf \in Leaves : leaf.node = ParentIndex(c, leaf.node.height)}
           way == {h \in 0..MaxHeight : IndexToCellIndex(ParentIndex(c, h)) \in DOMAIN block_map[b]}
<1>1. PICK one : /\ over = {one}
                 /\ layout = "tree" => one.value = held[ParentIndex(c, Min(way))]
  BY OneLeafOver
<1> HIDE DEF over, way
<1>2. Cardinality(over) = 1 BY <1>1, FS_Singleton
<1>3. layout = "tree" => \A leaf \in over : leaf.value = held[ParentIndex(c, Min(way))] BY <1>1
<1> QED BY <1>2, <1>3 DEF over, way

\* A map of blocks reads as an array of all indices whatever is written,
\* limited, pruned and erased, and its extent and leaves cover its blocks.
THEOREM MapsAreGrids == HashSpec => []HashIsGrid
<1>1. HashInit => HashInv BY InitLooks
<1>2. HashInv => HashIsGrid
  BY ExtentLemma, LeavesLemma DEF HashInv, HashIsGrid
<1> QED BY <1>1, <1>2, HashStep, PTL DEF HashSpec

-----------------------------------------------------------------------------
(* Paths and the way to them                                               *)

Way(p) == {SubSeq(p, 1, n) : n \in 0..Len(p)}

\* Paths are the sequences of child indices that are not too long.
LEMMA PathsAre ==
  ASSUME NEW H \in Nat
  PROVE  {SubSeq(p, 1, n) : p \in [1..H -> {0, 1}], n \in 0..H} = {p \in Seq({0, 1}) : Len(p) <= H}
<1>1. ASSUME NEW f \in [1..H -> {0, 1}], NEW n \in 0..H
      PROVE  SubSeq(f, 1, n) \in Seq({0, 1}) /\ Len(SubSeq(f, 1, n)) <= H
  <2>1. n \in Int /\ (IF 1 <= n THEN n - 1 + 1 ELSE 0) = n OBVIOUS
  <2>2. \A j \in 1..n : f[j] \in {0, 1}
    <3>1. \A j \in 1..n : j \in 1..H BY <2>1
    <3>2. \A j \in 1..H : f[j] \in {0, 1} BY SMTT(30)
    <3> QED BY <3>1, <3>2, Zenon
  <2> QED BY <2>1, <2>2, SubSeqProperties
<1>2. ASSUME NEW p \in Seq({0, 1}), Len(p) <= H
      PROVE  \E f \in [1..H -> {0, 1}], n \in 0..H : p = SubSeq(f, 1, n)
  <2> DEFINE f == [j \in 1..H |-> IF j <= Len(p) THEN p[j] ELSE 0]
             n == Len(p)
  <2>1. n \in 0..H BY <1>2, LenProperties
  <2>2. \A j \in 1..n : p[j] \in {0, 1} BY ElementOfSeq
  <2>3. f \in [1..H -> {0, 1}] BY <2>1, <2>2
  <2>4. \A j \in 1..n : f[j] = p[j] /\ f[j] \in {0, 1} /\ 1 + j - 1 = j BY <2>1, <2>2
  <2>5. n \in Int /\ (IF 1 <= n THEN n - 1 + 1 ELSE 0) = n /\ n - 1 + 1 = n BY <2>1
  <2> HIDE DEF f
  <2>6. /\ SubSeq(f, 1, n) \in Seq({0, 1}) /\ Len(SubSeq(f, 1, n)) = n
        /\ \A j \in 1..n : SubSeq(f, 1, n)[j] = f[j]
    BY <2>4, <2>5, SubSeqProperties
  <2>7. SubSeq(f, 1, n) = p BY <2>4, <2>6, SeqEqual
  <2> QED BY <2>1, <2>3, <2>7
<1> QED BY <1>1, <1>2

\* The first steps of a path are a path.
LEMMA FirstStepsAre ==
  ASSUME NEW p \in Seq({0, 1}), NEW n \in 0..Len(p)
  PROVE  /\ SubSeq(p, 1, n) \in Seq({0, 1}) /\ Len(SubSeq(p, 1, n)) = n
         /\ \A j \in 1..n : SubSeq(p, 1, n)[j] = p[j]
<1>1. Len(p) \in Nat BY LenProperties
<1>2. \A j \in 1..Len(p) : p[j] \in {0, 1} BY ElementOfSeq
<1>3. \A j \in 1..n : j \in 1..Len(p) /\ 1 + j - 1 = j BY <1>1
<1>4. n \in Int /\ (IF 1 <= n THEN n - 1 + 1 ELSE 0) = n /\ n - 1 + 1 = n BY <1>1
<1> QED BY <1>1, <1>2, <1>3, <1>4, SubSeqProperties

\* The paths to a path are those that agree with it as far as they go.
LEMMA WayAgrees ==
  ASSUME NEW p \in Seq({0, 1}), NEW q \in Seq({0, 1})
  PROVE  q \in Way(p) <=> Len(q) <= Len(p) /\ \A j \in 1..Len(q) : q[j] = p[j]
<1>1. Len(p) \in Nat /\ Len(q) \in Nat BY LenProperties
<1>2. ASSUME q \in Way(p) PROVE Len(q) <= Len(p) /\ \A j \in 1..Len(q) : q[j] = p[j]
  <2>1. PICK n \in 0..Len(p) : q = SubSeq(p, 1, n) BY <1>2, ZenonT(60) DEF Way
  <2> QED BY <1>1, <2>1, FirstStepsAre
<1>3. ASSUME Len(q) <= Len(p), \A j \in 1..Len(q) : q[j] = p[j] PROVE q \in Way(p)
  <2>1. Len(q) \in 0..Len(p) BY <1>1, <1>3
  <2>2. SubSeq(p, 1, Len(q)) = q BY <1>3, <2>1, FirstStepsAre, SeqEqual
  <2> QED BY <2>1, <2>2 DEF Way
<1> QED BY <1>2, <1>3

\* They are paths, among them the path itself and the root.
LEMMA WayIs ==
  ASSUME NEW p \in Seq({0, 1})
  PROVE  /\ Way(p) \subseteq Seq({0, 1}) /\ p \in Way(p) /\ <<>> \in Way(p)
         /\ \A q \in Way(p) : Len(q) <= Len(p) /\ (Len(q) = Len(p) => q = p)
<1>1. Way(p) \subseteq Seq({0, 1}) BY FirstStepsAre DEF Way
<1>2. Len(p) \in Nat BY LenProperties
<1>3. p \in Way(p) BY <1>2, WayAgrees
<1>4. <<>> \in Way(p)
  <2>1. PICK e : e = <<>> OBVIOUS
  <2>2. e \in Seq({0, 1}) /\ Len(e) = 0 BY <2>1, EmptySeq
  <2>3. Len(e) <= Len(p) /\ \A j \in 1..Len(e) : e[j] = p[j] BY <1>2, <2>2
  <2> QED BY <2>1, <2>2, <2>3, WayAgrees
<1>5. ASSUME NEW q \in Way(p) PROVE Len(q) <= Len(p) /\ (Len(q) = Len(p) => q = p)
  <2>1. q \in Seq({0, 1}) BY <1>1
  <2> QED BY <2>1, WayAgrees, SeqEqual
<1> QED BY <1>1, <1>3, <1>4, <1>5

\* What lies on the way to a node lies on the way to what is under it.
LEMMA WayOfWay ==
  ASSUME NEW p \in Seq({0, 1}), NEW q \in Way(p), NEW r \in Way(q) PROVE r \in Way(p)
<1>1. q \in Seq({0, 1}) /\ r \in Seq({0, 1}) BY WayIs
<1>2. Len(q) <= Len(p) /\ \A j \in 1..Len(q) : q[j] = p[j] BY <1>1, WayAgrees
<1>3. Len(r) <= Len(q) /\ \A j \in 1..Len(r) : r[j] = q[j] BY <1>1, WayAgrees
<1>4. Len(p) \in Nat /\ Len(q) \in Nat /\ Len(r) \in Nat BY <1>1, LenProperties
<1>5. Len(r) <= Len(p) /\ \A j \in 1..Len(r) : r[j] = p[j] BY <1>2, <1>3, <1>4
<1> QED BY <1>1, <1>5, WayAgrees

\* Of two nodes on the way to a third, the shorter path leads to the longer.
LEMMA WayInLine ==
  ASSUME NEW p \in Seq({0, 1}), NEW q \in Way(p), NEW r \in Way(p), Len(r) <= Len(q)
  PROVE  r \in Way(q)
<1>1. q \in Seq({0, 1}) /\ r \in Seq({0, 1}) BY WayIs
<1>2. Len(q) <= Len(p) /\ \A j \in 1..Len(q) : q[j] = p[j] BY <1>1, WayAgrees
<1>3. Len(r) <= Len(p) /\ \A j \in 1..Len(r) : r[j] = p[j] BY <1>1, WayAgrees
<1>4. Len(p) \in Nat /\ Len(q) \in Nat /\ Len(r) \in Nat BY <1>1, LenProperties
<1>5. \A j \in 1..Len(r) : r[j] = q[j] BY <1>2, <1>3, <1>4
<1> QED BY <1>1, <1>5, WayAgrees

\* A path has a parent that is one step shorter; all shorter paths to it pass there.
LEMMA WayToParent ==
  ASSUME NEW p \in Seq({0, 1}), p # <<>>, NEW u, u = SubSeq(p, 1, Len(p) - 1)
  PROVE  /\ u \in Seq({0, 1}) /\ Len(p) = Len(u) + 1 /\ Len(p) \in Nat /\ Len(u) \in Nat
         /\ u # p /\ u \in Way(p) /\ p \notin Way(u) /\ Way(p) = Way(u) \cup {p}
<1>1. Len(p) \in Nat \ {0} BY EmptySeq, LenProperties
<1>2. Len(p) - 1 \in 0..Len(p) /\ Len(p) - 1 \in Nat BY <1>1
<1>3. /\ u \in Seq({0, 1}) /\ Len(u) = Len(p) - 1
      /\ \A j \in 1..(Len(p) - 1) : u[j] = p[j]
  BY <1>2, FirstStepsAre
<1>4. u \in Way(p)
  <2>1. Len(u) <= Len(p) /\ \A j \in 1..Len(u) : u[j] = p[j] BY <1>1, <1>3
  <2> QED BY <2>1, <1>3, WayAgrees
<1>5. p \notin Way(u)
  <2>1. ~(Len(p) <= Len(u)) BY <1>1, <1>3
  <2> QED BY <2>1, <1>3, WayIs
<1>6. ASSUME NEW q \in Way(p), q # p PROVE q \in Way(u)
  <2>1. q \in Seq({0, 1}) /\ Len(q) <= Len(p) /\ Len(q) # Len(p) BY <1>6, WayIs
  <2>2. Len(q) \in Nat BY <2>1, LenProperties
  <2>3. Len(q) <= Len(u) BY <1>1, <1>3, <2>1, <2>2
  <2> QED BY <1>4, <2>3, WayInLine
<1>7. Way(u) \subseteq Way(p) BY <1>4, WayOfWay
<1>8. p \in Way(p) BY WayIs
<1> QED BY <1>1, <1>2, <1>3, <1>4, <1>5, <1>6, <1>7, <1>8

\* Children have the node as their parent, and each node is a child of its parent.
LEMMA WayToChild ==
  ASSUME NEW p \in Seq({0, 1})
  PROVE  /\ \A i \in {0, 1} : LET c == p \o <<i>>
                              IN  /\ c \in Seq({0, 1}) /\ Len(c) = Len(p) + 1 /\ c # <<>>
                                  /\ SubSeq(c, 1, Len(c) - 1) = p
         /\ \A c \in Seq({0, 1}) : c # <<>> /\ SubSeq(c, 1, Len(c) - 1) = p =>
              \E i \in {0, 1} : c = p \o <<i>>
<1>0. Len(p) \in Nat BY LenProperties
<1>1. ASSUME NEW i \in {0, 1}, NEW c, c = p \o <<i>>
      PROVE  /\ c \in Seq({0, 1}) /\ Len(c) = Len(p) + 1 /\ c # <<>>
             /\ SubSeq(c, 1, Len(c) - 1) = p
  <2>1. <<i>> \in Seq({0, 1}) /\ Len(<<i>>) = 1 OBVIOUS
  <2>2. /\ c \in Seq({0, 1}) /\ Len(c) = Len(p) + 1
        /\ \A j \in 1..Len(p) : c[j] = p[j]
    BY <1>0, <1>1, <2>1, ConcatProperties
  <2>3. c # <<>> BY <1>0, <2>2, EmptySeq
  <2>4. Len(p) \in 0..Len(c) /\ Len(c) - 1 = Len(p) BY <1>0, <2>2
  <2>5. /\ SubSeq(c, 1, Len(p)) \in Seq({0, 1}) /\ Len(SubSeq(c, 1, Len(p))) = Len(p)
        /\ \A j \in 1..Len(p) : SubSeq(c, 1, Len(p))[j] = c[j]
    BY <2>2, <2>4, FirstStepsAre
  <2>6. SubSeq(c, 1, Len(p)) = p BY <2>2, <2>5, SeqEqual
  <2> QED BY <2>2, <2>3, <2>4, <2>6
<1>2. ASSUME NEW c \in Seq({0, 1}), c # <<>>, SubSeq(c, 1, Len(c) - 1) = p
      PROVE  \E i \in {0, 1} : c = p \o <<i>>
  <2>1. /\ Len(c) = Len(p) + 1 /\ \A j \in 1..Len(p) : p[j] = c[j]
    <3>1. Len(c) \in Nat \ {0} BY <1>2, EmptySeq, LenProperties
    <3>2. Len(c) - 1 \in 0..Len(c) BY <3>1
    <3> QED BY <1>2, <3>1, <3>2, FirstStepsAre
  <2>2. PICK i \in {0, 1} : i = c[Len(c)]
    <3>1. Len(c) \in 1..Len(c) BY <1>0, <2>1
    <3> QED BY <3>1, ElementOfSeq
  <2>3. <<i>> \in Seq({0, 1}) /\ Len(<<i>>) = 1 /\ <<i>>[1] = i OBVIOUS
  <2>4. PICK d : d = p \o <<i>> OBVIOUS
  <2>5. /\ d \in Seq({0, 1}) /\ Len(d) = Len(p) + 1
        /\ \A j \in 1..Len(d) : d[j] = IF j <= Len(p) THEN p[j] ELSE <<i>>[j - Len(p)]
    BY <2>3, <2>4, ConcatProperties
  <2>6. ASSUME NEW j \in 1..Len(d) PROVE d[j] = c[j]
    <3>1. CASE j <= Len(p) BY <3>1, <1>0, <2>1, <2>5
    <3>2. CASE ~(j <= Len(p))
      <4>1. j = Len(p) + 1 /\ j - Len(p) = 1 BY <3>2, <1>0, <2>5
      <4> QED BY <4>1, <3>2, <2>1, <2>2, <2>3, <2>5
    <3> QED BY <3>1, <3>2
  <2>7. d = c BY <2>1, <2>5, <2>6, SeqEqual
  <2> QED BY <2>4, <2>7
<1> QED BY <1>1, <1>2

-----------------------------------------------------------------------------
(* The octree                                                              *)

LEMMA OctreePathsAre ==
  /\ OctreePath = {p \in Seq({0, 1}) : Len(p) <= OctreeHeight}
  /\ \A p \in OctreePath : p \in Seq({0, 1}) /\ Len(p) \in 0..OctreeHeight /\ WayTo[p] = Way(p)
<1>1. OctreePath = {p \in Seq({0, 1}) : Len(p) <= OctreeHeight}
  <2>1. OctreeHeight \in Nat BY OctreeAssumption
  <2>2. OctreePath = {SubSeq(p, 1, n) : p \in [1..OctreeHeight -> {0, 1}], n \in 0..OctreeHeight}
    BY DEF OctreePath
  <2>3. {SubSeq(p, 1, n) : p \in [1..OctreeHeight -> {0, 1}], n \in 0..OctreeHeight}
          = {p \in Seq({0, 1}) : Len(p) <= OctreeHeight}
    BY <2>1, PathsAre
  <2> QED BY <2>2, <2>3
<1>2. ASSUME NEW p \in OctreePath
      PROVE  p \in Seq({0, 1}) /\ Len(p) \in 0..OctreeHeight /\ WayTo[p] = Way(p)
  <2>1. p \in Seq({0, 1}) /\ Len(p) <= OctreeHeight BY <1>1
  <2>2. Len(p) \in 0..OctreeHeight BY <2>1, LenProperties, OctreeAssumption
  <2> QED BY <2>1, <2>2 DEF WayTo, Way
<1> QED BY <1>1, <1>2

LEMMA OctreeWay ==
  ASSUME NEW p \in OctreePath
  PROVE  /\ WayTo[p] \subseteq OctreePath /\ p \in WayTo[p] /\ <<>> \in WayTo[p] /\ <<>> \in OctreePath
         /\ \A q \in WayTo[p] :
              /\ Len(q) <= Len(p) /\ (Len(q) = Len(p) => q = p)
              /\ WayTo[q] \subseteq WayTo[p]
              /\ \A r \in WayTo[p] : Len(r) <= Len(q) => r \in WayTo[q]
<1>1. p \in Seq({0, 1}) /\ Len(p) \in 0..OctreeHeight /\ WayTo[p] = Way(p) BY OctreePathsAre
<1>2. ASSUME NEW q \in Way(p) PROVE q \in OctreePath
  <2>1. q \in Seq({0, 1}) /\ Len(q) <= Len(p) BY <1>1, WayIs
  <2>2. Len(q) <= OctreeHeight BY <1>1, <2>1, LenProperties, OctreeAssumption
  <2> QED BY <2>1, <2>2, OctreePathsAre
<1>3. \A q \in Way(p) : WayTo[q] = Way(q) BY <1>2, OctreePathsAre
<1> QED BY <1>1, <1>2, <1>3, WayIs, WayOfWay, WayInLine

LEMMA OctreeUp ==
  ASSUME NEW p \in OctreePath, p # <<>>
  PROVE  /\ Up(p) \in OctreePath /\ Len(p) = Len(Up(p)) + 1 /\ Len(Up(p)) \in Nat
         /\ Up(p) # p /\ Up(p) \in WayTo[p] /\ p \notin WayTo[Up(p)]
         /\ WayTo[p] = WayTo[Up(p)] \cup {p}
<1>1. p \in Seq({0, 1}) /\ WayTo[p] = Way(p) BY OctreePathsAre
<1>2. PICK u : u = Up(p) /\ u = SubSeq(p, 1, Len(p) - 1) BY DEF Up
<1>3. /\ u \in Seq({0, 1}) /\ Len(p) = Len(u) + 1 /\ Len(p) \in Nat /\ Len(u) \in Nat
      /\ u # p /\ u \in Way(p) /\ p \notin Way(u) /\ Way(p) = Way(u) \cup {p}
  BY <1>1, <1>2, WayToParent
<1>4. u \in OctreePath BY <1>1, <1>3, OctreeWay
<1>5. WayTo[u] = Way(u) BY <1>4, OctreePathsAre
<1> QED BY <1>1, <1>2, <1>3, <1>4, <1>5

LEMMA OctreeChild ==
  ASSUME NEW p \in OctreePath
  PROVE  /\ \A i \in {0, 1} : p \o <<i>> \in OctreePath =>
              p \o <<i>> # <<>> /\ Up(p \o <<i>>) = p /\ Len(p \o <<i>>) = Len(p) + 1
         /\ \A c \in OctreePath : c # <<>> /\ Up(c) = p => \E i \in {0, 1} : c = p \o <<i>>
<1>1. p \in Seq({0, 1}) BY OctreePathsAre
<1>2. \A c \in OctreePath : c \in Seq({0, 1}) BY OctreePathsAre
<1>3. \A i \in {0, 1} : /\ Len(p \o <<i>>) = Len(p) + 1 /\ p \o <<i>> # <<>>
                        /\ Up(p \o <<i>>) = p
  BY <1>1, WayToChild DEF Up
<1>4. \A c \in OctreePath : c # <<>> /\ Up(c) = p => \E i \in {0, 1} : c = p \o <<i>>
  BY <1>1, <1>2, WayToChild DEF Up
<1> QED BY <1>3, <1>4

LEMMA OctreeRoot == <<>> \in OctreePath /\ Len(<<>>) = 0 /\ \A p \in OctreePath : Len(p) = 0 <=> p = <<>>
<1>1. <<>> \in Seq({0, 1}) /\ Len(<<>>) = 0 BY EmptySeq
<1>2. <<>> \in OctreePath
  <2>1. PICK e : e = <<>> OBVIOUS
  <2>2. e \in Seq({0, 1}) /\ Len(e) <= OctreeHeight BY <1>1, <2>1, OctreeAssumption
  <2> QED BY <2>1, <2>2, OctreePathsAre
<1>3. ASSUME NEW p \in OctreePath PROVE Len(p) = 0 <=> p = <<>>
  <2>1. p \in Seq({0, 1}) BY OctreePathsAre
  <2> QED BY <1>1, <2>1, EmptySeq
<1> QED BY <1>1, <1>2, <1>3

\* What holds of the root, and of a node if of its parent, holds of all.
LEMMA FromTheTop ==
  ASSUME NEW S, <<>> \in S, \A p \in OctreePath \ {<<>>} : Up(p) \in S => p \in S
  PROVE  OctreePath \subseteq S
<1> DEFINE T == {n \in Nat : \A p \in OctreePath : Len(p) = n => p \in S}
<1>1. 0 \in T BY OctreeRoot
<1>2. ASSUME NEW n \in Nat, n \in T PROVE n + 1 \in T
  <2> SUFFICES ASSUME NEW p \in OctreePath, Len(p) = n + 1 PROVE p \in S OBVIOUS
  <2>1. p # <<>> BY OctreeRoot
  <2>2. Up(p) \in OctreePath /\ Len(p) = Len(Up(p)) + 1 /\ Len(Up(p)) \in Nat BY <2>1, OctreeUp
  <2>3. Len(Up(p)) = n BY <2>2
  <2> QED BY <1>2, <2>1, <2>2, <2>3
<1> HIDE DEF T
<1>3. Nat \subseteq T BY <1>1, <1>2, NatInductionSet
<1>4. \A p \in OctreePath : Len(p) \in Nat BY OctreePathsAre
<1> QED BY <1>3, <1>4 DEF T

\* What holds of a node if it does of its children holds of all.
LEMMA FromTheCells ==
  ASSUME NEW S, \A p \in OctreePath :
                  (\A i \in {0, 1} : p \o <<i>> \in OctreePath => p \o <<i>> \in S) => p \in S
  PROVE  OctreePath \subseteq S
<1> DEFINE T == {n \in Nat : \A p \in OctreePath : Len(p) + n > OctreeHeight => p \in S}
<1>0. OctreeHeight \in Nat /\ \A p \in OctreePath : Len(p) \in 0..OctreeHeight
  BY OctreePathsAre, OctreeAssumption
<1>1. 0 \in T BY <1>0
<1>2. ASSUME NEW n \in Nat, n \in T PROVE n + 1 \in T
  <2> SUFFICES ASSUME NEW p \in OctreePath, Len(p) + (n + 1) > OctreeHeight PROVE p \in S OBVIOUS
  <2>1. ASSUME NEW i \in {0, 1}, p \o <<i>> \in OctreePath PROVE p \o <<i>> \in S
    <3>1. PICK c \in OctreePath : c = p \o <<i>> BY <2>1
    <3>2. Len(c) = Len(p) + 1 BY <2>1, <3>1, OctreeChild
    <3>3. Len(c) + n > OctreeHeight BY <1>0, <3>2
    <3> QED BY <1>2, <3>1, <3>3
  <2> QED BY <2>1
<1> HIDE DEF T
<1>3. Nat \subseteq T BY <1>1, <1>2, NatInductionSet
<1>4. OctreeHeight + 1 \in T BY <1>0, <1>3
<1> QED BY <1>0, <1>4 DEF T

\* The data on the way to each node add up.
SumOf(data) ==
  LET sum[p \in OctreePath] == data[p] + (IF p = <<>> THEN 0 ELSE sum[Up(p)]) IN sum

LEMMA SumsAre ==
  ASSUME NEW data \in [OctreePath -> Int]
  PROVE  /\ SumOf(data) \in [OctreePath -> Int]
         /\ SumOf(data)[<<>>] = data[<<>>]
         /\ \A p \in OctreePath \ {<<>>} : SumOf(data)[p] = data[p] + SumOf(data)[Up(p)]
<1> DEFINE Sums(f, p) == data[p] + (IF p = <<>> THEN 0 ELSE f[Up(p)])
           S == {n \in Nat : \E f \in [OctreePath -> Int] :
                               \A p \in OctreePath : Len(p) <= n => f[p] = Sums(f, p)}
<1>0. OctreeHeight \in Nat /\ \A p \in OctreePath : Len(p) \in 0..OctreeHeight
  BY OctreePathsAre, OctreeAssumption
<1>1. 0 \in S
  <2>1. ASSUME NEW p \in OctreePath, Len(p) <= 0 PROVE data[p] = Sums(data, p)
    <3>1. p = <<>> BY <1>0, <2>1, OctreeRoot
    <3>2. data[p] \in Int OBVIOUS
    <3> QED BY <3>1, <3>2
  <2> HIDE DEF Sums
  <2> QED BY <2>1
<1>2. ASSUME NEW n \in Nat, n \in S PROVE n + 1 \in S
  <2>1. PICK f \in [OctreePath -> Int] : \A p \in OctreePath : Len(p) <= n => f[p] = Sums(f, p)
    BY <1>2
  <2> DEFINE g == [p \in OctreePath |-> IF Len(p) = n + 1 THEN Sums(f, p) ELSE f[p]]
  <2>2. ASSUME NEW p \in OctreePath PROVE Sums(f, p) \in Int
    <3>1. p # <<>> => f[Up(p)] \in Int BY OctreeUp
    <3>2. data[p] \in Int OBVIOUS
    <3> QED BY <3>1, <3>2
  <2>3. g \in [OctreePath -> Int] BY <2>2
  <2>4. ASSUME NEW p \in OctreePath, Len(p) <= n + 1 PROVE g[p] = Sums(g, p)
    <3>1. p # <<>> => Up(p) \in OctreePath /\ Len(Up(p)) # n + 1 BY <1>0, <2>4, OctreeUp
    <3>2. Sums(g, p) = Sums(f, p) BY <3>1
    <3>3. Len(p) = n + 1 \/ Len(p) <= n BY <1>0, <2>4
    <3> HIDE DEF Sums
    <3> QED BY <3>2, <3>3, <2>1
  <2> HIDE DEF g, Sums
  <2> QED BY <2>3, <2>4
<1> HIDE DEF S
<1>3. OctreeHeight \in S BY <1>0, <1>1, <1>2, NatInductionSet
<1>4. PICK f \in [OctreePath -> Int] : \A p \in OctreePath : f[p] = Sums(f, p)
  BY <1>0, <1>3 DEF S
<1>5. f = [p \in OctreePath |-> Sums(f, p)] BY <1>4
<1>6. PICK s : s = SumOf(data) OBVIOUS
<1>7. s = [p \in OctreePath |-> Sums(s, p)]
  <2>1. s = CHOOSE sum : sum = [p \in OctreePath |-> Sums(sum, p)] BY <1>6 DEF SumOf
  <2> HIDE DEF Sums
  <2> QED BY <1>5, <2>1
<1>8. /\ s[<<>>] = data[<<>>]
      /\ \A p \in OctreePath \ {<<>>} : s[p] = data[p] + s[Up(p)]
  <2>1. <<>> \in OctreePath BY OctreeRoot
  <2>2. \A p \in OctreePath : s[p] = Sums(s, p)
    <3> HIDE DEF Sums
    <3> QED BY <1>7
  <2>3. data[<<>>] \in Int BY <2>1
  <2> QED BY <2>1, <2>2, <2>3
<1>9. s \in [OctreePath -> Int]
  <2> DEFINE T == {p \in OctreePath : s[p] \in Int}
  <2>1. <<>> \in T BY <1>8, OctreeRoot
  <2>2. \A p \in OctreePath \ {<<>>} : Up(p) \in T => p \in T BY <1>8
  <2> HIDE DEF T
  <2>3. OctreePath \subseteq T BY <2>1, <2>2, FromTheTop
  <2>4. s = [p \in OctreePath |-> s[p]]
    <3> HIDE DEF Sums
    <3> QED BY <1>7
  <2> QED BY <2>3, <2>4 DEF T
<1> QED BY <1>6, <1>8, <1>9

\* Nothing below a node adds to it.
LEMMA SumBelow ==
  ASSUME NEW data \in [OctreePath -> Int], NEW p \in OctreePath, NEW q \in OctreePath, p \in WayTo[q],
         \A r \in WayTo[q] \ WayTo[p] : data[r] = 0
  PROVE  SumOf(data)[q] = SumOf(data)[p]
<1> DEFINE S == {r \in OctreePath : r \in WayTo[q] /\ p \in WayTo[r] => SumOf(data)[r] = SumOf(data)[p]}
<1>1. <<>> \in S
  <2>1. <<>> \in OctreePath BY OctreeRoot
  <2>2. p \in WayTo[<<>>] => p = <<>>
    <3>1. p \in WayTo[<<>>] => Len(p) <= Len(<<>>) BY <2>1, OctreeWay
    <3>2. Len(p) \in Nat BY OctreePathsAre
    <3> QED BY <3>1, <3>2, OctreeRoot
  <2> QED BY <2>1, <2>2
<1>2. ASSUME NEW r \in OctreePath \ {<<>>}, Up(r) \in S PROVE r \in S
  <2> SUFFICES ASSUME r \in WayTo[q], p \in WayTo[r], r # p
               PROVE  SumOf(data)[r] = SumOf(data)[p]
    OBVIOUS
  <2>1. /\ Up(r) \in OctreePath /\ Up(r) \in WayTo[r] /\ WayTo[r] = WayTo[Up(r)] \cup {r}
    BY OctreeUp
  <2>2. p \in WayTo[Up(r)] /\ Up(r) \in WayTo[q] BY <2>1, OctreeWay
  <2>3. r \notin WayTo[p]
    <3>1. ASSUME r \in WayTo[p] PROVE FALSE
      <4>1. Len(r) <= Len(p) /\ Len(p) <= Len(r) /\ (Len(r) = Len(p) => r = p)
        BY <3>1, OctreeWay
      <4>2. Len(r) \in Nat /\ Len(p) \in Nat BY OctreePathsAre
      <4> QED BY <4>1, <4>2
    <3> QED BY <3>1
  <2>4. data[r] = 0 BY <2>3
  <2>5. SumOf(data)[r] = data[r] + SumOf(data)[Up(r)] /\ SumOf(data)[Up(r)] \in Int
    BY <2>1, SumsAre
  <2> QED BY <1>2, <2>2, <2>4, <2>5
<1> HIDE DEF S
<1>3. OctreePath \subseteq S BY <1>1, <1>2, FromTheTop
<1> QED BY <1>3, OctreeWay DEF S

\* Data above a node add to it.
LEMMA SumOfOne ==
  ASSUME NEW data \in [OctreePath -> Int], NEW p \in OctreePath,
         \A r \in WayTo[p] \ {p} : data[r] = 0
  PROVE  SumOf(data)[p] = data[p]
<1> DEFINE S == {r \in OctreePath : r \in WayTo[p] /\ r # p => SumOf(data)[r] = 0}
<1>0. SumOf(data)[<<>>] = data[<<>>] /\ SumOf(data) \in [OctreePath -> Int] BY SumsAre
<1>1. <<>> \in S BY <1>0, OctreeRoot
<1>2. ASSUME NEW r \in OctreePath \ {<<>>}, Up(r) \in S PROVE r \in S
  <2> SUFFICES ASSUME r \in WayTo[p], r # p PROVE SumOf(data)[r] = 0 OBVIOUS
  <2>1. Up(r) \in WayTo[r] /\ Len(r) = Len(Up(r)) + 1 /\ Len(Up(r)) \in Nat BY OctreeUp
  <2>2. Up(r) \in WayTo[p] BY <2>1, OctreeWay
  <2>3. Up(r) # p
    <3>1. Len(r) <= Len(p) /\ Len(p) \in Nat BY OctreeWay, OctreePathsAre
    <3> QED BY <3>1, <2>1
  <2>4. SumOf(data)[r] = data[r] + SumOf(data)[Up(r)] BY SumsAre
  <2> QED BY <1>2, <2>2, <2>3, <2>4
<1> HIDE DEF S
<1>3. OctreePath \subseteq S BY <1>1, <1>2, FromTheTop
<1>4. CASE p = <<>> BY <1>0, <1>4
<1>5. CASE p # <<>>
  <2>1. Up(p) \in OctreePath /\ Up(p) \in WayTo[p] /\ Up(p) # p BY <1>5, OctreeUp
  <2>2. SumOf(data)[Up(p)] = 0 BY <2>1, <1>3 DEF S
  <2>3. SumOf(data)[p] = data[p] + SumOf(data)[Up(p)] BY <1>5, SumsAre
  <2> QED BY <2>2, <2>3
<1> QED BY <1>4, <1>5

\* The nodes are a tree, and there is nothing where no node is.
OctreeSound ==
  /\ octreeNodes \subseteq OctreePath /\ <<>> \in octreeNodes
  /\ \A p \in octreeNodes : WayTo[p] \subseteq octreeNodes
  /\ octreeData \in [OctreePath -> Int]
  /\ \A p \in OctreePath \ octreeNodes : octreeData[p] = 0

LEMMA NodeValuesAre == NodeValues = SumOf(octreeData)
BY DEF NodeValues, SumOf

\* The node after this one on the way to another.
LEMMA NextOnWay ==
  ASSUME NEW q \in OctreePath, NEW p \in WayTo[q], p # q
  PROVE  \E i \in {0, 1} : /\ p \o <<i>> \in WayTo[q] /\ p \o <<i>> \in OctreePath
                           /\ p \o <<i>> # <<>> /\ Up(p \o <<i>>) = p
                           /\ WayTo[p \o <<i>>] = WayTo[p] \cup {p \o <<i>>}
                           /\ p \o <<i>> \notin WayTo[p]
<1> DEFINE S == {r \in OctreePath : r \in WayTo[q] /\ p \in WayTo[r] /\ p # r =>
                   \E c \in WayTo[r] : c # <<>> /\ Up(c) = p}
<1>0. p \in OctreePath BY OctreeWay
<1>1. <<>> \in S
  <2>1. <<>> \in OctreePath BY OctreeRoot
  <2>2. p \in WayTo[<<>>] => p = <<>>
    <3>1. p \in WayTo[<<>>] => Len(p) <= Len(<<>>) BY <2>1, OctreeWay
    <3>2. Len(p) \in Nat BY <1>0, OctreePathsAre
    <3> QED BY <3>1, <3>2, <1>0, OctreeRoot
  <2> QED BY <2>1, <2>2
<1>2. ASSUME NEW r \in OctreePath \ {<<>>}, Up(r) \in S PROVE r \in S
  <2> SUFFICES ASSUME r \in WayTo[q], p \in WayTo[r], p # r
               PROVE  \E c \in WayTo[r] : c # <<>> /\ Up(c) = p
    OBVIOUS
  <2>1. /\ Up(r) \in OctreePath /\ Up(r) \in WayTo[r] /\ WayTo[r] = WayTo[Up(r)] \cup {r}
    BY OctreeUp
  <2>2. p \in WayTo[Up(r)] /\ Up(r) \in WayTo[q] BY <2>1, OctreeWay
  <2>3. CASE p = Up(r) BY <2>1, <2>3, OctreeWay
  <2>4. CASE p # Up(r) BY <1>2, <2>1, <2>2, <2>4
  <2> QED BY <2>3, <2>4
<1> HIDE DEF S
<1>3. q \in S BY <1>1, <1>2, FromTheTop
<1>4. PICK c \in WayTo[q] : c # <<>> /\ Up(c) = p BY <1>3, OctreeWay DEF S
<1>5. c \in OctreePath BY OctreeWay
<1>6. PICK i \in {0, 1} : c = p \o <<i>> BY <1>0, <1>4, <1>5, OctreeChild
<1>7. WayTo[c] = WayTo[p] \cup {c} /\ c \notin WayTo[p] BY <1>4, <1>5, OctreeUp
<1> QED BY <1>4, <1>5, <1>6, <1>7

\* No node is below one without subnodes.
LEMMA NothingBelow ==
  ASSUME OctreeSound, NEW p \in OctreePath, ~HasSubnodes(p), NEW q \in OctreePath, p \in WayTo[q]
  PROVE  /\ q \in octreeNodes => q = p
         /\ NodeValues[q] = NodeValues[p]
<1>1. ASSUME NEW r \in OctreePath, p \in WayTo[r], r \in octreeNodes PROVE r = p
  <2> SUFFICES ASSUME r # p PROVE FALSE OBVIOUS
  <2>1. PICK i \in {0, 1} : p \o <<i>> \in WayTo[r] /\ p \o <<i>> # <<>> /\ Up(p \o <<i>>) = p
    BY <1>1, NextOnWay
  <2>2. PICK c : c = p \o <<i>> OBVIOUS
  <2>3. c \in octreeNodes /\ c \in OctreePath BY <1>1, <2>1, <2>2, OctreeWay DEF OctreeSound
  <2>4. Len(c) > 0
    <3>1. Len(c) \in Nat /\ Len(c) # 0 BY <2>1, <2>2, <2>3, OctreePathsAre, OctreeRoot
    <3> QED BY <3>1
  <2> QED BY <2>1, <2>2, <2>3, <2>4 DEF HasSubnodes
<1>2. ASSUME NEW r \in WayTo[q] \ WayTo[p] PROVE octreeData[r] = 0
  <2>1. r \in OctreePath BY OctreeWay
  <2>2. p \in WayTo[r]
    <3>1. Len(r) \in Nat /\ Len(p) \in Nat BY <2>1, OctreePathsAre
    <3>2. Len(r) <= Len(p) => r \in WayTo[p] BY OctreeWay
    <3>3. Len(p) <= Len(r) BY <3>1, <3>2
    <3> QED BY <3>3, OctreeWay
  <2>3. r # p BY OctreeWay
  <2> QED BY <2>1, <2>2, <2>3, <1>1 DEF OctreeSound
<1>3. NodeValues[q] = NodeValues[p] BY <1>2, SumBelow, NodeValuesAre DEF OctreeSound
<1> QED BY <1>1, <1>3

\* What prune makes of a node, given what it has made of its children.
Pruned(value, visited, f, p) ==
  LET child(i) == p \o <<i>>
      childData(i) == IF child(i) \in visited THEN f[child(i)].data ELSE 0
      first == ClampOdds(value[p] + childData(0))
  IN IF ~HasSubnodes(p)
       THEN [leaf |-> TRUE, data |-> ClampOdds(value[p])]
     ELSE IF \A i \in {0, 1} :
               /\ child(i) \in visited => f[child(i)].leaf
               /\ childData(i) = first
       THEN [leaf |-> TRUE, data |-> first]
     ELSE [leaf |-> FALSE, data |-> 0]

LEMMA PrunedNodesAre ==
  ASSUME NEW value, NEW visited \in SUBSET OctreePath
  PROVE  \A p \in OctreePath :
           PrunedNodes(value, visited)[p] = Pruned(value, visited, PrunedNodes(value, visited), p)
<1> DEFINE B(f, p) == Pruned(value, visited, f, p)
           S == {n \in Nat : \E f : /\ f = [p \in OctreePath |-> f[p]]
                                    /\ \A p \in OctreePath : Len(p) + n > OctreeHeight => f[p] = B(f, p)}
<1>0. OctreeHeight \in Nat /\ \A p \in OctreePath : Len(p) \in 0..OctreeHeight
  BY OctreePathsAre, OctreeAssumption
<1>1. 0 \in S
  <2>1. PICK f : f = [p \in OctreePath |-> 0] OBVIOUS
  <2>2. f = [p \in OctreePath |-> f[p]] BY <2>1
  <2>3. \A p \in OctreePath : ~(Len(p) + 0 > OctreeHeight) BY <1>0
  <2> HIDE DEF B
  <2> QED BY <2>2, <2>3
<1>2. ASSUME NEW n \in Nat, n \in S PROVE n + 1 \in S
  <2>1. PICK f : /\ f = [p \in OctreePath |-> f[p]]
                 /\ \A p \in OctreePath : Len(p) + n > OctreeHeight => f[p] = B(f, p)
    BY <1>2
  <2> DEFINE g == [p \in OctreePath |-> IF Len(p) + n > OctreeHeight THEN f[p] ELSE B(f, p)]
  <2>2. ASSUME NEW p \in OctreePath, Len(p) + (n + 1) > OctreeHeight PROVE g[p] = B(g, p)
    <3>1. ASSUME NEW i \in {0, 1}, p \o <<i>> \in visited PROVE g[p \o <<i>>] = f[p \o <<i>>]
      <4>1. PICK c \in OctreePath : c = p \o <<i>> BY <3>1
      <4>2. Len(c) = Len(p) + 1 BY <4>1, OctreeChild
      <4>3. Len(c) + n > OctreeHeight BY <1>0, <2>2, <4>2
      <4> HIDE DEF B
      <4> QED BY <4>1, <4>3
    <3> HIDE DEF g
    <3>2. B(g, p) = B(f, p) BY <3>1 DEF Pruned
    <3>3. g[p] = B(f, p)
      <4> HIDE DEF B
      <4> QED BY <2>1 DEF g
    <3> QED BY <3>2, <3>3
  <2>3. g = [p \in OctreePath |-> g[p]]
    <3> HIDE DEF B
    <3> QED OBVIOUS
  <2> HIDE DEF g, B
  <2> QED BY <2>2, <2>3
<1> HIDE DEF S
<1>3. OctreeHeight + 1 \in S
  <2>1. Nat \subseteq S BY <1>1, <1>2, NatInductionSet
  <2> QED BY <2>1, <1>0
<1>4. PICK f : /\ f = [p \in OctreePath |-> f[p]]
               /\ \A p \in OctreePath : f[p] = B(f, p)
  <2>1. \A p \in OctreePath : Len(p) + (OctreeHeight + 1) > OctreeHeight BY <1>0
  <2> HIDE DEF B
  <2> QED BY <1>3, <2>1 DEF S
<1>5. f = [p \in OctreePath |-> B(f, p)]
  <2> HIDE DEF B
  <2> QED BY <1>4
<1>6. PICK s : s = PrunedNodes(value, visited) OBVIOUS
<1>7. s = CHOOSE pruned : pruned = [p \in OctreePath |-> B(pruned, p)]
  BY <1>6 DEF PrunedNodes, Pruned
<1> HIDE DEF B
<1>8. s = [p \in OctreePath |-> B(s, p)] BY <1>5, <1>7
<1>9. \A p \in OctreePath : s[p] = B(s, p) BY <1>8
<1> QED BY <1>6, <1>9 DEF B

LEMMA ClampIs ==
  /\ \A v \in Int : ClampOdds(v) \in Int
  /\ ClampOdds(0) = 0
BY OctreeAssumption DEF ClampOdds

\* Prune visits a tree of nodes; where it makes a leaf, all cells below have its value.
LEMMA VisitedAre ==
  ASSUME OctreeSound, NEW V, V = VisitedByPrune(NodeValues)
  PROVE  /\ V \in SUBSET OctreePath /\ octreeNodes \subseteq V
         /\ \A p \in V : WayTo[p] \subseteq V
<1>1. V = octreeNodes \cup {p \in OctreePath : Len(p) > 0 /\ HasSubnodes(Up(p)) /\ NodeValues[Up(p)] # 0}
  BY DEF VisitedByPrune
<1>2. V \in SUBSET OctreePath /\ octreeNodes \subseteq V BY <1>1 DEF OctreeSound
<1>3. ASSUME NEW p \in V, p \notin octreeNodes PROVE WayTo[p] \subseteq V
  <2>1. p \in OctreePath /\ Len(p) > 0 /\ HasSubnodes(Up(p)) BY <1>1, <1>3
  <2>2. p # <<>> BY <2>1, OctreeRoot
  <2>3. PICK c \in octreeNodes : Len(c) > 0 /\ Up(c) = Up(p) BY <2>1 DEF HasSubnodes
  <2>4. c \in OctreePath /\ c # <<>> BY <2>3, OctreeRoot DEF OctreeSound
  <2>5. Up(c) \in WayTo[c] BY <2>4, OctreeUp
  <2>6. Up(c) \in octreeNodes BY <2>5 DEF OctreeSound
  <2>7. WayTo[p] = WayTo[Up(p)] \cup {p} BY <2>1, <2>2, OctreeUp
  <2> QED BY <2>3, <2>6, <2>7, <1>2 DEF OctreeSound
<1>4. \A p \in octreeNodes : WayTo[p] \subseteq V BY <1>2 DEF OctreeSound
<1> QED BY <1>2, <1>3, <1>4

\* What is missing below an inner node that prune leaves out has no value.
LEMMA MissingAreZero ==
  ASSUME OctreeSound, NEW V, V = VisitedByPrune(NodeValues), NEW p \in OctreePath, HasSubnodes(p),
         NEW k \in OctreePath, k # <<>>, Up(k) = p, k \notin V,
         NEW q \in OctreePath, k \in WayTo[q]
  PROVE  NodeValues[q] = 0
<1>1. Len(k) > 0
  <2>1. Len(k) \in Nat /\ Len(k) # 0 BY OctreePathsAre, OctreeRoot
  <2> QED BY <2>1
<1>2. k \notin octreeNodes /\ NodeValues[p] = 0 BY <1>1 DEF VisitedByPrune
<1>3. NodeValues[k] = octreeData[k] + NodeValues[p] BY SumsAre, NodeValuesAre DEF OctreeSound
<1>4. NodeValues[k] = 0 BY <1>2, <1>3 DEF OctreeSound
<1>5. ~HasSubnodes(k)
  <2>1. ASSUME NEW c \in octreeNodes, Len(c) > 0, Up(c) = k PROVE FALSE
    <3>1. c \in OctreePath /\ c # <<>> BY <2>1, OctreeRoot DEF OctreeSound
    <3>2. k \in WayTo[c] BY <3>1, <2>1, OctreeUp
    <3> QED BY <3>2, <1>2 DEF OctreeSound
  <2> QED BY <2>1 DEF HasSubnodes
<1> QED BY <1>4, <1>5, NothingBelow

LEMMA PrunedAre ==
  ASSUME OctreeSound, NEW V, V = VisitedByPrune(NodeValues), NEW f, f = PrunedNodes(NodeValues, V)
  PROVE  /\ \A p \in OctreePath : /\ f[p].leaf \in BOOLEAN /\ f[p].data \in Int
                                  /\ ~HasSubnodes(p) => f[p].leaf
                                  /\ ~f[p].leaf => f[p].data = 0
         /\ \A p \in V, c \in OctreeCell :
              p \in WayTo[c] /\ f[p].leaf => f[p].data = ClampOdds(NodeValues[c])
<1>1. V \in SUBSET OctreePath /\ octreeNodes \subseteq V /\ \A p \in V : WayTo[p] \subseteq V
  BY VisitedAre
<1>2. \A p \in OctreePath : f[p] = Pruned(NodeValues, V, f, p) BY <1>1, PrunedNodesAre
<1>3. NodeValues \in [OctreePath -> Int] BY SumsAre, NodeValuesAre DEF OctreeSound
<1> DEFINE D(p, i) == IF p \o <<i>> \in V THEN f[p \o <<i>>].data ELSE 0
           Total(p) == ClampOdds(NodeValues[p] + D(p, 0))
           Merged(p) == \A i \in {0, 1} : /\ p \o <<i>> \in V => f[p \o <<i>>].leaf
                                          /\ D(p, i) = Total(p)
<1>4. ASSUME NEW p \in OctreePath
      PROVE  /\ ~HasSubnodes(p) => f[p].leaf = TRUE /\ f[p].data = ClampOdds(NodeValues[p])
             /\ HasSubnodes(p) /\ Merged(p) => f[p].leaf = TRUE /\ f[p].data = Total(p)
             /\ HasSubnodes(p) /\ ~Merged(p) => f[p].leaf = FALSE /\ f[p].data = 0
  <2>1. f[p] = Pruned(NodeValues, V, f, p) BY <1>2
  <2>2. ~HasSubnodes(p) => f[p] = [leaf |-> TRUE, data |-> ClampOdds(NodeValues[p])]
    BY <2>1 DEF Pruned
  <2>3. HasSubnodes(p) /\ Merged(p) => f[p] = [leaf |-> TRUE, data |-> Total(p)]
    BY <2>1 DEF Pruned
  <2>4. HasSubnodes(p) /\ ~Merged(p) => f[p] = [leaf |-> FALSE, data |-> 0]
    BY <2>1 DEF Pruned
  <2> HIDE DEF Merged, Total
  <2> QED BY <2>2, <2>3, <2>4
<1>5. \A p \in OctreePath : f[p].data \in Int
  <2> DEFINE S == {p \in OctreePath : f[p].data \in Int}
  <2>1. ASSUME NEW p \in OctreePath,
               \A i \in {0, 1} : p \o <<i>> \in OctreePath => p \o <<i>> \in S
        PROVE  p \in S
    <3>1. D(p, 0) \in Int BY <1>1, <2>1
    <3>2. NodeValues[p] \in Int BY <1>3
    <3> HIDE DEF D, Merged
    <3>3. Total(p) \in Int /\ ClampOdds(NodeValues[p]) \in Int BY <3>1, <3>2, ClampIs
    <3> HIDE DEF Total
    <3>4. \/ f[p].data = ClampOdds(NodeValues[p])
          \/ f[p].data = Total(p)
          \/ f[p].data = 0
      BY <1>4
    <3>5. f[p].data \in Int BY <3>3, <3>4
    <3> QED BY <3>5
  <2> HIDE DEF S
  <2>2. OctreePath \subseteq S BY <2>1, FromTheCells
  <2> QED BY <2>2 DEF S
<1>6. \A p \in V, c \in OctreeCell :
        p \in WayTo[c] /\ f[p].leaf => f[p].data = ClampOdds(NodeValues[c])
  <2> DEFINE S == {p \in OctreePath : p \in V =>
                     \A c \in OctreeCell :
                       p \in WayTo[c] /\ f[p].leaf => f[p].data = ClampOdds(NodeValues[c])}
  <2>1. ASSUME NEW p \in OctreePath,
               \A i \in {0, 1} : p \o <<i>> \in OctreePath => p \o <<i>> \in S
        PROVE  p \in S
    <3> SUFFICES ASSUME p \in V, NEW c \in OctreeCell, p \in WayTo[c], f[p].leaf
                 PROVE  f[p].data = ClampOdds(NodeValues[c])
      OBVIOUS
    <3>0. c \in OctreePath /\ Len(c) = OctreeHeight BY DEF OctreeCell
    <3>1. CASE ~HasSubnodes(p) BY <3>1, <3>0, <1>4, NothingBelow
    <3>2. CASE HasSubnodes(p)
      <4>1. Merged(p) /\ f[p].data = Total(p)
        <5> HIDE DEF Merged, Total
        <5> QED BY <3>2, <1>4
      <4>2. p # c
        <5>1. PICK k \in octreeNodes : Len(k) > 0 /\ Up(k) = p BY <3>2 DEF HasSubnodes
        <5>2. k \in OctreePath /\ k # <<>> BY <5>1, OctreeRoot DEF OctreeSound
        <5>3. Len(k) = Len(p) + 1 /\ Len(k) \in 0..OctreeHeight BY <5>1, <5>2, OctreeUp, OctreePathsAre
        <5>4. OctreeHeight \in Nat /\ Len(p) \in Nat BY OctreePathsAre, OctreeAssumption
        <5> QED BY <5>3, <5>4, <3>0
      <4>3. PICK i \in {0, 1} : /\ p \o <<i>> \in WayTo[c] /\ p \o <<i>> \in OctreePath
                                /\ p \o <<i>> # <<>> /\ Up(p \o <<i>>) = p
        BY <3>0, <4>2, NextOnWay
      <4>4. D(p, i) = Total(p) /\ (p \o <<i>> \in V => f[p \o <<i>>].leaf) BY <4>1
      <4> HIDE DEF Merged, Total
      <4>5. CASE p \o <<i>> \in V
        <5>1. f[p \o <<i>>].data = ClampOdds(NodeValues[c]) BY <2>1, <4>3, <4>4, <4>5
        <5>2. D(p, i) = f[p \o <<i>>].data BY <4>5
        <5> QED BY <5>1, <5>2, <4>1, <4>4
      <4>6. CASE p \o <<i>> \notin V
        <5>1. NodeValues[c] = 0 BY <3>0, <3>2, <4>3, <4>6, MissingAreZero
        <5>2. D(p, i) = 0 BY <4>6
        <5> QED BY <5>1, <5>2, <4>1, <4>4, ClampIs
      <4> QED BY <4>5, <4>6
    <3> QED BY <3>1, <3>2
  <2> HIDE DEF S
  <2>2. OctreePath \subseteq S BY <2>1, FromTheCells
  <2> QED BY <2>2, <1>1 DEF S
<1>7. \A p \in OctreePath : /\ f[p].leaf \in BOOLEAN /\ (~HasSubnodes(p) => f[p].leaf)
                            /\ (~f[p].leaf => f[p].data = 0)
  <2> HIDE DEF Merged, Total
  <2> QED BY <1>4
<1> QED BY <1>5, <1>6, <1>7

\* The deepest node on the way to a cell.
LEMMA DeepestIs ==
  ASSUME NEW c \in OctreePath, NEW N \in SUBSET WayTo[c], <<>> \in N,
         NEW d, d = CHOOSE p \in N : \A q \in N : Len(q) <= Len(p)
  PROVE  d \in N /\ \A q \in N : Len(q) <= Len(d)
<1>0. \A q \in WayTo[c] : Len(q) \in Nat /\ Len(q) <= Len(c) BY OctreeWay, OctreePathsAre
<1>1. Len(c) \in Nat BY OctreePathsAre
<1> DEFINE S == {Len(c) - Len(q) : q \in N}
<1>2. S \in SUBSET Nat /\ S # {}
  <2>1. ASSUME NEW q \in N PROVE Len(c) - Len(q) \in Nat
    <3>1. Len(q) \in Nat /\ Len(q) <= Len(c) BY <1>0, Zenon
    <3> QED BY <3>1, <1>1
  <2> QED BY <2>1
<1>3. PICK s \in S : \A t \in S : s <= t
  <2> HIDE DEF S
  <2> QED BY <1>2, LeastNumber
<1>4. PICK p \in N : s = Len(c) - Len(p) OBVIOUS
<1>5. ASSUME NEW q \in N PROVE Len(q) <= Len(p)
  <2>1. Len(c) - Len(q) \in S OBVIOUS
  <2>2. s <= Len(c) - Len(q) BY <2>1, <1>3
  <2> QED BY <2>2, <1>0, <1>1, <1>4
<1>6. \E x \in N : \A q \in N : Len(q) <= Len(x) BY <1>5
<1> QED BY <1>6

LEMMA PruneOctreeStep ==
  ASSUME OctreeSound, PruneOctree
  PROVE  /\ OctreeSound'
         /\ \A c \in OctreeCell : /\ CellValue(c)' = ClampOdds(NodeValues[c])
                                  /\ NodeValues[c]' = ClampOdds(NodeValues[c])
<1> PICK V, f : V = VisitedByPrune(NodeValues) /\ f = PrunedNodes(NodeValues, V) OBVIOUS
<1> PICK nodes, data : nodes = octreeNodes' /\ data = octreeData' OBVIOUS
<1>1. /\ nodes = {p \in V : \A q \in WayTo[p] \ {p} : ~f[q].leaf}
      /\ data = [p \in OctreePath |-> IF p \in nodes THEN f[p].data ELSE 0]
  BY DEF PruneOctree
<1>2. V \in SUBSET OctreePath /\ octreeNodes \subseteq V /\ \A p \in V : WayTo[p] \subseteq V
  BY VisitedAre
<1>3. \A p \in OctreePath : /\ f[p].leaf \in BOOLEAN /\ f[p].data \in Int
                            /\ ~HasSubnodes(p) => f[p].leaf
                            /\ ~f[p].leaf => f[p].data = 0
  BY PrunedAre
<1>4. /\ nodes \subseteq OctreePath /\ <<>> \in nodes
      /\ \A p \in nodes : WayTo[p] \subseteq nodes
      /\ data \in [OctreePath -> Int]
      /\ \A p \in OctreePath \ nodes : data[p] = 0
  <2>1. <<>> \in nodes
    <3>1. <<>> \in V BY <1>2 DEF OctreeSound
    <3>2. ASSUME NEW q \in WayTo[<<>>] PROVE q = <<>>
      <4>1. q \in OctreePath /\ Len(q) <= 0 BY OctreeRoot, OctreeWay
      <4> QED BY <4>1, OctreePathsAre, OctreeRoot
    <3> QED BY <3>1, <3>2, <1>1
  <2>2. ASSUME NEW p \in nodes, NEW q \in WayTo[p] PROVE q \in nodes
    <3>1. p \in OctreePath /\ q \in V BY <1>1, <1>2
    <3>2. ASSUME NEW r \in WayTo[q] \ {q} PROVE ~f[r].leaf
      <4>1. r \in WayTo[p] /\ Len(r) <= Len(q) /\ Len(q) <= Len(p) /\ q \in OctreePath /\ r \in OctreePath
        BY <3>1, OctreeWay
      <4>2. r # p
        <5>1. ASSUME r = p PROVE FALSE
          <6>1. Len(r) \in Nat /\ Len(q) \in Nat BY <4>1, OctreePathsAre
          <6>2. Len(r) = Len(q) BY <4>1, <5>1, <6>1
          <6>3. q = p BY <6>2, <5>1, <3>1, OctreeWay
          <6> QED BY <6>3, <5>1, <3>2
        <5> QED BY <5>1
      <4> QED BY <4>1, <4>2, <1>1
    <3> QED BY <3>1, <3>2, <1>1
  <2> QED BY <2>1, <2>2, <1>1, <1>2, <1>3
<1>5. OctreeSound' BY <1>4 DEF OctreeSound
<1>6. ASSUME NEW c \in OctreeCell
      PROVE  CellValue(c)' = ClampOdds(NodeValues[c]) /\ NodeValues[c]' = ClampOdds(NodeValues[c])
  <2>0. c \in OctreePath /\ Len(c) = OctreeHeight BY DEF OctreeCell
  <2> DEFINE N == WayTo[c] \cap nodes
  <2>1. PICK d : d = CHOOSE p \in N : \A q \in N : Len(q) <= Len(p) OBVIOUS
  <2>2. CellValue(c)' = data[d] BY <2>1 DEF CellValue, Deepest
  <2>3. d \in N /\ \A q \in N : Len(q) <= Len(d)
    <3>1. N \in SUBSET WayTo[c] /\ <<>> \in N BY <2>0, <1>4, OctreeWay
    <3> HIDE DEF N
    <3> QED BY <2>0, <2>1, <3>1, DeepestIs
  <2>4. d \in OctreePath /\ d \in nodes /\ d \in WayTo[c] /\ d \in V /\ data[d] = f[d].data
    BY <2>0, <2>3, <1>1, <1>4
  <2>5. \A q \in WayTo[d] \ {d} : q \in nodes /\ q \in OctreePath /\ ~f[q].leaf BY <2>4, <1>1, <1>4
  <2>6. \A q \in WayTo[d] \ {d} : data[q] = 0 BY <2>5, <1>1, <1>3
  <2>7. \A q \in WayTo[c] \ WayTo[d] : data[q] = 0
    <3> TAKE q \in WayTo[c] \ WayTo[d]
    <3>1. q \in OctreePath BY <2>0, OctreeWay
    <3>2. q \notin nodes
      <4>1. ASSUME q \in nodes PROVE FALSE
        <5>1. Len(q) <= Len(d) BY <4>1, <2>3
        <5> QED BY <5>1, <2>0, <2>4, OctreeWay
      <4> QED BY <4>1
    <3> QED BY <3>1, <3>2, <1>4
  <2>8. SumOf(data)[c] = f[d].data
    <3>1. SumOf(data)[c] = SumOf(data)[d] BY <2>0, <2>4, <2>7, <1>4, SumBelow
    <3>2. SumOf(data)[d] = data[d] BY <2>4, <2>6, <1>4, SumOfOne
    <3> QED BY <3>1, <3>2, <2>4
  <2>9. NodeValues[c]' = SumOf(data)[c]
    <3>1. NodeValues' = SumOf(data) BY DEF NodeValues, SumOf
    <3> QED BY <3>1
  <2>10. f[d].data = ClampOdds(NodeValues[c])
    <3>1. CASE f[d].leaf BY <3>1, <2>4, PrunedAre
    <3>2. CASE ~f[d].leaf
      <4>1. HasSubnodes(d) /\ f[d].data = 0 BY <3>2, <2>4, <1>3
      <4>2. d # c
        <5>1. PICK k \in octreeNodes : Len(k) > 0 /\ Up(k) = d BY <4>1 DEF HasSubnodes
        <5>2. k \in OctreePath /\ k # <<>> BY <5>1, OctreeRoot DEF OctreeSound
        <5>3. Len(k) = Len(d) + 1 /\ Len(k) \in 0..OctreeHeight
          BY <5>1, <5>2, OctreeUp, OctreePathsAre
        <5>4. OctreeHeight \in Nat /\ Len(d) \in Nat BY <2>4, OctreePathsAre, OctreeAssumption
        <5> QED BY <5>3, <5>4, <2>0
      <4>3. PICK i \in {0, 1} : /\ d \o <<i>> \in WayTo[c] /\ d \o <<i>> \in OctreePath
                                /\ d \o <<i>> # <<>> /\ Up(d \o <<i>>) = d
                                /\ WayTo[d \o <<i>>] = WayTo[d] \cup {d \o <<i>>}
                                /\ d \o <<i>> \notin WayTo[d]
        BY <2>0, <2>4, <4>2, NextOnWay
      <4>4. d \o <<i>> \notin V
        <5>1. ASSUME d \o <<i>> \in V PROVE FALSE
          <6>1. d \o <<i>> \in nodes BY <5>1, <4>3, <3>2, <2>5, <1>1
          <6>2. Len(d \o <<i>>) <= Len(d) BY <6>1, <4>3, <2>3
          <6> QED BY <6>2, <4>3, <2>0, <2>4, OctreeWay
        <5> QED BY <5>1
      <4>5. NodeValues[c] = 0 BY <4>1, <4>3, <4>4, <2>0, <2>4, MissingAreZero
      <4> QED BY <4>1, <4>5, ClampIs
    <3> QED BY <3>1, <3>2
  <2> QED BY <2>2, <2>4, <2>8, <2>9, <2>10
<1> QED BY <1>5, <1>6

LEMMA OctreeStep == OctreeSound /\ [OctreeNext]_octreeVars => OctreeSound'
<1> SUFFICES ASSUME OctreeSound, [OctreeNext]_octreeVars PROVE OctreeSound' OBVIOUS
<1>1. ASSUME NEW p \in UpdatedPath, NEW v \in Int, octreeNodes' = octreeNodes \cup WayTo[p],
             octreeData' = [octreeData EXCEPT ![p] = v]
      PROVE  OctreeSound'
  <2>1. p \in OctreePath BY UpdatesAssumption
  <2>2. /\ WayTo[p] \subseteq OctreePath /\ p \in WayTo[p]
        /\ \A q \in WayTo[p] : WayTo[q] \subseteq WayTo[p]
    BY <2>1, OctreeWay
  <2> QED BY <1>1, <2>1, <2>2 DEF OctreeSound
<1>2. CASE \E p \in UpdatedPath, u \in Delta : AddToNode(p, u)
  <2>1. PICK p \in UpdatedPath, u \in Delta : AddToNode(p, u) BY <1>2
  <2>2. octreeData[p] + u \in Int BY OctreeAssumption, UpdatesAssumption DEF OctreeSound
  <2> QED BY <2>1, <2>2, <1>1 DEF AddToNode
<1>3. CASE \E c \in UpdatedPath \cap OctreeCell, u \in Delta : SetNode(c, u)
  BY <1>1, <1>3, OctreeAssumption DEF SetNode
<1>4. CASE PruneOctree BY <1>4, PruneOctreeStep
<1>5. CASE ClearOctree
  <2>1. WayTo[<<>>] \subseteq {<<>>}
    <3>1. ASSUME NEW q \in WayTo[<<>>] PROVE q = <<>>
      <4>1. q \in OctreePath /\ Len(q) <= 0 BY OctreeRoot, OctreeWay
      <4> QED BY <4>1, OctreePathsAre, OctreeRoot
    <3> QED BY <3>1
  <2> QED BY <1>5, <2>1, OctreeRoot DEF ClearOctree, OctreeSound
<1>6. CASE UNCHANGED octreeVars BY <1>6 DEF octreeVars, OctreeSound
<1> QED BY <1>2, <1>3, <1>4, <1>5, <1>6 DEF OctreeNext

\* Whatever has been added and pruned before, pruning the octree keeps the limited
\* value that the leaves report of each cell, and makes lookups of the cell agree.
THEOREM PruningKeepsLeaves == OctreeSpec => PruneKeepsLeaves
<1>1. OctreeInit => OctreeSound
  <2>1. WayTo[<<>>] \subseteq {<<>>}
    <3>1. ASSUME NEW q \in WayTo[<<>>] PROVE q = <<>>
      <4>1. q \in OctreePath /\ Len(q) <= 0 BY OctreeRoot, OctreeWay
      <4> QED BY <4>1, OctreePathsAre, OctreeRoot
    <3> QED BY <3>1
  <2> QED BY <2>1, OctreeRoot DEF OctreeInit, OctreeSound
<1>2. OctreeSound /\ [OctreeNext]_octreeVars =>
        [PruneOctree =>
           \A c \in OctreeCell : /\ CellValue(c)' = ClampOdds(NodeValues[c])
                                 /\ NodeValues[c]' = ClampOdds(NodeValues[c])]_octreeVars
  BY PruneOctreeStep
<1> QED BY <1>1, <1>2, OctreeStep, PTL DEF OctreeSpec, PruneKeepsLeaves

-----------------------------------------------------------------------------
(* Tree containers                                                         *)

USE ContainersAssumption, CallsAssumption

LEMMA RemainderIs ==
  ASSUME NEW n \in Nat, NEW c \in Nat \ {0}, NEW a \in Int, NEW r \in 0..(c - 1), n = c * a + r
  PROVE  n % c = r
OBVIOUS

\* Remainders are counted down.
LEMMA RemainderBefore ==
  ASSUME NEW n \in Nat, NEW c \in Nat \ {0}, n % c # 0 PROVE (n - 1) % c = (n % c) - 1
<1>0. n \in Int OBVIOUS
<1>1. PICK a \in Int, r \in 0..(c - 1) : n = c * a + r /\ n \div c = a /\ n % c = r
  BY <1>0, DivisionIs, Zenon
<1>2. r # 0 BY <1>1
<1>3. PICK k \in Int : k = n - 1 OBVIOUS
<1>4. PICK s \in Int : s = r - 1 OBVIOUS
<1>5. k = c * a + s BY <1>1, <1>3, <1>4
<1>6. k \in Nat /\ s \in 0..(c - 1)
  <2>1. n # 0 BY <1>1, <1>2
  <2> QED BY <2>1, <1>2, <1>3, <1>4
<1>7. k % c = s BY <1>5, <1>6, RemainderIs
<1> QED BY <1>1, <1>3, <1>4, <1>7

\* The multiple below a larger number is the same or lies beyond the smaller.
LEMMA NextMultiple ==
  ASSUME NEW m \in Nat, NEW n \in Nat, m < n, NEW c \in Nat \ {0},
         NEW x, x = n % c, NEW y, y = m % c, n - x # m - y
  PROVE  n - x > m
<1>0. n \in Int /\ m \in Int OBVIOUS
<1>1. PICK a \in Int, r \in 0..(c - 1) : n = c * a + r /\ n \div c = a /\ n % c = r
  BY <1>0, DivisionIs, Zenon
<1>2. PICK b \in Int, s \in 0..(c - 1) : m = c * b + s /\ m \div c = b /\ m % c = s
  BY <1>0, DivisionIs, Zenon
<1>3. c * a # c * b BY <1>1, <1>2
<1>4. a > b
  <2>1. CASE a = b BY <2>1, <1>3
  <2>2. CASE a < b
    <3>1. c * (b - a) >= c * 1 BY <2>2
    <3>2. c * b >= c * a + c BY <3>1
    <3> QED BY <3>2, <1>1, <1>2
  <2> QED BY <2>1, <2>2
<1>5. c * (a - b) >= c * 1 BY <1>4
<1>6. c * a >= c * b + c BY <1>5
<1> QED BY <1>1, <1>2, <1>6

-----------------------------------------------------------------------------
(* Paths                                                                   *)

\* Paths are the sequences of child indices that are not too long.
LEMMA PathIsSeq ==
  /\ \A p \in TreePath : p \in Seq({0, 1}) /\ Len(p) \in 0..MaxTreeHeight
  /\ \A p \in Seq({0, 1}) : Len(p) <= MaxTreeHeight => p \in TreePath
<1>1. TreePath = {SubSeq(p, 1, n) : p \in [1..MaxTreeHeight -> {0, 1}], n \in 0..MaxTreeHeight}
  BY DEF TreePath, First
<1>2. {SubSeq(p, 1, n) : p \in [1..MaxTreeHeight -> {0, 1}], n \in 0..MaxTreeHeight}
        = {p \in Seq({0, 1}) : Len(p) <= MaxTreeHeight}
  <2>1. MaxTreeHeight \in Nat OBVIOUS
  <2> HIDE ContainersAssumption, CallsAssumption
  <2> QED BY <2>1, PathsAre
<1>3. TreePath = {p \in Seq({0, 1}) : Len(p) <= MaxTreeHeight} BY <1>1, <1>2
<1> QED BY <1>3, LenProperties

\* The root is the only path without a step.
LEMMA RootPath ==
  /\ <<>> \in TreePath /\ Len(<<>>) = 0
  /\ \A p \in TreePath : Len(p) = 0 <=> p = <<>>
<1>1. <<>> \in Seq({0, 1}) /\ Len(<<>>) = 0 BY EmptySeq
<1>2. <<>> \in TreePath
  <2>1. PICK e : e = <<>> OBVIOUS
  <2>2. e \in Seq({0, 1}) /\ Len(e) <= MaxTreeHeight BY <1>1, <2>1
  <2> QED BY <2>1, <2>2, PathIsSeq
<1>3. ASSUME NEW p \in TreePath PROVE Len(p) = 0 <=> p = <<>>
  <2>1. p \in Seq({0, 1}) BY PathIsSeq
  <2> QED BY <1>1, <2>1, EmptySeq
<1> QED BY <1>1, <1>2, <1>3

LEMMA FirstSteps ==
  ASSUME NEW p \in TreePath, NEW n \in 0..Len(p)
  PROVE  /\ First(p, n) \in TreePath /\ Len(First(p, n)) = n
         /\ \A j \in 1..n : First(p, n)[j] = p[j]
<1>1. p \in Seq({0, 1}) /\ Len(p) \in 0..MaxTreeHeight BY PathIsSeq
<1>2. /\ SubSeq(p, 1, n) \in Seq({0, 1}) /\ Len(SubSeq(p, 1, n)) = n
      /\ \A j \in 1..n : SubSeq(p, 1, n)[j] = p[j]
  BY <1>1, FirstStepsAre
<1>3. n <= MaxTreeHeight BY <1>1
<1> QED BY <1>2, <1>3, PathIsSeq DEF First

\* The paths to a path are those that agree with it as far as they go.
LEMMA PathsToAgree ==
  ASSUME NEW p \in TreePath
  PROVE  /\ PathsTo[p] = Way(p)
         /\ \A q \in TreePath :
              q \in PathsTo[p] <=> Len(q) <= Len(p) /\ \A j \in 1..Len(q) : q[j] = p[j]
<1>1. PathsTo[p] = Way(p) BY DEF PathsTo, Way, First
<1>2. p \in Seq({0, 1}) /\ \A q \in TreePath : q \in Seq({0, 1}) BY PathIsSeq
<1> QED BY <1>1, <1>2, WayAgrees

\* They are paths, among them the path itself and the root.
LEMMA PathsToAre ==
  ASSUME NEW p \in TreePath
  PROVE  /\ PathsTo[p] \subseteq TreePath /\ p \in PathsTo[p] /\ <<>> \in PathsTo[p]
         /\ \A q \in PathsTo[p] : Len(q) <= Len(p) /\ (Len(q) = Len(p) => q = p)
<1>1. PathsTo[p] = Way(p) /\ p \in Seq({0, 1}) BY PathIsSeq, PathsToAgree
<1>2. PathsTo[p] \subseteq TreePath BY FirstSteps DEF PathsTo
<1> QED BY <1>1, <1>2, WayIs

\* What lies on the way to a node lies on the way to what is under it.
LEMMA PathsToPathsTo ==
  ASSUME NEW p \in TreePath, NEW q \in PathsTo[p], NEW r \in PathsTo[q] PROVE r \in PathsTo[p]
<1>1. q \in TreePath /\ p \in Seq({0, 1}) BY PathIsSeq, PathsToAre
<1>2. PathsTo[p] = Way(p) /\ PathsTo[q] = Way(q) BY <1>1, PathsToAgree
<1> QED BY <1>1, <1>2, WayOfWay

\* Of two nodes on the way to a third, the shorter path leads to the longer.
LEMMA PathsToInLine ==
  ASSUME NEW p \in TreePath, NEW q \in PathsTo[p], NEW r \in PathsTo[p], Len(r) <= Len(q)
  PROVE  r \in PathsTo[q]
<1>1. q \in TreePath /\ p \in Seq({0, 1}) BY PathIsSeq, PathsToAre
<1>2. PathsTo[p] = Way(p) /\ PathsTo[q] = Way(q) BY <1>1, PathsToAgree
<1> QED BY <1>1, <1>2, WayInLine

\* A path has a parent that is one step shorter; all shorter paths to it pass there.
LEMMA ParentPath ==
  ASSUME NEW p \in TreePath, p # <<>>
  PROVE  /\ Parent(p) \in TreePath /\ Len(p) = Len(Parent(p)) + 1 /\ Len(p) \in Nat
         /\ Len(Parent(p)) \in Nat /\ Parent(p) # p
         /\ Parent(p) \in PathsTo[p] /\ p \notin PathsTo[Parent(p)]
         /\ PathsTo[p] = PathsTo[Parent(p)] \cup {p}
<1>1. p \in Seq({0, 1}) /\ PathsTo[p] = Way(p) BY PathIsSeq, PathsToAgree
<1>2. PICK u : u = Parent(p) /\ u = SubSeq(p, 1, Len(p) - 1) BY DEF Parent, First
<1>3. /\ u \in Seq({0, 1}) /\ Len(p) = Len(u) + 1 /\ Len(p) \in Nat /\ Len(u) \in Nat
      /\ u # p /\ u \in Way(p) /\ p \notin Way(u) /\ Way(p) = Way(u) \cup {p}
  BY <1>1, <1>2, WayToParent
<1>4. u \in TreePath BY <1>1, <1>3, PathsToAre
<1>5. PathsTo[u] = Way(u) BY <1>4, PathsToAgree
<1> QED BY <1>1, <1>2, <1>3, <1>4, <1>5

\* Nothing but the root is on the way to the root.
LEMMA PathsToRoot == PathsTo[<<>>] = {<<>>}
<1>1. \A q \in PathsTo[<<>>] : q \in TreePath /\ Len(q) <= 0 BY RootPath, PathsToAre
<1>2. \A q \in PathsTo[<<>>] : q = <<>> BY <1>1, PathIsSeq, RootPath
<1> QED BY <1>2, RootPath, PathsToAre

-----------------------------------------------------------------------------
(* Chunks: every node has a slot of its own                                *)

\* What holds of the root, and of a path if of its parent, holds of all paths.
LEMMA FromTheRoot ==
  ASSUME NEW S, <<>> \in S, \A p \in TreePath \ {<<>>} : Parent(p) \in S => p \in S
  PROVE  TreePath \subseteq S
<1> DEFINE T == {n \in Nat : \A p \in TreePath : Len(p) = n => p \in S}
<1>1. 0 \in T BY RootPath
<1>2. ASSUME NEW n \in Nat, n \in T PROVE n + 1 \in T
  <2> SUFFICES ASSUME NEW p \in TreePath, Len(p) = n + 1 PROVE p \in S OBVIOUS
  <2>1. p # <<>> BY RootPath
  <2>2. Parent(p) \in TreePath /\ Len(p) = Len(Parent(p)) + 1 /\ Len(Parent(p)) \in Nat
    BY <2>1, ParentPath
  <2>3. Len(Parent(p)) = n BY <2>2
  <2> QED BY <1>2, <2>1, <2>2, <2>3
<1> HIDE DEF T
<1>3. Nat \subseteq T BY <1>1, <1>2, NatInductionSet
<1> QED BY <1>3, PathIsSeq DEF T

\* The depth of a node in its chunk.
LEMMA DepthIs ==
  ASSUME NEW p \in TreePath
  PROVE  /\ DepthInChunk(p) \in 0..(ChunkLevels - 1) /\ DepthInChunk(p) <= Len(p)
         /\ DepthInChunk(p) = Len(p) % ChunkLevels
<1>1. Len(p) \in Nat /\ Len(p) \in Int /\ ChunkLevels \in Nat \ {0} BY PathIsSeq
<1>2. PICK a \in Int, r \in 0..(ChunkLevels - 1) :
        /\ Len(p) = ChunkLevels * a + r /\ Len(p) \div ChunkLevels = a
        /\ Len(p) % ChunkLevels = r
  BY <1>1, DivisionIs, Zenon
<1>3. a >= 0
  <2>1. CASE a < 0
    <3>1. ChunkLevels * (a + 1) <= 0 BY <2>1, <1>1
    <3>2. ChunkLevels * a <= 0 - ChunkLevels BY <3>1, <1>1
    <3> QED BY <3>2, <1>1, <1>2
  <2> QED BY <2>1
<1>4. ChunkLevels * a >= 0 BY <1>1, <1>3
<1>5. r <= Len(p) BY <1>1, <1>2, <1>4
<1> QED BY <1>1, <1>2, <1>5 DEF DepthInChunk

\* The root of the chunk of a node is on the way to it.
LEMMA KeyIs ==
  ASSUME NEW p \in TreePath
  PROVE  /\ Key[p] \in TreePath /\ Key[p] \in PathsTo[p]
         /\ Len(Key[p]) = Len(p) - DepthInChunk(p)
         /\ DepthInChunk(p) = 0 => Key[p] = p
<1>1. Len(p) \in Nat /\ DepthInChunk(p) \in 0..Len(p) BY PathIsSeq, DepthIs
<1>2. PICK n \in 0..Len(p) : n = Len(p) - DepthInChunk(p) BY <1>1
<1>3. Key[p] = First(p, n) BY <1>2 DEF Key, DepthInChunk
<1>4. First(p, n) \in TreePath /\ Len(First(p, n)) = n BY FirstSteps
<1>5. Key[p] \in PathsTo[p] BY <1>3 DEF PathsTo
<1>6. ASSUME DepthInChunk(p) = 0 PROVE Key[p] = p
  <2>1. n = Len(p) BY <1>1, <1>2, <1>6
  <2> QED BY <1>3, <1>4, <1>5, <2>1, PathsToAre
<1> QED BY <1>2, <1>3, <1>4, <1>5, <1>6

\* A node below the root of its chunk shares the chunk with its parent.
LEMMA KeyOfParent ==
  ASSUME NEW p \in TreePath, DepthInChunk(p) # 0
  PROVE  p # <<>> /\ DepthInChunk(Parent(p)) = DepthInChunk(p) - 1 /\ Key[Parent(p)] = Key[p]
<1>1. Len(p) \in Nat /\ DepthInChunk(p) \in 0..Len(p) BY PathIsSeq, DepthIs
<1>2. p # <<>> BY <1>1, RootPath
<1>3. Parent(p) \in TreePath /\ Len(Parent(p)) = Len(p) - 1 BY <1>2, ParentPath
<1>4. DepthInChunk(Parent(p)) = DepthInChunk(p) - 1
  <2>1. Len(p) % ChunkLevels # 0 BY DepthIs
  <2>2. ChunkLevels \in Nat \ {0} OBVIOUS
  <2>3. (Len(p) - 1) % ChunkLevels = (Len(p) % ChunkLevels) - 1
    BY <1>1, <2>1, <2>2, RemainderBefore
  <2> QED BY <1>3, <2>3, DepthIs
<1>5. Key[Parent(p)] \in PathsTo[Parent(p)] /\ Len(Key[Parent(p)]) = Len(Key[p])
  <2>1. Len(Key[Parent(p)]) = Len(Parent(p)) - DepthInChunk(Parent(p)) BY <1>3, KeyIs
  <2>2. Len(Key[p]) = Len(p) - DepthInChunk(p) BY KeyIs
  <2> QED BY <1>1, <1>3, <1>4, <2>1, <2>2, KeyIs
<1>6. Key[Parent(p)] \in PathsTo[p] BY <1>2, <1>5, ParentPath
<1>7. Key[p] \in PathsTo[p] /\ Key[p] \in TreePath /\ Len(Key[p]) \in Nat BY KeyIs, PathIsSeq
<1>8. Key[Parent(p)] \in PathsTo[Key[p]] BY <1>5, <1>6, <1>7, PathsToInLine
<1>9. Key[Parent(p)] = Key[p] BY <1>5, <1>7, <1>8, PathsToAre
<1> QED BY <1>2, <1>4, <1>9

\* The recursion over the levels of a chunk defines the position of each node.
LEMMA PositionDefined ==
  /\ Position \in [TreePath -> Nat]
  /\ \A p \in TreePath : Position[p] =
       IF DepthInChunk(p) = 0 THEN 0 ELSE 2 * Position[Parent(p)] + p[Len(p)]
<1> DEFINE UpTo(n) == {p \in TreePath : Len(p) <= n}
           F(v, p) == IF DepthInChunk(p) = 0 THEN 0 ELSE 2 * v[Parent(p)] + p[Len(p)]
           T == {n \in Nat : \E v \in [UpTo(n) -> Nat] : \A p \in UpTo(n) : v[p] = F(v, p)}
<1>0. ASSUME NEW p \in TreePath, DepthInChunk(p) # 0
      PROVE  /\ Parent(p) \in TreePath /\ p[Len(p)] \in {0, 1}
             /\ Len(p) = Len(Parent(p)) + 1 /\ Len(Parent(p)) \in Nat
  <2>1. p # <<>> BY <1>0, KeyOfParent
  <2>2. p \in Seq({0, 1}) /\ Len(p) \in 1..Len(p) BY <2>1, PathIsSeq, RootPath
  <2> QED BY <2>1, <2>2, ParentPath, ElementOfSeq
<1>1. 0 \in T
  <2>1. \A p \in UpTo(0) : DepthInChunk(p) = 0
    <3> SUFFICES ASSUME NEW p \in TreePath, Len(p) <= 0 PROVE DepthInChunk(p) = 0 OBVIOUS
    <3> QED BY DepthIs, PathIsSeq
  <2>2. [p \in UpTo(0) |-> 0] \in [UpTo(0) -> Nat] OBVIOUS
  <2>3. \A p \in UpTo(0) : [q \in UpTo(0) |-> 0][p] = F([q \in UpTo(0) |-> 0], p) BY <2>1
  <2> QED BY <2>2, <2>3
<1>2. ASSUME NEW n \in Nat, n \in T PROVE n + 1 \in T
  <2>1. PICK v \in [UpTo(n) -> Nat] : \A p \in UpTo(n) : v[p] = F(v, p) BY <1>2
  <2> DEFINE w == [p \in UpTo(n + 1) |-> IF Len(p) <= n THEN v[p] ELSE F(v, p)]
  <2>2. ASSUME NEW p \in UpTo(n + 1), DepthInChunk(p) # 0
        PROVE  /\ Parent(p) \in UpTo(n) /\ Parent(p) \in UpTo(n + 1) /\ Len(Parent(p)) <= n
               /\ p[Len(p)] \in {0, 1}
    <3>1. Len(Parent(p)) <= n /\ Len(Parent(p)) <= n + 1 BY <1>0, <2>2
    <3> QED BY <1>0, <2>2, <3>1
  <2>3. ASSUME NEW p \in UpTo(n + 1) PROVE F(v, p) \in Nat
    <3>1. CASE DepthInChunk(p) = 0 BY <3>1
    <3>2. CASE DepthInChunk(p) # 0
      <4>1. v[Parent(p)] \in Nat /\ p[Len(p)] \in {0, 1} BY <2>2, <3>2
      <4> QED BY <3>2, <4>1
    <3> QED BY <3>1, <3>2
  <2>4. w \in [UpTo(n + 1) -> Nat]
    <3>1. \A p \in UpTo(n + 1) : Len(p) <= n => p \in UpTo(n) OBVIOUS
    <3> QED BY <2>3, <3>1
  <2>5. ASSUME NEW p \in UpTo(n + 1) PROVE w[p] = F(w, p)
    <3>1. F(w, p) = F(v, p)
      <4>1. CASE DepthInChunk(p) = 0 BY <4>1
      <4>2. CASE DepthInChunk(p) # 0
        <5>1. w[Parent(p)] = v[Parent(p)] BY <2>2, <4>2
        <5> QED BY <4>2, <5>1
      <4> QED BY <4>1, <4>2
    <3>2. CASE Len(p) <= n BY <2>1, <3>1, <3>2
    <3>3. CASE ~(Len(p) <= n) BY <3>1, <3>3
    <3> QED BY <3>2, <3>3
  <2> HIDE DEF w, F, UpTo
  <2>6. n + 1 \in Nat /\ \E x \in [UpTo(n + 1) -> Nat] : \A p \in UpTo(n + 1) : x[p] = F(x, p)
    BY <2>4, <2>5
  <2> QED BY <2>6
<1>3. MaxTreeHeight \in T
  <2> HIDE DEF T
  <2> QED BY <1>1, <1>2, NatInductionSet
<1>4. UpTo(MaxTreeHeight) = TreePath BY PathIsSeq
<1>5. PICK v \in [TreePath -> Nat] : \A p \in TreePath : v[p] = F(v, p) BY <1>3, <1>4
<1>6. v = [p \in TreePath |-> F(v, p)] BY <1>5
<1>7. Position = [p \in TreePath |-> F(Position, p)] BY <1>6 DEF Position
<1> DEFINE u == Position
<1>8. u = [p \in TreePath |-> F(u, p)] BY <1>7
<1> HIDE DEF u
<1>9. \A p \in TreePath : u[p] = F(u, p) BY <1>8
<1>10. TreePath \subseteq {p \in TreePath : u[p] \in Nat}
  <2> DEFINE S == {p \in TreePath : u[p] \in Nat}
  <2>1. <<>> \in S
    <3>1. DepthInChunk(<<>>) = 0 BY RootPath, DepthIs
    <3> QED BY <1>9, <3>1, RootPath
  <2>2. ASSUME NEW p \in TreePath \ {<<>>}, Parent(p) \in S PROVE p \in S
    <3>1. CASE DepthInChunk(p) = 0 BY <1>9, <3>1
    <3>2. CASE DepthInChunk(p) # 0
      <4>1. u[Parent(p)] \in Nat /\ p[Len(p)] \in {0, 1} BY <1>0, <2>2, <3>2
      <4>2. 2 * u[Parent(p)] + p[Len(p)] \in Nat BY <4>1
      <4> QED BY <1>9, <3>2, <4>2
    <3> QED BY <3>1, <3>2
  <2> HIDE DEF S
  <2>3. TreePath \subseteq S BY <2>1, <2>2, FromTheRoot
  <2> QED BY <2>3 DEF S
<1>11. u \in [TreePath -> Nat] BY <1>8, <1>10
<1> QED BY <1>9, <1>11 DEF u

\* A power is at least twice any smaller one.
LEMMA PowersGrow ==
  ASSUME NEW m \in 0..ChunkLevels, NEW n \in 0..ChunkLevels, m < n
  PROVE  2 * 2^m <= 2^n
<1> DEFINE T == {k \in Nat : m + 1 + k <= ChunkLevels => 2 * 2^m <= 2^(m + 1 + k)}
<1>1. 0 \in T
  <2>1. 2^(m + 1) = 2 * 2^m BY SlotPowers
  <2>2. m + 1 + 0 = m + 1 OBVIOUS
  <2> QED BY <2>1, <2>2, SlotPowers
<1>2. ASSUME NEW k \in Nat, k \in T PROVE k + 1 \in T
  <2> SUFFICES ASSUME m + 1 + (k + 1) <= ChunkLevels PROVE 2 * 2^m <= 2^(m + 1 + (k + 1)) OBVIOUS
  <2>1. PICK h \in 0..ChunkLevels : h = m + 1 + k /\ m + 1 + (k + 1) = h + 1 OBVIOUS
  <2>2. PICK a \in Nat \ {0} : a = 2^h BY SlotPowers
  <2>3. PICK b \in Nat \ {0} : b = 2^m BY SlotPowers
  <2>4. 2 * b <= a BY <1>2, <2>1, <2>2, <2>3
  <2>5. 2^(h + 1) = 2 * a BY <2>2, SlotPowers
  <2>6. 2 * b <= 2 * a BY <2>4
  <2> QED BY <2>1, <2>3, <2>5, <2>6
<1> HIDE DEF T
<1>3. n - m - 1 \in T BY <1>1, <1>2, NatInductionSet
<1>4. m + 1 + (n - m - 1) = n OBVIOUS
<1> QED BY <1>3, <1>4 DEF T

\* The positions at a depth are those that its bits can count.
LEMMA PositionsFit ==
  ASSUME NEW p \in TreePath PROVE Position[p] \in Nat /\ Position[p] < 2^DepthInChunk(p)
<1> DEFINE S == {r \in TreePath : Position[r] < 2^DepthInChunk(r)}
<1>1. ASSUME NEW q \in TreePath, DepthInChunk(q) = 0 PROVE q \in S
  <2>1. Position[q] = 0 BY <1>1, PositionDefined
  <2> QED BY <1>1, <2>1, SlotPowers
<1>2. <<>> \in S
  <2>1. DepthInChunk(<<>>) = 0 BY RootPath, DepthIs
  <2> QED BY <1>1, <2>1, RootPath
<1>3. ASSUME NEW q \in TreePath \ {<<>>}, Parent(q) \in S PROVE q \in S
  <2>1. CASE DepthInChunk(q) = 0 BY <1>1, <2>1
  <2>2. CASE DepthInChunk(q) # 0
    <3>1. PICK n \in 0..ChunkLevels : n = DepthInChunk(Parent(q)) /\ DepthInChunk(q) = n + 1
      <4>1. DepthInChunk(Parent(q)) = DepthInChunk(q) - 1 BY <2>2, KeyOfParent
      <4>2. DepthInChunk(q) \in 0..(ChunkLevels - 1) BY DepthIs
      <4>3. DepthInChunk(q) - 1 \in 0..ChunkLevels /\ DepthInChunk(q) = (DepthInChunk(q) - 1) + 1
        BY <2>2, <4>2
      <4> QED BY <4>1, <4>3
    <3>2. PICK a \in Nat \ {0} : a = 2^n BY SlotPowers
    <3>3. PICK b \in {0, 1} : b = q[Len(q)]
      <4>1. q \in Seq({0, 1}) /\ Len(q) \in 1..Len(q) BY PathIsSeq, RootPath
      <4> QED BY <4>1, ElementOfSeq
    <3>4. Parent(q) \in TreePath BY ParentPath
    <3>5. PICK x \in Nat : x = Position[Parent(q)] BY <3>4, PositionDefined
    <3>6. x < a BY <1>3, <3>1, <3>2, <3>5
    <3>7. Position[q] = 2 * x + b BY <2>2, <3>3, <3>5, PositionDefined
    <3>8. 2 * x + b < 2 * a BY <3>6
    <3>9. 2^DepthInChunk(q) = 2 * a BY <3>1, <3>2, SlotPowers
    <3> QED BY <3>7, <3>8, <3>9
  <2> QED BY <2>1, <2>2
<1> HIDE DEF S
<1>4. p \in S BY <1>2, <1>3, FromTheRoot
<1> QED BY <1>4, PositionDefined DEF S

\* Every node has a slot in its chunk.
LEMMA IndicesAreSlots ==
  ASSUME NEW p \in TreePath
  PROVE  /\ IndexInChunk[p] \in Slot /\ IndexInChunk[p] = 2^DepthInChunk(p) - 1 + Position[p]
         /\ 2^DepthInChunk(p) - 1 <= IndexInChunk[p]
         /\ IndexInChunk[p] <= 2 * 2^DepthInChunk(p) - 2
<1>1. PICK d \in 0..(ChunkLevels - 1) : d = DepthInChunk(p) BY DepthIs
<1>2. d \in 0..ChunkLevels /\ ChunkLevels \in 0..ChunkLevels /\ d < ChunkLevels OBVIOUS
<1>3. PICK a \in Nat \ {0} : a = 2^d BY <1>2, SlotPowers
<1>4. PICK c \in Nat \ {0} : c = 2^ChunkLevels BY <1>2, SlotPowers
<1>5. 2 * a <= c BY <1>2, <1>3, <1>4, PowersGrow
<1>6. PICK x \in Nat : x = Position[p] BY PositionDefined
<1>7. x < a BY <1>1, <1>3, <1>6, PositionsFit
<1>8. IndexInChunk[p] = 2^DepthInChunk(p) - 1 + Position[p] BY DEF IndexInChunk
<1>9. IndexInChunk[p] = a - 1 + x BY <1>1, <1>3, <1>6, <1>8
<1>10. a - 1 + x \in 0..(c - 2) /\ a - 1 <= a - 1 + x /\ a - 1 + x <= 2 * a - 2
  BY <1>5, <1>7
<1>11. Slot = 0..(c - 2) BY <1>4 DEF Slot
<1> QED BY <1>1, <1>3, <1>8, <1>9, <1>10, <1>11

\* A path is known by its parent and its last step.
LEMMA LastStep ==
  ASSUME NEW p \in TreePath \ {<<>>}, NEW q \in TreePath \ {<<>>},
         Parent(p) = Parent(q), p[Len(p)] = q[Len(q)]
  PROVE  p = q
<1>1. Len(p) = Len(Parent(p)) + 1 /\ Len(q) = Len(Parent(q)) + 1 /\ Len(Parent(p)) \in Nat
  BY ParentPath
<1>2. Len(p) = Len(q) /\ p \in Seq({0, 1}) /\ q \in Seq({0, 1}) BY <1>1, PathIsSeq
<1>3. ASSUME NEW r \in TreePath \ {<<>>}, NEW j \in 1..Len(r), j # Len(r)
      PROVE  r[j] = Parent(r)[j]
  <2>1. Len(r) \in Nat /\ Len(r) - 1 \in 0..Len(r) BY PathIsSeq, RootPath
  <2>2. j \in 1..(Len(r) - 1) BY <1>3, <2>1
  <2> QED BY <2>1, <2>2, FirstSteps DEF Parent
<1>4. \A j \in 1..Len(p) : p[j] = q[j] BY <1>2, <1>3
<1> QED BY <1>2, <1>4, SeqEqual

\* No two nodes share a slot.
LEMMA SlotsAreOwn ==
  ASSUME NEW p \in TreePath, NEW q \in TreePath,
         Key[p] = Key[q], IndexInChunk[p] = IndexInChunk[q]
  PROVE  p = q
<1> DEFINE S == {r \in TreePath : \A s \in TreePath :
                   Key[r] = Key[s] /\ IndexInChunk[r] = IndexInChunk[s] => r = s}
<1>1. ASSUME NEW r \in TreePath, NEW s \in TreePath, IndexInChunk[r] = IndexInChunk[s]
      PROVE  DepthInChunk(r) = DepthInChunk(s)
  <2>1. ASSUME NEW x \in TreePath, NEW y \in TreePath, DepthInChunk(x) < DepthInChunk(y)
        PROVE  IndexInChunk[x] < IndexInChunk[y]
    <3>1. PICK m \in 0..ChunkLevels : m = DepthInChunk(x) BY DepthIs
    <3>2. PICK n \in 0..ChunkLevels : n = DepthInChunk(y) BY DepthIs
    <3>3. PICK a \in Nat : a = 2^m BY <3>1, SlotPowers
    <3>4. PICK b \in Nat : b = 2^n BY <3>2, SlotPowers
    <3>5. 2 * a <= b BY <2>1, <3>1, <3>2, <3>3, <3>4, PowersGrow
    <3>6. Slot \subseteq Int BY DEF Slot
    <3>7. PICK i \in Int : i = IndexInChunk[x] BY <3>6, IndicesAreSlots
    <3>8. PICK j \in Int : j = IndexInChunk[y] BY <3>6, IndicesAreSlots
    <3>9. i <= 2 * a - 2 BY <3>1, <3>3, <3>7, IndicesAreSlots
    <3>10. b - 1 <= j BY <3>2, <3>4, <3>8, IndicesAreSlots
    <3>11. i < j BY <3>5, <3>9, <3>10
    <3> QED BY <3>7, <3>8, <3>11
  <2>2. ~(DepthInChunk(r) < DepthInChunk(s)) /\ ~(DepthInChunk(s) < DepthInChunk(r))
    <3>1. Slot \subseteq Int BY DEF Slot
    <3>2. IndexInChunk[r] \in Int BY <3>1, IndicesAreSlots
    <3>3. ~(IndexInChunk[r] < IndexInChunk[r]) BY <3>2
    <3> QED BY <1>1, <2>1, <3>3
  <2>3. DepthInChunk(r) \in Int /\ DepthInChunk(s) \in Int BY DepthIs
  <2> QED BY <2>2, <2>3
<1>2. ASSUME NEW r \in TreePath, DepthInChunk(r) = 0 PROVE r \in S
  <2> SUFFICES ASSUME NEW s \in TreePath, Key[r] = Key[s], IndexInChunk[r] = IndexInChunk[s]
               PROVE  r = s
    OBVIOUS
  <2>1. DepthInChunk(s) = 0 BY <1>1, <1>2
  <2> QED BY <1>2, <2>1, KeyIs
<1>3. <<>> \in S
  <2>1. DepthInChunk(<<>>) = 0 BY RootPath, DepthIs
  <2> QED BY <1>2, <2>1, RootPath
<1>4. ASSUME NEW r \in TreePath \ {<<>>}, Parent(r) \in S PROVE r \in S
  <2>1. CASE DepthInChunk(r) = 0 BY <1>2, <2>1
  <2>2. CASE DepthInChunk(r) # 0
    <3> SUFFICES ASSUME NEW s \in TreePath, Key[r] = Key[s], IndexInChunk[r] = IndexInChunk[s]
                 PROVE  r = s
      OBVIOUS
    <3>1. DepthInChunk(s) = DepthInChunk(r) BY <1>1
    <3>2. s # <<>> /\ DepthInChunk(s) # 0 BY <2>2, <3>1, KeyOfParent
    <3>3. Key[Parent(r)] = Key[Parent(s)] BY <2>2, <3>2, KeyOfParent
    <3>4. DepthInChunk(Parent(r)) = DepthInChunk(Parent(s)) BY <2>2, <3>1, <3>2, KeyOfParent
    <3>5. Parent(r) \in TreePath /\ Parent(s) \in TreePath BY <3>2, ParentPath
    <3>6. PICK a \in Nat : a = 2^DepthInChunk(r)
      <4>1. DepthInChunk(r) \in 0..ChunkLevels BY DepthIs
      <4> QED BY <4>1, SlotPowers
    <3>7. PICK x \in Nat : x = Position[Parent(r)] BY <3>5, PositionDefined
    <3>8. PICK y \in Nat : y = Position[Parent(s)] BY <3>5, PositionDefined
    <3>9. PICK b \in {0, 1} : b = r[Len(r)]
      <4>1. r \in Seq({0, 1}) /\ Len(r) \in 1..Len(r) BY PathIsSeq, RootPath
      <4> QED BY <4>1, ElementOfSeq
    <3>10. PICK c \in {0, 1} : c = s[Len(s)]
      <4>1. s \in Seq({0, 1}) /\ Len(s) \in 1..Len(s) BY <3>2, PathIsSeq, RootPath
      <4> QED BY <4>1, ElementOfSeq
    <3>11. Position[r] = 2 * x + b BY <2>2, <3>7, <3>9, PositionDefined
    <3>12. Position[s] = 2 * y + c BY <3>2, <3>8, <3>10, PositionDefined
    <3>13. IndexInChunk[r] = a - 1 + (2 * x + b) BY <3>6, <3>11, IndicesAreSlots
    <3>14. IndexInChunk[s] = a - 1 + (2 * y + c) BY <3>1, <3>6, <3>12, IndicesAreSlots
    <3>15. a - 1 + (2 * x + b) = a - 1 + (2 * y + c) BY <3>13, <3>14
    <3>16. x = y /\ b = c BY <3>15
    <3>17. IndexInChunk[Parent(r)] = IndexInChunk[Parent(s)]
      <4>1. Position[Parent(r)] = Position[Parent(s)] BY <3>7, <3>8, <3>16
      <4> QED BY <3>4, <4>1, <3>5 DEF IndexInChunk
    <3>18. Parent(r) = Parent(s) BY <1>4, <3>3, <3>5, <3>17
    <3> QED BY <3>2, <3>9, <3>10, <3>16, <3>18, LastStep
  <2> QED BY <2>1, <2>2
<1> HIDE DEF S
<1>5. p \in S BY <1>3, <1>4, FromTheRoot
<1> QED BY <1>5 DEF S

\* Below the chunk of the parent of an erased node every chunk goes with the node.
LEMMA KeysUnder ==
  ASSUME NEW p \in TreePath \ {<<>>}, NEW r \in Under[p], Key[r] # Key[Parent(p)]
  PROVE  Key[r] \in Under[p]
<1>1. r \in TreePath /\ p \in PathsTo[r] BY DEF Under
<1>2. /\ Parent(p) \in TreePath /\ Len(p) = Len(Parent(p)) + 1 /\ Len(Parent(p)) \in Nat
      /\ Parent(p) \in PathsTo[p]
  BY ParentPath
<1>3. Key[r] \in TreePath /\ Key[r] \in PathsTo[r] /\ Len(Key[r]) = Len(r) - DepthInChunk(r)
  BY <1>1, KeyIs
<1>4. /\ Key[Parent(p)] \in PathsTo[Parent(p)]
      /\ Len(Key[Parent(p)]) = Len(Parent(p)) - DepthInChunk(Parent(p))
  BY <1>2, KeyIs
<1>5. Key[Parent(p)] \in PathsTo[r] BY <1>1, <1>2, <1>4, PathsToPathsTo
<1>6. Len(Key[r]) # Len(Key[Parent(p)])
  <2>1. SUFFICES ASSUME Len(Key[r]) = Len(Key[Parent(p)]) PROVE FALSE OBVIOUS
  <2>2. Len(Key[r]) \in Nat BY <1>3, PathIsSeq
  <2>3. Key[Parent(p)] \in PathsTo[Key[r]] BY <1>1, <1>3, <1>5, <2>1, <2>2, PathsToInLine
  <2> QED BY <1>3, <2>1, <2>3, PathsToAre
<1>7. PICK n \in Nat : n = Len(r) BY <1>1, PathIsSeq
<1>8. PICK m \in Nat : m = Len(Parent(p)) BY <1>2
<1>9. m < n
  <2>1. Len(p) <= Len(r) BY <1>1, PathsToAre
  <2> QED BY <1>2, <1>7, <1>8, <2>1
<1>10. ChunkLevels \in Nat \ {0} OBVIOUS
<1>11. PICK x : x = DepthInChunk(r) OBVIOUS
<1>12. PICK y : y = DepthInChunk(Parent(p)) OBVIOUS
<1>13. x = n % ChunkLevels BY <1>1, <1>7, <1>11, DepthIs, Zenon
<1>14. y = m % ChunkLevels BY <1>2, <1>8, <1>12, DepthIs, Zenon
<1>15. n - x # m - y BY <1>3, <1>4, <1>6, <1>7, <1>8, <1>11, <1>12
<1>16. n - x > m BY <1>9, <1>10, <1>13, <1>14, <1>15, NextMultiple
<1>17. Len(p) <= Len(Key[r])
  <2>1. PICK l \in Nat : l = Len(Key[r]) BY <1>3, PathIsSeq
  <2>2. l = n - x BY <1>3, <1>7, <1>11, <2>1
  <2>3. l > m BY <1>16, <2>2
  <2> QED BY <1>2, <1>8, <2>1, <2>3
<1>18. p \in PathsTo[Key[r]] BY <1>1, <1>3, <1>17, PathsToInLine
<1> QED BY <1>3, <1>18 DEF Under

\* Nodes outside a subtree have their chunks, and the nodes on the way, outside.
LEMMA OutsideUnder ==
  ASSUME NEW p \in TreePath, NEW r \in TreePath, r \notin Under[p]
  PROVE  Key[r] \notin Under[p] /\ \A q \in PathsTo[r] : q \notin Under[p]
<1>1. ASSUME NEW q \in PathsTo[r], q \in Under[p] PROVE FALSE
  <2>1. p \in PathsTo[q] BY <1>1 DEF Under
  <2>2. p \in PathsTo[r] BY <2>1, PathsToPathsTo
  <2> QED BY <2>2 DEF Under
<1> QED BY <1>1, KeyIs

-----------------------------------------------------------------------------
(* Chunked trees                                                           *)

\* What the slots of a node hold.
Bit(c, p) == Key[p] \in DOMAIN c /\ c[Key[p]].hasChild[IndexInChunk[p]]
Datum(c, p) == IF Key[p] \in DOMAIN c THEN c[Key[p]].data[IndexInChunk[p]] ELSE 0

\* All nodes on the way to p know that they have children.
Reached(c, p) == \A q \in PathsTo[p] \ {p} : Bit(c, q)

\* The root's chunk is always there; nothing is stored, nor chunks kept, for
\* nodes that do not exist.
ChunksSound(c) ==
  /\ <<>> \in DOMAIN c /\ DOMAIN c \subseteq TreePath
  /\ \A k \in DOMAIN c : c[k] \in [data : [Slot -> Nat], hasChild : [Slot -> BOOLEAN]]
  /\ \A k \in DOMAIN c : Reached(c, k)
  /\ \A p \in TreePath : Bit(c, p) \/ Datum(c, p) # 0 => Reached(c, p)

\* A fresh container is sound and holds the default everywhere.
LEMMA FreshChunks ==
  ASSUME NEW c, c = [k \in {<<>>} |-> EmptyChunk]
  PROVE  ChunksSound(c) /\ \A p \in TreePath : Datum(c, p) = 0
<1>1. EmptyChunk \in [data : [Slot -> Nat], hasChild : [Slot -> BOOLEAN]] BY DEF EmptyChunk
<1>2. ASSUME NEW p \in TreePath PROVE Datum(c, p) = 0 /\ ~Bit(c, p)
  <2>1. IndexInChunk[p] \in Slot BY IndicesAreSlots
  <2> QED BY <2>1 DEF Datum, Bit, EmptyChunk
<1>3. Reached(c, <<>>) BY PathsToRoot DEF Reached
<1> QED BY <1>1, <1>2, <1>3, RootPath DEF ChunksSound

\* In a sound container the value read is the one in the slot.
LEMMA ChunkedReads ==
  ASSUME ChunksSound(chunks)
  PROVE  ChunkedValue = [p \in TreePath |-> Datum(chunks, p)]
<1> SUFFICES ASSUME NEW p \in TreePath
             PROVE  (IF HasNode(p) THEN chunks[Key[p]].data[IndexInChunk[p]] ELSE 0)
                      = Datum(chunks, p)
  BY DEF ChunkedValue
<1>1. ASSUME HasNode(p) PROVE Key[p] \in DOMAIN chunks
  <2>1. CASE p = <<>>
    <3>1. DepthInChunk(p) = 0 BY <2>1, RootPath, DepthIs
    <3> QED BY <2>1, <3>1, KeyIs DEF ChunksSound
  <2>2. CASE p # <<>>
    <3>1. Parent(p) \in PathsTo[p] \ {p} /\ Len(Parent(p)) + 1 = Len(p) BY <2>2, ParentPath
    <3>2. Key[First(p, Len(p))] \in DOMAIN chunks BY <1>1, <3>1 DEF HasNode
    <3>3. First(p, Len(p)) = p
      <4>1. Len(p) \in 0..Len(p) BY PathIsSeq
      <4>2. First(p, Len(p)) \in PathsTo[p] BY <4>1 DEF PathsTo
      <4> QED BY <4>1, <4>2, FirstSteps, PathsToAre
    <3> QED BY <3>2, <3>3
  <2> QED BY <2>1, <2>2
<1>2. ASSUME Datum(chunks, p) # 0 PROVE HasNode(p)
  <2>1. Key[p] \in DOMAIN chunks BY <1>2 DEF Datum
  <2>2. \A q \in PathsTo[p] \ {p} : Bit(chunks, q) BY <1>2 DEF ChunksSound, Reached
  <2>3. ASSUME NEW q \in PathsTo[p] \ {p} PROVE Key[First(p, Len(q) + 1)] \in DOMAIN chunks
    <3>1. q \in TreePath /\ Len(q) <= Len(p) /\ Len(q) # Len(p) BY <2>3, PathsToAre
    <3>2. Len(q) + 1 \in 0..Len(p) BY <3>1, PathIsSeq
    <3>3. First(p, Len(q) + 1) \in PathsTo[p] BY <3>2 DEF PathsTo
    <3> QED BY <2>1, <2>2, <3>3 DEF Bit
  <2> QED BY <2>2, <2>3 DEF HasNode, Bit
<1> QED BY <1>1, <1>2 DEF Datum

\* A write fills the slot of its node and sets the bits on the way to it.
LEMMA ChunksWritten ==
  ASSUME ChunksSound(chunks), NEW p \in TreePath, NEW v \in Nat, ChunkedWrite(p, v)
  PROVE  /\ ChunksSound(chunks')
         /\ \A q \in TreePath : Datum(chunks', q) = IF q = p THEN v ELSE Datum(chunks, q)
<1> DEFINE keys == {Key[q] : q \in PathsTo[p]}
           way == PathsTo[p] \ {p}
           old(k) == IF k \in DOMAIN chunks THEN chunks[k] ELSE EmptyChunk
           Chunk == [data : [Slot -> Nat], hasChild : [Slot -> BOOLEAN]]
<1>1. PICK d : d = chunks' OBVIOUS
<1>2. PICK c : c = chunks OBVIOUS
<1>3. /\ DOMAIN d = DOMAIN chunks \cup keys
      /\ \A k \in DOMAIN d : k \notin keys => d[k] = old(k)
      /\ \A k \in keys : d[k] =
           [data |-> [i \in Slot |-> IF k = Key[p] /\ i = IndexInChunk[p] THEN v ELSE old(k).data[i]],
            hasChild |-> [i \in Slot |-> old(k).hasChild[i] \/
                            \E q \in PathsTo[p] \ {p} : Key[q] = k /\ IndexInChunk[q] = i]]
  BY <1>1 DEF ChunkedWrite
<1>4. keys \subseteq TreePath /\ PathsTo[p] \subseteq TreePath BY PathsToAre, KeyIs
<1>5. \A k \in TreePath : old(k) \in Chunk BY DEF ChunksSound, EmptyChunk
<1>6. DOMAIN chunks \subseteq TreePath /\ <<>> \in DOMAIN chunks BY DEF ChunksSound
<1> HIDE DEF old
<1>7. ASSUME NEW k \in DOMAIN d PROVE d[k] \in Chunk
  <2>1. k \in TreePath BY <1>3, <1>4, <1>6
  <2>2. CASE k \notin keys BY <1>3, <1>5, <2>1, <2>2
  <2>3. CASE k \in keys
    <3> DEFINE data == [i \in Slot |-> IF k = Key[p] /\ i = IndexInChunk[p] THEN v ELSE old(k).data[i]]
               hasChild == [i \in Slot |-> old(k).hasChild[i] \/
                              \E q \in PathsTo[p] \ {p} : Key[q] = k /\ IndexInChunk[q] = i]
    <3>1. data \in [Slot -> Nat] BY <1>5, <2>1
    <3>2. hasChild \in [Slot -> BOOLEAN]
      <4>1. \A i \in Slot : (old(k).hasChild[i] \/
              \E q \in PathsTo[p] \ {p} : Key[q] = k /\ IndexInChunk[q] = i) \in BOOLEAN
        BY <1>5, <2>1
      <4> QED BY <4>1
    <3>3. d[k] = [data |-> data, hasChild |-> hasChild] BY <1>3, <2>3
    <3> QED BY <3>1, <3>2, <3>3
  <2> QED BY <2>2, <2>3
<1>8. ASSUME NEW q \in TreePath
      PROVE  Datum(d, q) = IF q = p THEN v ELSE Datum(chunks, q)
  <2>0. IndexInChunk[q] \in Slot BY IndicesAreSlots
  <2>1. old(Key[q]).data[IndexInChunk[q]] = Datum(chunks, q) BY <2>0 DEF Datum, old, EmptyChunk
  <2>2. CASE Key[q] \in keys
    <3>1. d[Key[q]].data[IndexInChunk[q]] =
            IF Key[q] = Key[p] /\ IndexInChunk[q] = IndexInChunk[p] THEN v
            ELSE old(Key[q]).data[IndexInChunk[q]]
      <4>1. PICK k \in keys : k = Key[q] BY <2>2
      <4>2. PICK i \in Slot : i = IndexInChunk[q] BY <2>0
      <4>3. d[k].data[i] = IF k = Key[p] /\ i = IndexInChunk[p] THEN v ELSE old(k).data[i]
        <5> DEFINE data == [j \in Slot |-> IF k = Key[p] /\ j = IndexInChunk[p] THEN v ELSE old(k).data[j]]
        <5> DEFINE hasChild == [j \in Slot |-> old(k).hasChild[j] \/
                                  \E s \in PathsTo[p] \ {p} : Key[s] = k /\ IndexInChunk[s] = j]
        <5>1. d[k] = [data |-> data, hasChild |-> hasChild] BY <1>3
        <5>2. d[k].data = data
          <6> HIDE DEF data, hasChild
          <6> QED BY <5>1
        <5> QED BY <5>2
      <4> QED BY <4>1, <4>2, <4>3
    <3>2. Key[q] = Key[p] /\ IndexInChunk[q] = IndexInChunk[p] <=> q = p BY SlotsAreOwn
    <3> QED BY <1>3, <2>1, <2>2, <3>1, <3>2 DEF Datum
  <2>3. CASE Key[q] \notin keys
    <3>1. q # p BY <2>3, PathsToAre
    <3>2. CASE Key[q] \in DOMAIN chunks BY <1>3, <2>1, <2>3, <3>1, <3>2 DEF Datum
    <3>3. CASE Key[q] \notin DOMAIN chunks BY <1>3, <2>3, <3>1, <3>3 DEF Datum
    <3> QED BY <3>2, <3>3
  <2> QED BY <2>2, <2>3
<1>9. ASSUME NEW q \in TreePath PROVE Bit(d, q) <=> Bit(chunks, q) \/ q \in way
  <2>0. IndexInChunk[q] \in Slot BY IndicesAreSlots
  <2>1. old(Key[q]).hasChild[IndexInChunk[q]] <=> Bit(chunks, q) BY <2>0 DEF Bit, old, EmptyChunk
  <2>2. CASE Key[q] \in keys
    <3>1. d[Key[q]].hasChild[IndexInChunk[q]] <=>
            \/ old(Key[q]).hasChild[IndexInChunk[q]]
            \/ \E s \in way : Key[s] = Key[q] /\ IndexInChunk[s] = IndexInChunk[q]
      <4>1. PICK k \in keys : k = Key[q] BY <2>2
      <4>2. PICK i \in Slot : i = IndexInChunk[q] BY <2>0
      <4>3. d[k].hasChild[i] <=> old(k).hasChild[i] \/
              \E s \in PathsTo[p] \ {p} : Key[s] = k /\ IndexInChunk[s] = i
        <5> DEFINE hasChild == [j \in Slot |-> old(k).hasChild[j] \/
                                  \E s \in PathsTo[p] \ {p} : Key[s] = k /\ IndexInChunk[s] = j]
        <5> DEFINE data == [j \in Slot |-> IF k = Key[p] /\ j = IndexInChunk[p] THEN v ELSE old(k).data[j]]
        <5>1. d[k] = [data |-> data, hasChild |-> hasChild] BY <1>3
        <5>2. d[k].hasChild = hasChild
          <6> HIDE DEF data, hasChild
          <6> QED BY <5>1
        <5> QED BY <5>2
      <4> QED BY <4>1, <4>2, <4>3
    <3>2. (\E s \in way : Key[s] = Key[q] /\ IndexInChunk[s] = IndexInChunk[q]) <=> q \in way
      BY <1>4, SlotsAreOwn
    <3> QED BY <1>3, <2>1, <2>2, <3>1, <3>2 DEF Bit
  <2>3. CASE Key[q] \notin keys
    <3>1. q \notin way BY <2>3
    <3>2. CASE Key[q] \in DOMAIN chunks BY <1>3, <2>1, <2>3, <3>1, <3>2 DEF Bit
    <3>3. CASE Key[q] \notin DOMAIN chunks BY <1>3, <2>3, <3>1, <3>3 DEF Bit
    <3> QED BY <3>2, <3>3
  <2> QED BY <2>2, <2>3
<1>10. ASSUME NEW q \in PathsTo[p] PROVE PathsTo[q] \ {q} \subseteq way
  <2> SUFFICES ASSUME NEW r \in PathsTo[q] \ {q} PROVE r \in way OBVIOUS
  <2>1. q \in TreePath /\ r \in TreePath /\ r \in PathsTo[p] BY <1>4, PathsToPathsTo, PathsToAre
  <2>2. Len(r) <= Len(q) /\ Len(r) # Len(q) /\ Len(q) <= Len(p) BY <2>1, PathsToAre
  <2>3. Len(r) \in Nat /\ Len(q) \in Nat /\ Len(p) \in Nat BY <2>1, PathIsSeq
  <2>4. r # p BY <2>2, <2>3
  <2> QED BY <2>1, <2>4
<1>11. ASSUME NEW q \in TreePath, Reached(chunks, q) PROVE Reached(d, q)
  BY <1>9, <1>11, PathsToAre DEF Reached
<1>12. ASSUME NEW q \in PathsTo[p] PROVE Reached(d, q)
  <2>1. PathsTo[q] \ {q} \subseteq way BY <1>10
  <2> QED BY <1>4, <1>9, <2>1 DEF Reached
<1>13. ASSUME NEW k \in DOMAIN d PROVE Reached(d, k)
  <2>1. CASE k \in DOMAIN chunks BY <1>6, <1>11, <2>1 DEF ChunksSound
  <2>2. CASE k \in keys
    <3>1. PICK q \in PathsTo[p] : k = Key[q] BY <2>2
    <3>2. k \in PathsTo[p] BY <1>4, <3>1, KeyIs, PathsToPathsTo
    <3> QED BY <1>12, <3>2
  <2> QED BY <1>3, <2>1, <2>2
<1>14. ASSUME NEW q \in TreePath, Bit(d, q) \/ Datum(d, q) # 0 PROVE Reached(d, q)
  <2>1. CASE q \in PathsTo[p] BY <1>12, <2>1
  <2>2. CASE q \notin PathsTo[p]
    <3>1. q # p BY <2>2, PathsToAre
    <3>2. Bit(chunks, q) \/ Datum(chunks, q) # 0 BY <1>8, <1>9, <1>14, <2>2, <3>1
    <3> QED BY <1>11, <3>2 DEF ChunksSound
  <2> QED BY <2>1, <2>2
<1>15. ChunksSound(d) BY <1>3, <1>4, <1>6, <1>7, <1>13, <1>14 DEF ChunksSound
<1> QED BY <1>1, <1>8, <1>15

\* An erasure empties the slots of the nodes below and keeps all others.
LEMMA ChunksErased ==
  ASSUME ChunksSound(chunks), NEW p \in TreePath \ {<<>>}, EraseChild(p)
  PROVE  /\ ChunksSound(chunks')
         /\ \A q \in TreePath :
              Datum(chunks', q) = IF q \in Under[p] THEN 0 ELSE Datum(chunks, q)
<1> DEFINE reset(k, i) == \E q \in Under[p] : Key[q] = Key[Parent(p)] /\ Key[q] = k /\ IndexInChunk[q] = i
           Chunk == [data : [Slot -> Nat], hasChild : [Slot -> BOOLEAN]]
<1>1. PICK d : d = chunks' OBVIOUS
<1>2. /\ DOMAIN d = DOMAIN chunks \ Under[p]
      /\ \A k \in DOMAIN d : d[k] =
           [data |-> [i \in Slot |-> IF reset(k, i) THEN 0 ELSE chunks[k].data[i]],
            hasChild |-> [i \in Slot |-> ~reset(k, i) /\ chunks[k].hasChild[i]]]
  BY <1>1 DEF EraseChild, Released
<1>3. Under[p] \subseteq TreePath BY DEF Under
<1>4. DOMAIN chunks \subseteq TreePath /\ <<>> \in DOMAIN chunks BY DEF ChunksSound
<1>5. ASSUME NEW q \in TreePath, Key[q] \in DOMAIN d PROVE reset(Key[q], IndexInChunk[q]) <=> q \in Under[p]
  <2>1. ASSUME reset(Key[q], IndexInChunk[q]) PROVE q \in Under[p] BY <1>3, <2>1, SlotsAreOwn
  <2>2. ASSUME q \in Under[p] PROVE Key[q] = Key[Parent(p)] BY <1>2, <1>5, <2>2, KeysUnder
  <2> QED BY <2>1, <2>2
<1> HIDE DEF reset
<1>6. ASSUME NEW k \in DOMAIN d PROVE d[k] \in Chunk
  <2>1. chunks[k] \in Chunk BY <1>2 DEF ChunksSound
  <2> DEFINE data == [i \in Slot |-> IF reset(k, i) THEN 0 ELSE chunks[k].data[i]]
             hasChild == [i \in Slot |-> ~reset(k, i) /\ chunks[k].hasChild[i]]
  <2>2. data \in [Slot -> Nat] BY <2>1
  <2>3. hasChild \in [Slot -> BOOLEAN]
    <3>1. \A i \in Slot : (~reset(k, i) /\ chunks[k].hasChild[i]) \in BOOLEAN BY <2>1
    <3> QED BY <3>1
  <2>4. d[k] = [data |-> data, hasChild |-> hasChild] BY <1>2
  <2> QED BY <2>2, <2>3, <2>4
<1>7. ASSUME NEW q \in TreePath
      PROVE  /\ Datum(d, q) = IF q \in Under[p] THEN 0 ELSE Datum(chunks, q)
             /\ Bit(d, q) <=> Bit(chunks, q) /\ q \notin Under[p]
  <2>0. IndexInChunk[q] \in Slot BY IndicesAreSlots
  <2>1. CASE Key[q] \in DOMAIN d
    <3>1. d[Key[q]].data[IndexInChunk[q]] =
            IF q \in Under[p] THEN 0 ELSE chunks[Key[q]].data[IndexInChunk[q]]
      <4>1. PICK k \in DOMAIN d : k = Key[q] BY <2>1
      <4>2. PICK i \in Slot : i = IndexInChunk[q] BY <2>0
      <4>3. d[k].data[i] = IF reset(k, i) THEN 0 ELSE chunks[k].data[i]
        <5> DEFINE data == [j \in Slot |-> IF reset(k, j) THEN 0 ELSE chunks[k].data[j]]
        <5> DEFINE hasChild == [j \in Slot |-> ~reset(k, j) /\ chunks[k].hasChild[j]]
        <5>1. d[k] = [data |-> data, hasChild |-> hasChild] BY <1>2
        <5>2. d[k].data = data
          <6> HIDE DEF data, hasChild
          <6> QED BY <5>1
        <5> QED BY <5>2
      <4>4. reset(k, i) <=> q \in Under[p] BY <1>5, <2>1, <4>1, <4>2
      <4> QED BY <4>1, <4>2, <4>3, <4>4
    <3>2. d[Key[q]].hasChild[IndexInChunk[q]] <=>
            q \notin Under[p] /\ chunks[Key[q]].hasChild[IndexInChunk[q]]
      <4>1. PICK k \in DOMAIN d : k = Key[q] BY <2>1
      <4>2. PICK i \in Slot : i = IndexInChunk[q] BY <2>0
      <4>3. d[k].hasChild[i] <=> ~reset(k, i) /\ chunks[k].hasChild[i]
        <5> DEFINE hasChild == [j \in Slot |-> ~reset(k, j) /\ chunks[k].hasChild[j]]
        <5> DEFINE data == [j \in Slot |-> IF reset(k, j) THEN 0 ELSE chunks[k].data[j]]
        <5>1. d[k] = [data |-> data, hasChild |-> hasChild] BY <1>2
        <5>2. d[k].hasChild = hasChild
          <6> HIDE DEF data, hasChild
          <6> QED BY <5>1
        <5> QED BY <5>2
      <4>4. reset(k, i) <=> q \in Under[p] BY <1>5, <2>1, <4>1, <4>2
      <4> QED BY <4>1, <4>2, <4>3, <4>4
    <3> QED BY <1>2, <2>1, <3>1, <3>2 DEF Datum, Bit
  <2>2. CASE Key[q] \notin DOMAIN d
    <3>1. ASSUME Key[q] \in DOMAIN chunks PROVE q \in Under[p] BY <1>2, <2>2, <3>1, OutsideUnder
    <3> QED BY <2>2, <3>1 DEF Datum, Bit
  <2> QED BY <2>1, <2>2
<1>8. ASSUME NEW q \in TreePath, q \notin Under[p], Reached(chunks, q) PROVE Reached(d, q)
  <2>1. \A r \in PathsTo[q] : r \in TreePath /\ r \notin Under[p] BY <1>8, OutsideUnder, PathsToAre
  <2> QED BY <1>7, <1>8, <2>1 DEF Reached
<1>9. <<>> \in DOMAIN d
  <2>1. <<>> \notin Under[p] BY PathsToRoot DEF Under
  <2> QED BY <1>2, <1>4, <2>1
<1>10. \A k \in DOMAIN d : Reached(d, k) BY <1>2, <1>4, <1>8 DEF ChunksSound
<1>11. \A q \in TreePath : Bit(d, q) \/ Datum(d, q) # 0 => Reached(d, q) BY <1>7, <1>8 DEF ChunksSound
<1>12. ChunksSound(d) BY <1>2, <1>4, <1>6, <1>9, <1>10, <1>11 DEF ChunksSound
<1> QED BY <1>1, <1>7, <1>12

-----------------------------------------------------------------------------
(* Plain trees                                                             *)

\* Every node but the root lies in the array of its parent, arrays are owned by
\* nodes above the lowest level, and nothing is stored for other nodes.
PlainSound ==
  /\ treeNodes \subseteq TreePath /\ <<>> \in treeNodes
  /\ arrays \subseteq {p \in treeNodes : Len(p) < MaxTreeHeight}
  /\ \A p \in treeNodes \ {<<>>} : Parent(p) \in arrays
  /\ nodeData \in [TreePath -> Nat] /\ \A p \in TreePath \ treeNodes : nodeData[p] = 0

\* In a sound tree the value read is the one in the node.
LEMMA PlainReads == ASSUME PlainSound PROVE PlainValue = nodeData
<1>1. \A p \in TreePath : (IF p \in treeNodes THEN nodeData[p] ELSE 0) = nodeData[p]
  BY DEF PlainSound
<1>2. nodeData = [p \in TreePath |-> nodeData[p]] BY DEF PlainSound
<1> QED BY <1>1, <1>2 DEF PlainValue

\* A write allocates the nodes on the way to its node.
LEMMA PlainWritten ==
  ASSUME PlainSound, NEW p \in TreePath, NEW v \in Nat, PlainWrite(p, v)
  PROVE  PlainSound'
<1>1. PathsTo[p] \subseteq TreePath /\ p \in PathsTo[p] BY PathsToAre
<1>2. ASSUME NEW q \in PathsTo[p] \ {p} PROVE Len(q) < MaxTreeHeight
  <2>1. q \in TreePath /\ Len(q) <= Len(p) /\ Len(q) # Len(p) BY <1>1, <1>2, PathsToAre
  <2> QED BY <2>1, PathIsSeq
<1>3. ASSUME NEW q \in PathsTo[p] \ {<<>>} PROVE Parent(q) \in PathsTo[p] \ {p}
  <2>1. q \in TreePath BY <1>1
  <2>2. Parent(q) \in TreePath /\ Parent(q) \in PathsTo[q] /\ Len(Parent(q)) < Len(q)
    BY <2>1, ParentPath
  <2>3. Parent(q) \in PathsTo[p] /\ Len(q) <= Len(p) BY <2>1, <2>2, PathsToPathsTo, PathsToAre
  <2>4. Len(Parent(q)) \in Nat /\ Len(q) \in Nat /\ Len(p) \in Nat BY <2>1, <2>2, PathIsSeq
  <2>5. Parent(q) # p BY <2>2, <2>3, <2>4
  <2> QED BY <2>3, <2>5
<1>4. treeNodes' \subseteq TreePath /\ <<>> \in treeNodes' /\ treeNodes \subseteq treeNodes'
  BY <1>1 DEF PlainSound, PlainWrite
<1>5. arrays' \subseteq {q \in treeNodes' : Len(q) < MaxTreeHeight}
  BY <1>2 DEF PlainSound, PlainWrite
<1>6. \A q \in treeNodes' \ {<<>>} : Parent(q) \in arrays' BY <1>3 DEF PlainSound, PlainWrite
<1>7. nodeData' \in [TreePath -> Nat] /\ \A q \in TreePath \ treeNodes' : nodeData'[q] = 0
  BY <1>1 DEF PlainSound, PlainWrite
<1> QED BY <1>4, <1>5, <1>6, <1>7 DEF PlainSound

\* An erasure takes a subtree away; the tree above it stays as it was.
LEMMA PlainErased ==
  ASSUME PlainSound, NEW p \in TreePath \ {<<>>}, PlainErase(p)
  PROVE  /\ PlainSound'
         /\ \/ nodeData' = nodeData
            \/ \A q \in TreePath : nodeData'[q] = IF q \in Under[p] THEN 0 ELSE nodeData[q]
<1>1. CASE Parent(p) \in treeNodes
  <2>1. /\ treeNodes' = treeNodes \ Under[p] /\ arrays' = arrays \ Under[p]
        /\ nodeData' = [q \in TreePath |-> IF q \in Under[p] THEN 0 ELSE nodeData[q]]
    BY <1>1 DEF PlainErase
  <2>2. <<>> \notin Under[p] BY PathsToRoot DEF Under
  <2>3. ASSUME NEW q \in treeNodes \ {<<>>}, q \notin Under[p] PROVE Parent(q) \notin Under[p]
    <3>1. q \in TreePath BY DEF PlainSound
    <3> QED BY <2>3, <3>1, ParentPath, OutsideUnder
  <2>4. treeNodes' \subseteq TreePath /\ <<>> \in treeNodes' BY <2>1, <2>2 DEF PlainSound
  <2>5. arrays' \subseteq {q \in treeNodes' : Len(q) < MaxTreeHeight} BY <2>1 DEF PlainSound
  <2>6. \A q \in treeNodes' \ {<<>>} : Parent(q) \in arrays' BY <2>1, <2>3 DEF PlainSound
  <2>7. nodeData' \in [TreePath -> Nat] /\ \A q \in TreePath \ treeNodes' : nodeData'[q] = 0
    BY <2>1 DEF PlainSound
  <2>8. PlainSound' BY <2>4, <2>5, <2>6, <2>7 DEF PlainSound
  <2> QED BY <2>1, <2>8
<1>2. CASE Parent(p) \notin treeNodes BY <1>2 DEF PlainErase, PlainSound
<1> QED BY <1>1, <1>2

\* What survives a pruning at n levels above the lowest.
Survives(below, p) ==
  \/ Len(p) = 0
  \/ Parent(p) \notin Visited
  \/ nodeData[p] # 0
  \/ /\ p \in arrays
     /\ p \in Visited => \E c \in below : Parent(c) = p

SurvivorsAt[n \in 0..MaxTreeHeight] ==
  {p \in treeNodes : Len(p) = MaxTreeHeight - n /\ Survives(SurvivorsAt[n - 1], p)}

LEMMA NodesAfterPruneAre == NodesAfterPrune = UNION {SurvivorsAt[n] : n \in 0..MaxTreeHeight}
BY DEF NodesAfterPrune, SurvivorsAt, Survives

\* The recursion over the levels defines who survives: no node of the lowest
\* level owns an array.
LEMMA SurvivorsDefined ==
  ASSUME PlainSound
  PROVE  \A n \in 0..MaxTreeHeight : SurvivorsAt[n] =
           {p \in treeNodes : Len(p) = MaxTreeHeight - n /\ Survives(SurvivorsAt[n - 1], p)}
<1> DEFINE G(k, n) == {p \in treeNodes : Len(p) = MaxTreeHeight - n /\ Survives(k[n - 1], p)}
           T == {n \in Nat : \E k \in [0..n -> SUBSET treeNodes] : \A h \in 0..n : k[h] = G(k, h)}
<1>0. ASSUME NEW k, NEW l PROVE G(k, 0) = G(l, 0)
  <2>1. \A p \in arrays : Len(p) # MaxTreeHeight - 0
    <3> SUFFICES ASSUME NEW p \in arrays PROVE Len(p) # MaxTreeHeight - 0 OBVIOUS
    <3>1. p \in TreePath /\ Len(p) < MaxTreeHeight BY DEF PlainSound
    <3> QED BY <3>1, PathIsSeq
  <2> QED BY <2>1 DEF Survives
<1>1. 0 \in T
  <2> DEFINE k == [h \in 0..0 |-> G(<<>>, 0)]
  <2>1. k \in [0..0 -> SUBSET treeNodes] OBVIOUS
  <2>2. \A h \in 0..0 : k[h] = G(k, h)
    <3>1. \A h \in 0..0 : h = 0 OBVIOUS
    <3>2. k[0] = G(<<>>, 0) OBVIOUS
    <3>3. G(k, 0) = G(<<>>, 0) BY <1>0
    <3> HIDE DEF G, k
    <3> QED BY <3>1, <3>2, <3>3
  <2> HIDE DEF G, k
  <2> QED BY <2>1, <2>2
<1>2. ASSUME NEW n \in Nat, n \in T PROVE n + 1 \in T
  <2>1. PICK k \in [0..n -> SUBSET treeNodes] : \A h \in 0..n : k[h] = G(k, h) BY <1>2
  <2> DEFINE w == [h \in 0..(n + 1) |-> IF h \in 0..n THEN k[h] ELSE G(k, h)]
  <2>2. \A h \in 0..(n + 1) : h # 0 => h - 1 \in 0..n /\ h - 1 \in 0..(n + 1) OBVIOUS
  <2>3. \A h \in 0..(n + 1) : h # 0 => w[h - 1] = k[h - 1] BY <2>2
  <2>4. \A h \in 0..(n + 1) : G(w, h) = G(k, h) /\ G(k, h) \subseteq treeNodes
    <3> SUFFICES ASSUME NEW h \in 0..(n + 1)
                 PROVE  G(w, h) = G(k, h) /\ G(k, h) \subseteq treeNodes
      OBVIOUS
    <3>1. CASE h = 0
      <4>1. G(w, 0) = G(k, 0) BY <1>0
      <4>2. G(k, h) \subseteq treeNodes OBVIOUS
      <4> HIDE DEF G, w
      <4> QED BY <3>1, <4>1, <4>2
    <3>2. CASE h # 0
      <4>1. w[h - 1] = k[h - 1] BY <2>3, <3>2
      <4> HIDE DEF w
      <4> QED BY <4>1
    <3> QED BY <3>1, <3>2
  <2>5. w \in [0..(n + 1) -> SUBSET treeNodes]
    <3>1. ASSUME NEW h \in 0..(n + 1)
          PROVE  (IF h \in 0..n THEN k[h] ELSE G(k, h)) \in SUBSET treeNodes
      BY <2>4
    <3> HIDE DEF G
    <3> QED BY <3>1
  <2>6. \A h \in 0..(n + 1) : w[h] = G(w, h)
    <3> SUFFICES ASSUME NEW h \in 0..(n + 1) PROVE w[h] = G(k, h) BY <2>4
    <3> HIDE DEF G
    <3> QED BY <2>1
  <2> HIDE DEF w, G
  <2>7. n + 1 \in Nat /\ \E x \in [0..(n + 1) -> SUBSET treeNodes] : \A h \in 0..(n + 1) : x[h] = G(x, h)
    BY <2>5, <2>6
  <2> QED BY <2>7
<1>3. MaxTreeHeight \in T
  <2> HIDE DEF T
  <2> QED BY <1>1, <1>2, NatInductionSet
<1>4. PICK k \in [0..MaxTreeHeight -> SUBSET treeNodes] : \A h \in 0..MaxTreeHeight : k[h] = G(k, h)
  BY <1>3
<1>5. k = [h \in 0..MaxTreeHeight |-> G(k, h)]
  <2> HIDE DEF G
  <2> QED BY <1>4
<1>6. SurvivorsAt = [h \in 0..MaxTreeHeight |-> G(SurvivorsAt, h)] BY <1>5 DEF SurvivorsAt
<1> DEFINE u == SurvivorsAt
<1>7. u = [h \in 0..MaxTreeHeight |-> G(u, h)] BY <1>6
<1> HIDE DEF u
<1>8. \A h \in 0..MaxTreeHeight : u[h] = G(u, h)
  <2> HIDE DEF G
  <2> QED BY <1>7
<1> QED BY <1>8 DEF u

\* A pruning keeps every node with data, and a tree.
LEMMA PlainPruned ==
  ASSUME PlainSound, PruneTree PROVE PlainSound' /\ nodeData' = nodeData
<1>1. treeNodes' = UNION {SurvivorsAt[n] : n \in 0..MaxTreeHeight}
  BY NodesAfterPruneAre DEF PruneTree
<1>2. ASSUME NEW p PROVE p \in treeNodes' <=> p \in treeNodes /\ p \in SurvivorsAt[MaxTreeHeight - Len(p)]
  <2>1. ASSUME p \in treeNodes'
        PROVE  p \in treeNodes /\ p \in SurvivorsAt[MaxTreeHeight - Len(p)]
    <3>1. PICK n \in 0..MaxTreeHeight : p \in SurvivorsAt[n] BY <1>1, <2>1
    <3>2. p \in treeNodes /\ Len(p) = MaxTreeHeight - n BY <3>1, SurvivorsDefined
    <3>3. MaxTreeHeight - Len(p) = n BY <3>2
    <3> QED BY <3>1, <3>2, <3>3
  <2>2. ASSUME p \in treeNodes, p \in SurvivorsAt[MaxTreeHeight - Len(p)] PROVE p \in treeNodes'
    <3>1. p \in TreePath BY <2>2 DEF PlainSound
    <3>2. MaxTreeHeight - Len(p) \in 0..MaxTreeHeight BY <3>1, PathIsSeq
    <3> QED BY <1>1, <2>2, <3>2
  <2> QED BY <2>1, <2>2
<1>3. ASSUME NEW p \in treeNodes
      PROVE  p \in treeNodes' <=> Survives(SurvivorsAt[MaxTreeHeight - Len(p) - 1], p)
  <2>1. p \in TreePath BY DEF PlainSound
  <2>2. PICK n \in 0..MaxTreeHeight : n = MaxTreeHeight - Len(p) /\ Len(p) = MaxTreeHeight - n
    <3>1. Len(p) \in 0..MaxTreeHeight BY <2>1, PathIsSeq
    <3>2. MaxTreeHeight - Len(p) \in 0..MaxTreeHeight /\ Len(p) = MaxTreeHeight - (MaxTreeHeight - Len(p))
      BY <3>1
    <3> QED BY <3>2
  <2>3. p \in SurvivorsAt[n] <=> Survives(SurvivorsAt[n - 1], p) BY <2>2, SurvivorsDefined
  <2> QED BY <1>2, <2>2, <2>3
<1>4. treeNodes' \subseteq treeNodes BY <1>2
<1>5. <<>> \in treeNodes'
  <2>1. Survives(SurvivorsAt[MaxTreeHeight - Len(<<>>) - 1], <<>>) BY RootPath DEF Survives
  <2> QED BY <1>3, <2>1 DEF PlainSound
<1>6. nodeData' = nodeData
  <2>1. \A p \in treeNodes : nodeData[p] # 0 => p \in treeNodes' BY <1>3 DEF Survives
  <2>2. \A p \in TreePath : (IF p \in treeNodes' THEN nodeData[p] ELSE 0) = nodeData[p]
    BY <2>1 DEF PlainSound
  <2>3. nodeData' = [p \in TreePath |-> IF p \in treeNodes' THEN nodeData[p] ELSE 0] BY DEF PruneTree
  <2>4. nodeData = [p \in TreePath |-> nodeData[p]] BY DEF PlainSound
  <2> QED BY <2>2, <2>3, <2>4
<1>7. arrays' = {p \in arrays \cap treeNodes' : p \in Visited => \E c \in Children(p) : c \in treeNodes'}
  BY DEF PruneTree
<1>8. ASSUME NEW p \in treeNodes' \ {<<>>} PROVE Parent(p) \in arrays'
  <2>1. p \in treeNodes /\ p \in TreePath BY <1>4 DEF PlainSound
  <2>2. Parent(p) \in arrays /\ Parent(p) \in treeNodes BY <2>1 DEF PlainSound
  <2>3. Len(p) = Len(Parent(p)) + 1 /\ Len(Parent(p)) \in Nat BY <2>1, ParentPath
  <2>4. p \in Children(Parent(p)) BY <2>1, <2>3 DEF Children
  <2>5. MaxTreeHeight - Len(Parent(p)) - 1 = MaxTreeHeight - Len(p) BY <2>3
  <2>6. p \in SurvivorsAt[MaxTreeHeight - Len(Parent(p)) - 1] BY <1>2, <2>5
  <2>7. Parent(p) \in treeNodes' BY <1>3, <2>2, <2>6 DEF Survives
  <2> QED BY <1>7, <2>2, <2>4, <2>7
<1>9. arrays' \subseteq {p \in treeNodes' : Len(p) < MaxTreeHeight} BY <1>7 DEF PlainSound
<1>10. nodeData' \in [TreePath -> Nat] /\ \A p \in TreePath \ treeNodes' : nodeData'[p] = 0
  <2>1. \A p \in TreePath \ treeNodes' : nodeData'[p] = 0 BY DEF PruneTree
  <2> QED BY <1>6, <2>1 DEF PlainSound
<1>11. treeNodes' \subseteq TreePath BY <1>4 DEF PlainSound
<1>12. PlainSound' BY <1>5, <1>8, <1>9, <1>10, <1>11 DEF PlainSound
<1> QED BY <1>6, <1>12

-----------------------------------------------------------------------------
(* Both are the abstract tree                                              *)

\* One step of the abstract tree, from the values f to the values g.
Changed(f, g) == {p \in TreePath : g[p] # f[p]}
DataStep(f, g) ==
  \/ \E p \in Changed(f, g) : Changed(f, g) = {p} /\ g[p] \in NodeValue
  \/ \E p \in TreePath : /\ Changed(f, g) \subseteq Under[p]
                         /\ \A q \in Changed(f, g) : g[q] = 0
                         /\ \A q \in Under[p] \ Changed(f, g) : f[q] = 0

\* What lies below a node begins with its path.
LEMMA BelowIsUnder ==
  ASSUME NEW p \in TreePath
  PROVE  {q \in TreePath : Len(q) >= Len(p) /\ SubSeq(q, 1, Len(p)) = p} = Under[p]
<1> SUFFICES ASSUME NEW q \in TreePath
             PROVE  Len(q) >= Len(p) /\ SubSeq(q, 1, Len(p)) = p <=> p \in PathsTo[q]
  BY DEF Under
<1>1. Len(p) \in Nat /\ Len(q) \in Nat BY PathIsSeq
<1>2. ASSUME Len(q) >= Len(p), SubSeq(q, 1, Len(p)) = p PROVE p \in PathsTo[q]
  <2>1. Len(p) \in 0..Len(q) /\ p = First(q, Len(p)) BY <1>1, <1>2 DEF First
  <2> QED BY <2>1 DEF PathsTo
<1>3. ASSUME p \in PathsTo[q] PROVE Len(q) >= Len(p) /\ SubSeq(q, 1, Len(p)) = p
  <2>1. PICK n \in 0..Len(q) : p = First(q, n) BY <1>3 DEF PathsTo
  <2>2. Len(p) = n BY <2>1, FirstSteps
  <2> QED BY <1>1, <2>1, <2>2 DEF First
<1> QED BY <1>2, <1>3

LEMMA PlainStep == PlainTree!Next <=> DataStep(PlainValue, PlainValue')
<1>1. \A p \in TreePath : PlainTree!Below(p) = Under[p] BY BelowIsUnder DEF PlainTree!Below
<1> QED BY <1>1 DEF PlainTree!Next, DataStep, Changed

LEMMA ChunkedStep == ChunkedTree!Next <=> DataStep(ChunkedValue, ChunkedValue')
<1>1. \A p \in TreePath : ChunkedTree!Below(p) = Under[p] BY BelowIsUnder DEF ChunkedTree!Below
<1> QED BY <1>1 DEF ChunkedTree!Next, DataStep, Changed

\* Changing one node is a step, or nothing happens.
LEMMA WriteIsStep ==
  ASSUME NEW f \in [TreePath -> Nat], NEW g \in [TreePath -> Nat],
         NEW p \in TreePath, NEW v \in NodeValue,
         \A q \in TreePath : g[q] = IF q = p THEN v ELSE f[q]
  PROVE  g = f \/ DataStep(f, g)
<1>1. CASE f[p] = v
  <2>1. \A q \in TreePath : g[q] = f[q] BY <1>1
  <2> QED BY <2>1
<1>2. CASE f[p] # v
  <2>1. Changed(f, g) = {p} BY <1>2 DEF Changed
  <2> QED BY <2>1 DEF DataStep
<1> QED BY <1>1, <1>2

\* So is emptying a subtree.
LEMMA EraseIsStep ==
  ASSUME NEW f \in [TreePath -> Nat], NEW g \in [TreePath -> Nat], NEW p \in TreePath,
         \A q \in TreePath : g[q] = IF q \in Under[p] THEN 0 ELSE f[q]
  PROVE  DataStep(f, g)
<1>1. Under[p] \subseteq TreePath BY DEF Under
<1> QED BY <1>1 DEF DataStep, Changed

\* Everything lies under the root.
LEMMA UnderRoot == Under[<<>>] = TreePath
BY RootPath, PathsToAre DEF Under

TreesSound == PlainSound /\ ChunksSound(chunks)

\* Both containers start empty.
LEMMA TreesStartSound ==
  ContainersInit => TreesSound /\ PlainTree!Init /\ ChunkedTree!Init
<1> SUFFICES ASSUME ContainersInit PROVE TreesSound /\ PlainTree!Init /\ ChunkedTree!Init OBVIOUS
<1>1. PlainSound BY RootPath DEF ContainersInit, PlainSound
<1>2. ChunksSound(chunks) /\ \A p \in TreePath : Datum(chunks, p) = 0
  BY FreshChunks DEF ContainersInit
<1>3. PlainTree!Init BY <1>1, PlainReads DEF PlainTree!Init, ContainersInit
<1>4. ChunkedTree!Init BY <1>2, ChunkedReads DEF ChunkedTree!Init
<1> QED BY <1>1, <1>2, <1>3, <1>4 DEF TreesSound

\* Data of a sound chunked tree are numbers.
LEMMA DataAreNumbers ==
  ASSUME NEW c, ChunksSound(c) PROVE [p \in TreePath |-> Datum(c, p)] \in [TreePath -> Nat]
<1>1. \A p \in TreePath : Datum(c, p) \in Nat BY IndicesAreSlots DEF ChunksSound, Datum
<1> QED BY <1>1

\* Every call keeps both containers sound and is a step of both abstract trees.
LEMMA TreesStepSound ==
  TreesSound /\ [ContainersNext]_containerVars =>
    TreesSound' /\ [PlainTree!Next]_PlainValue /\ [ChunkedTree!Next]_ChunkedValue
<1> SUFFICES ASSUME TreesSound, [ContainersNext]_containerVars
             PROVE  /\ TreesSound'
                    /\ PlainValue' = PlainValue \/ DataStep(PlainValue, PlainValue')
                    /\ ChunkedValue' = ChunkedValue \/ DataStep(ChunkedValue, ChunkedValue')
  BY PlainStep, ChunkedStep
<1>1. PlainSound /\ ChunksSound(chunks) BY DEF TreesSound
<1>2. PICK f \in [TreePath -> Nat] : f = PlainValue /\ f = nodeData BY <1>1, PlainReads DEF PlainSound
<1>3. PICK c \in [TreePath -> Nat] : c = ChunkedValue /\ \A q \in TreePath : c[q] = Datum(chunks, q)
  BY <1>1, ChunkedReads, DataAreNumbers
<1>4. ASSUME PlainSound' PROVE PlainValue' = nodeData' /\ nodeData' \in [TreePath -> Nat]
  <2>1. \A p \in TreePath : (IF p \in treeNodes' THEN nodeData'[p] ELSE 0) = nodeData'[p]
    BY <1>4 DEF PlainSound
  <2>2. nodeData' = [p \in TreePath |-> nodeData'[p]] BY <1>4 DEF PlainSound
  <2> QED BY <1>4, <2>1, <2>2 DEF PlainValue, PlainSound
<1>5. ASSUME ChunksSound(chunks')
      PROVE  /\ ChunkedValue' \in [TreePath -> Nat]
             /\ \A q \in TreePath : ChunkedValue'[q] = Datum(chunks', q)
  <2>1. (ChunksSound(chunks) => ChunkedValue = [p \in TreePath |-> Datum(chunks, p)])'
    BY ChunkedReads, PTL
  <2> QED BY <1>5, <2>1, DataAreNumbers
<1>6. ASSUME NEW p \in Written, NEW v \in NodeValue, WriteNode(p, v) PROVE
        /\ TreesSound'
        /\ PlainValue' = PlainValue \/ DataStep(PlainValue, PlainValue')
        /\ ChunkedValue' = ChunkedValue \/ DataStep(ChunkedValue, ChunkedValue')
  <2>1. p \in TreePath /\ v \in Nat OBVIOUS
  <2>2. PlainSound' BY <1>1, <1>6, <2>1, PlainWritten DEF WriteNode
  <2>3. /\ ChunksSound(chunks')
        /\ \A q \in TreePath : Datum(chunks', q) = IF q = p THEN v ELSE Datum(chunks, q)
    BY <1>1, <1>6, <2>1, ChunksWritten DEF WriteNode
  <2>4. PICK g \in [TreePath -> Nat] : g = PlainValue' /\ g = nodeData' BY <1>4, <2>2
  <2>5. \A q \in TreePath : g[q] = IF q = p THEN v ELSE f[q]
    <3>1. g = [f EXCEPT ![p] = v] BY <1>2, <1>6, <2>4 DEF WriteNode, PlainWrite
    <3> QED BY <2>1, <3>1
  <2>6. g = f \/ DataStep(f, g) BY <2>1, <2>5, WriteIsStep, ZenonT(60)
  <2>7. PICK d \in [TreePath -> Nat] : d = ChunkedValue' /\ \A q \in TreePath : d[q] = Datum(chunks', q)
    BY <1>5, <2>3
  <2>8. \A q \in TreePath : d[q] = IF q = p THEN v ELSE c[q] BY <1>3, <2>3, <2>7
  <2>9. d = c \/ DataStep(c, d) BY <2>1, <2>8, WriteIsStep, ZenonT(60)
  <2> QED BY <1>2, <1>3, <2>2, <2>3, <2>4, <2>6, <2>7, <2>9 DEF TreesSound
<1>7. ASSUME NEW p \in Erased, EraseNode(p) PROVE
        /\ TreesSound'
        /\ PlainValue' = PlainValue \/ DataStep(PlainValue, PlainValue')
        /\ ChunkedValue' = ChunkedValue \/ DataStep(ChunkedValue, ChunkedValue')
  <2>1. p \in TreePath \ {<<>>} OBVIOUS
  <2>2. /\ PlainSound'
        /\ \/ nodeData' = nodeData
           \/ \A q \in TreePath : nodeData'[q] = IF q \in Under[p] THEN 0 ELSE nodeData[q]
    BY <1>1, <1>7, <2>1, PlainErased DEF EraseNode
  <2>3. PICK g \in [TreePath -> Nat] : g = PlainValue' /\ g = nodeData' BY <1>4, <2>2
  <2>4. g = f \/ DataStep(f, g)
    <3>1. CASE nodeData' = nodeData BY <1>2, <2>3, <3>1
    <3>2. CASE \A q \in TreePath : nodeData'[q] = IF q \in Under[p] THEN 0 ELSE nodeData[q]
      <4>1. \A q \in TreePath : g[q] = IF q \in Under[p] THEN 0 ELSE f[q] BY <1>2, <2>3, <3>2
      <4> QED BY <2>1, <4>1, EraseIsStep, ZenonT(60)
    <3> QED BY <2>2, <3>1, <3>2
  <2>5. ChunkedErase(p) BY <1>7 DEF EraseNode
  <2>6. CASE UNCHANGED chunks
    <3>1. ChunksSound(chunks') BY <1>1, <2>6
    <3>2. PICK d \in [TreePath -> Nat] : d = ChunkedValue' /\ \A q \in TreePath : d[q] = Datum(chunks', q)
      BY <1>5, <3>1
    <3>3. \A q \in TreePath : d[q] = c[q] BY <1>3, <2>6, <3>2
    <3>4. d = c BY <3>3
    <3> QED BY <1>2, <1>3, <2>2, <2>3, <2>4, <3>1, <3>2, <3>4 DEF TreesSound
  <2>7. CASE EraseChild(p)
    <3>1. /\ ChunksSound(chunks')
          /\ \A q \in TreePath : Datum(chunks', q) = IF q \in Under[p] THEN 0 ELSE Datum(chunks, q)
      BY <1>1, <2>1, <2>7, ChunksErased
    <3>2. PICK d \in [TreePath -> Nat] : d = ChunkedValue' /\ \A q \in TreePath : d[q] = Datum(chunks', q)
      BY <1>5, <3>1
    <3>3. \A q \in TreePath : d[q] = IF q \in Under[p] THEN 0 ELSE c[q] BY <1>3, <3>1, <3>2
    <3>4. p \in TreePath /\ c \in [TreePath -> Nat] /\ d \in [TreePath -> Nat] BY <2>1
    <3>5. DataStep(c, d) BY <3>3, <3>4, EraseIsStep, ZenonT(60)
    <3> QED BY <1>2, <1>3, <2>2, <2>3, <2>4, <3>1, <3>2, <3>5 DEF TreesSound
  <2> QED BY <2>5, <2>6, <2>7 DEF ChunkedErase
<1>8. ASSUME PruneTree PROVE
        /\ TreesSound'
        /\ PlainValue' = PlainValue \/ DataStep(PlainValue, PlainValue')
        /\ ChunkedValue' = ChunkedValue \/ DataStep(ChunkedValue, ChunkedValue')
  <2>1. PlainSound' /\ nodeData' = nodeData BY <1>1, <1>8, PlainPruned
  <2>2. PlainValue' = PlainValue BY <1>2, <1>4, <2>1
  <2>3. chunks' = chunks BY <1>8 DEF PruneTree
  <2>4. ChunkedValue' = ChunkedValue BY <2>3 DEF ChunkedValue, HasNode
  <2> QED BY <1>1, <2>1, <2>2, <2>3, <2>4 DEF TreesSound
<1>9. ASSUME ClearTrees PROVE
        /\ TreesSound'
        /\ PlainValue' = PlainValue \/ DataStep(PlainValue, PlainValue')
        /\ ChunkedValue' = ChunkedValue \/ DataStep(ChunkedValue, ChunkedValue')
  <2>1. PlainSound' BY <1>9, RootPath DEF ClearTrees, PlainSound
  <2>2. ChunksSound(chunks') /\ \A q \in TreePath : Datum(chunks', q) = 0
    BY <1>9, FreshChunks DEF ClearTrees
  <2>3. PICK g \in [TreePath -> Nat] : g = PlainValue' /\ g = nodeData' BY <1>4, <2>1
  <2>4. PICK d \in [TreePath -> Nat] : d = ChunkedValue' /\ \A q \in TreePath : d[q] = Datum(chunks', q)
    BY <1>5, <2>2
  <2>5. \A q \in TreePath : q \in Under[<<>>] /\ g[q] = 0 /\ d[q] = 0
    BY <1>9, <2>2, <2>3, <2>4, UnderRoot DEF ClearTrees
  <2>6. DataStep(f, g) BY <2>5, RootPath, EraseIsStep, ZenonT(60)
  <2>7. DataStep(c, d) BY <2>5, RootPath, EraseIsStep, ZenonT(60)
  <2> QED BY <1>2, <1>3, <2>1, <2>2, <2>3, <2>4, <2>6, <2>7 DEF TreesSound
<1>10. CASE UNCHANGED containerVars
  <2>1. PlainSound' BY <1>1, <1>10 DEF PlainSound, containerVars
  <2>2. ChunksSound(chunks') BY <1>1, <1>10 DEF containerVars
  <2>3. PlainValue' = PlainValue /\ ChunkedValue' = ChunkedValue
    BY <1>10 DEF PlainValue, ChunkedValue, HasNode, containerVars
  <2> QED BY <2>1, <2>2, <2>3 DEF TreesSound
<1> QED BY <1>6, <1>7, <1>8, <1>9, <1>10 DEF ContainersNext

\* Whatever is written to the two containers, erased from them and pruned, each
\* of them reads as the abstract tree.
THEOREM TreesAreTrees == ContainersSpec => TreesImplementDataTree
<1>1. ContainersInit => TreesSound /\ PlainTree!Init /\ ChunkedTree!Init BY TreesStartSound
<1>2. TreesSound /\ [ContainersNext]_containerVars =>
        TreesSound' /\ [PlainTree!Next]_PlainValue /\ [ChunkedTree!Next]_ChunkedValue
  BY TreesStepSound
<1> QED BY <1>1, <1>2, PTL
      DEF ContainersSpec, TreesImplementDataTree, PlainTree!Spec, ChunkedTree!Spec
-----------------------------------------------------------------------------
(* Bits of numbers                                                         *)

LEMMA PowersAre ==
  /\ PowerLimit \in Nat /\ Exp2(0) = 1
  /\ \A n \in 0..PowerLimit : Exp2(n) \in Nat \ {0} /\ Exp2(n + 1) = 2 * Exp2(n)
BY PowersDouble, LimitIs

LEMMA BitsAreBoolean ==
  ASSUME NEW x \in Int, NEW i \in 0..PowerLimit
  PROVE  IsBitSet(x, i) \in BOOLEAN /\ (~IsBitSet(x, i) => (x \div Exp2(i)) % 2 = 0)
<1>1. PICK e \in Nat \ {0} : e = Exp2(i) BY PowersAre
<1>2. PICK q \in Int : q = x \div e BY <1>1, DivisionIs
<1>3. q % 2 \in {0, 1} BY <1>2
<1> QED BY <1>1, <1>2, <1>3 DEF IsBitSet

LEMMA BitOfQuotient ==
  ASSUME NEW x \in Int, NEW a \in Nat, NEW i \in Nat, a + i <= PowerLimit
  PROVE  IsBitSet(x \div Exp2(a), i) = IsBitSet(x, a + i)
<1>1. a \in 0..PowerLimit /\ i \in 0..PowerLimit BY PowersAre
<1>2. PICK e \in Nat \ {0} : e = Exp2(a) BY <1>1, PowersAre
<1>3. PICK f \in Nat \ {0} : f = Exp2(i) BY <1>1, PowersAre
<1>4. Exp2(a + i) = e * f BY <1>2, <1>3, PowersMultiply
<1>5. (x \div e) \div f = x \div (e * f) BY ShiftTwice
<1> QED BY <1>2, <1>3, <1>4, <1>5 DEF IsBitSet

LEMMA BitOfProduct ==
  ASSUME NEW x \in Int, NEW a \in Nat, NEW i \in Nat, a + i <= PowerLimit
  PROVE  IsBitSet(x * Exp2(a), a + i) = IsBitSet(x, i)
<1>1. a \in 0..PowerLimit BY PowersAre
<1>2. PICK e \in Nat \ {0} : e = Exp2(a) BY <1>1, PowersAre
<1>3. (e * x + 0) \div e = x BY <1>2, QuotientIs
<1>4. x * e \in Int /\ e * x + 0 = x * e BY <1>2
<1>5. IsBitSet((x * e) \div e, i) = IsBitSet(x * e, a + i) BY <1>2, <1>4, BitOfQuotient
<1> QED BY <1>2, <1>3, <1>4, <1>5

LEMMA BitOfRemainder ==
  ASSUME NEW x \in Int, NEW n \in 0..PowerLimit, NEW i \in Nat, i < n
  PROVE  IsBitSet(x % Exp2(n), i) = IsBitSet(x, i)
<1>0. n - i - 1 \in Nat /\ PowerLimit \in Nat BY PowersAre
<1>a. PICK j \in Nat : j = n - i - 1 BY <1>0
<1>1. i \in 0..PowerLimit /\ j \in 0..PowerLimit /\ i + j \in 0..PowerLimit /\ i + j <= PowerLimit
      /\ (i + j) + 1 = n
  BY <1>0, <1>a
<1>2. PICK e \in Nat \ {0} : e = Exp2(i) BY <1>1, PowersAre
<1>3. PICK f \in Nat \ {0} : f = Exp2(j) BY <1>1, PowersAre
<1>4. Exp2(n) = 2 * (e * f)
  <2>1. Exp2(i + j) = e * f BY <1>1, <1>2, <1>3, PowersMultiply
  <2>2. Exp2((i + j) + 1) = 2 * Exp2(i + j) BY <1>1, PowersAre
  <2> QED BY <1>1, <2>1, <2>2
<1>5. PICK c \in Nat \ {0} : c = 2 * (e * f) OBVIOUS
<1>6. PICK a \in Int, r \in 0..(c - 1) : x = c * a + r /\ x % c = r BY DivisionIs
<1>7. PICK b \in Int, s \in 0..(e - 1) : r = e * b + s /\ r \div e = b BY DivisionIs
<1>8. PICK g \in Int : g = f * a OBVIOUS
<1>9. x = e * (2 * g + b) + s
  <2>1. c * a = e * (2 * g) BY <1>5, <1>8
  <2>2. e * (2 * g + b) = e * (2 * g) + e * b OBVIOUS
  <2> QED BY <1>6, <1>7, <2>1, <2>2
<1>10. x \div e = 2 * g + b BY <1>9, QuotientIs
<1>11. (2 * g + b) % 2 = b % 2 OBVIOUS
<1> QED BY <1>2, <1>4, <1>5, <1>6, <1>7, <1>10, <1>11 DEF IsBitSet

\* Numbers are told by their bits.
SameBits(x, y, from, to) == \A i \in from..to : IsBitSet(x, i) = IsBitSet(y, i)

LEMMA NumbersAreBits ==
  ASSUME NEW n \in 0..PowerLimit, NEW x \in 0..Exp2(n) - 1, NEW y \in 0..Exp2(n) - 1,
         SameBits(x, y, 0, n - 1)
  PROVE  x = y
<1> DEFINE T(k) == \A a, b \in 0..Exp2(k) - 1 : SameBits(a, b, 0, k - 1) => a = b
           S == {k \in Nat : k <= PowerLimit => T(k)}
<1>1. 0 \in S
  <2>1. Exp2(0) = 1 BY PowersAre
  <2>2. T(0) BY <2>1
  <2> QED BY <2>2
<1>2. ASSUME NEW k \in Nat, k \in S PROVE k + 1 \in S
  <2> SUFFICES ASSUME k + 1 <= PowerLimit, NEW a \in 0..Exp2(k + 1) - 1,
                      NEW b \in 0..Exp2(k + 1) - 1, SameBits(a, b, 0, (k + 1) - 1)
               PROVE  a = b
    OBVIOUS
  <2>0. k \in 0..PowerLimit /\ PowerLimit \in Nat BY PowersAre
  <2>1. T(k) BY <1>2, <2>0
  <2>2. PICK e \in Nat \ {0} : e = Exp2(k) BY <2>0, PowersAre
  <2>3. Exp2(k + 1) = 2 * e BY <2>0, <2>2, PowersAre
  <2>4. a \in 0..2 * e - 1 /\ b \in 0..2 * e - 1 BY <2>3
  <2>5. a \div 2 \in 0..e - 1 /\ b \div 2 \in 0..e - 1 BY <2>4
  <2>6. Exp2(1) = 2
    <3>1. 0 \in 0..PowerLimit BY PowersAre
    <3>2. Exp2(0 + 1) = 2 * Exp2(0) BY <3>1, PowersAre
    <3> QED BY <3>2, PowersAre
  <2>7. SameBits(a \div 2, b \div 2, 0, k - 1)
    <3> SUFFICES ASSUME NEW i \in 0..k - 1 PROVE IsBitSet(a \div 2, i) = IsBitSet(b \div 2, i)
      BY DEF SameBits
    <3>1. 1 + i <= PowerLimit /\ i \in Nat /\ 1 + i \in 0..(k + 1) - 1 BY <2>0
    <3>2. IsBitSet(a \div 2, i) = IsBitSet(a, 1 + i) BY <2>4, <2>6, <3>1, BitOfQuotient
    <3>3. IsBitSet(b \div 2, i) = IsBitSet(b, 1 + i) BY <2>4, <2>6, <3>1, BitOfQuotient
    <3> QED BY <3>1, <3>2, <3>3 DEF SameBits
  <2>8. a \div 2 = b \div 2 BY <2>1, <2>2, <2>5, <2>7
  <2>9. a % 2 = b % 2
    <3>1. 0 \in 0..(k + 1) - 1 OBVIOUS
    <3>2. IsBitSet(a, 0) = IsBitSet(b, 0) BY <3>1 DEF SameBits
    <3>3. a \div 1 = a /\ b \div 1 = b BY <2>4
    <3>4. (a % 2 = 1) = (b % 2 = 1) BY <3>2, <3>3, PowersAre DEF IsBitSet
    <3> QED BY <2>4, <3>4
  <2> QED BY <2>4, <2>8, <2>9
<1> HIDE DEF S
<1>3. Nat \subseteq S BY <1>1, <1>2, NatInductionSet
<1>4. T(n) BY <1>3, PowersAre DEF S
<1> QED BY <1>4

\* What is left of them after a shift, by the bits above.
LEMMA QuotientsAreBits ==
  ASSUME NEW n \in 0..PowerLimit, NEW x \in 0..Exp2(n) - 1, NEW y \in 0..Exp2(n) - 1, NEW k \in 0..n
  PROVE  (x \div Exp2(k) = y \div Exp2(k)) <=> SameBits(x, y, k, n - 1)
<1>0. PowerLimit \in Nat /\ k \in 0..PowerLimit BY PowersAre
<1>a. PICK j \in 0..PowerLimit : j = n - k BY <1>0
<1>1. PICK e \in Nat \ {0} : e = Exp2(k) BY <1>0, PowersAre
<1>2. PICK f \in Nat \ {0} : f = Exp2(j) BY PowersAre
<1>3. PICK c \in Nat \ {0} : c = Exp2(n) BY PowersAre
<1>4. c = e * f
  <2>1. j \in Nat /\ k \in Nat /\ k + j <= PowerLimit /\ k + j = n BY <1>0, <1>a
  <2>2. Exp2(k + j) = Exp2(k) * Exp2(j) BY <2>1, PowersMultiply
  <2> QED BY <1>1, <1>2, <1>3, <2>1, <2>2
<1>5. x \in 0..c - 1 /\ y \in 0..c - 1 BY <1>3
<1>6. PICK a \in Int, r \in 0..(e - 1) : x = e * a + r /\ x \div e = a BY <1>5, DivisionIs
<1>7. PICK b \in Int, s \in 0..(e - 1) : y = e * b + s /\ y \div e = b BY <1>5, DivisionIs
<1>8. a \in 0..f - 1 /\ b \in 0..f - 1
  <2>1. a \div 1 = a /\ x \in Int /\ y \in Int BY <1>5
  <2>2. x < e * f /\ y < e * f BY <1>4, <1>5
  <2>3. a < f BY <1>6, <2>1, <2>2, QuotientsKeepOrder
  <2>4. b < f BY <1>7, <2>1, <2>2, QuotientsKeepOrder
  <2>5. 0 <= a BY <1>5, <1>6, <2>1, QuotientsKeepOrder
  <2>6. 0 <= b BY <1>5, <1>7, <2>1, QuotientsKeepOrder
  <2> QED BY <2>3, <2>4, <2>5, <2>6
<1>9. ASSUME NEW i \in 0..j - 1
      PROVE  IsBitSet(a, i) = IsBitSet(x, k + i) /\ IsBitSet(b, i) = IsBitSet(y, k + i)
  <2>1. k \in Nat /\ i \in Nat /\ k + i <= PowerLimit BY <1>0, <1>a
  <2>2. x \in Int /\ y \in Int BY <1>5
  <2>3. IsBitSet(x \div Exp2(k), i) = IsBitSet(x, k + i) BY <2>1, <2>2, BitOfQuotient
  <2>4. IsBitSet(y \div Exp2(k), i) = IsBitSet(y, k + i) BY <2>1, <2>2, BitOfQuotient
  <2> QED BY <1>1, <1>6, <1>7, <2>3, <2>4
<1>10. ASSUME a = b PROVE SameBits(x, y, k, n - 1)
  <2> SUFFICES ASSUME NEW i \in k..n - 1 PROVE IsBitSet(x, i) = IsBitSet(y, i) BY DEF SameBits
  <2>1. i - k \in 0..j - 1 /\ k + (i - k) = i BY <1>0, <1>a
  <2>2. PICK m \in 0..j - 1 : m = i - k BY <2>1
  <2>3. k + m = i BY <2>1, <2>2
  <2>4. IsBitSet(a, m) = IsBitSet(x, k + m) /\ IsBitSet(b, m) = IsBitSet(y, k + m) BY <1>9
  <2> QED BY <1>10, <2>3, <2>4
<1>11. ASSUME SameBits(x, y, k, n - 1) PROVE a = b
  <2>1. ASSUME NEW i \in 0..j - 1 PROVE IsBitSet(a, i) = IsBitSet(b, i)
    <3>1. k + i \in k..n - 1 BY <1>0, <1>a
    <3>2. IsBitSet(x, k + i) = IsBitSet(y, k + i) BY <1>11, <3>1 DEF SameBits
    <3> QED BY <1>9, <3>2
  <2>2. SameBits(a, b, 0, j - 1) BY <2>1 DEF SameBits
  <2>3. a \in 0..Exp2(j) - 1 /\ b \in 0..Exp2(j) - 1 BY <1>2, <1>8
  <2> QED BY <2>2, <2>3, NumbersAreBits
<1> QED BY <1>1, <1>6, <1>7, <1>10, <1>11

\* A number that is put together from bits.
LEMMA FromBitsIs ==
  ASSUME NEW n \in 0..PowerLimit, NEW B
  PROVE  /\ FromBits(n, B) \in 0..Exp2(n) - 1
         /\ \A i \in 0..n - 1 : IsBitSet(FromBits(n, B), i) <=> i \in B
<1>0. PowerLimit \in Nat /\ n \in Nat BY PowersAre
<1> DEFINE D == 0..n
           V == Int
           rank == [k \in D |-> k]
           Body(f, k) == IF k = 0 THEN 0 ELSE f[k - 1] + IF k - 1 \in B THEN Exp2(k - 1) ELSE 0
           G == [f \in [D -> V] |-> [k \in D |-> Body(f, k)]]
<1>1. ASSUME NEW k \in D, k # 0 PROVE k - 1 \in D /\ Exp2(k - 1) \in Int
  <2>1. k - 1 \in D /\ k - 1 \in 0..PowerLimit BY <1>0, <1>1
  <2> QED BY <2>1, PowersAre
<1>b. ASSUME NEW k \in D, k # 0 PROVE rank[k - 1] < rank[k] BY <1>0, <1>b
<1>2. ASSUME NEW f \in [D -> V], NEW k \in D PROVE Body(f, k) \in V
  <2>1. CASE k = 0 BY <2>1
  <2>2. CASE k # 0
    <3>1. k - 1 \in D /\ Exp2(k - 1) \in Int BY <2>2, <1>1
    <3>2. f[k - 1] \in Int
      <4> HIDE DEF rank
      <4> QED BY <3>1
    <3> QED BY <2>2, <3>1, <3>2
  <2> QED BY <2>1, <2>2
<1>3. \E f \in [D -> V] : f = G[f]
  <2>1. G \in [[D -> V] -> [D -> V]]
    <3> HIDE DEF Body
    <3> QED BY <1>2
  <2>2. [k \in D |-> 0] \in [D -> V] OBVIOUS
  <2>3. ASSUME NEW f \in [D -> V], NEW g \in [D -> V], NEW x \in D,
               \A y \in D : rank[y] < rank[x] => f[y] = g[y]
        PROVE  G[f][x] = G[g][x]
    <3>1. CASE x = 0 BY <3>1
    <3>2. CASE x # 0
      <4>1. f[x - 1] = g[x - 1] BY <2>3, <3>2, <1>1, <1>b
      <4>2. Body(f, x) = Body(g, x) BY <4>1
      <4> QED BY <4>2
    <3> QED BY <3>1, <3>2
  <2>4. rank \in [D -> 0..n] OBVIOUS
  <2> HIDE DEF D, V, rank, G
  <2>5. IsRecursion(G, D, V, rank, n) BY <2>1, <2>2, <2>3, <2>4 DEF IsRecursion
  <2> QED BY <1>0, <2>5, FixedPoint
<1> DEFINE sum == CHOOSE f : f = [k \in 0..n |-> Body(f, k)]
<1>4. sum = [k \in 0..n |-> Body(sum, k)]
  <2>1. \E f : f = [k \in 0..n |-> Body(f, k)] BY <1>3
  <2> QED BY <2>1, Zenon
<1>5. FromBits(n, B) = sum[n] BY Zenon DEF FromBits
<1>6. PICK g : g = sum OBVIOUS
<1> HIDE DEF sum
<1>a. g = [k \in 0..n |-> Body(g, k)] BY <1>4, <1>6
<1>7. g[0] = 0
  <2>1. 0 \in 0..n BY <1>0
  <2>2. g[0] = Body(g, 0)
    <3> HIDE DEF Body
    <3> QED BY <1>a, <2>1
  <2> QED BY <2>2
<1>8. \A k \in 0..n - 1 : g[k + 1] = g[k] + IF k \in B THEN Exp2(k) ELSE 0
  <2> SUFFICES ASSUME NEW k \in 0..n - 1 PROVE g[k + 1] = g[k] + IF k \in B THEN Exp2(k) ELSE 0
    OBVIOUS
  <2>1. k + 1 \in 0..n /\ k + 1 # 0 /\ (k + 1) - 1 = k BY <1>0
  <2>2. g[k + 1] = Body(g, k + 1) BY <1>a, <2>1
  <2> QED BY <2>1, <2>2
<1> HIDE DEF Body, G, rank, V, D
<1> DEFINE R(k) == /\ g[k] \in 0..Exp2(k) - 1
                   /\ \A i \in 0..k - 1 : IsBitSet(g[k], i) <=> i \in B
           S == {k \in Nat : k <= n => R(k)}
<1>9. 0 \in S
  <2>1. R(0) BY <1>7, PowersAre
  <2> QED BY <2>1
<1>10. ASSUME NEW k \in Nat, k \in S PROVE k + 1 \in S
  <2> SUFFICES ASSUME k + 1 <= n PROVE R(k + 1) OBVIOUS
  <2>1. k \in 0..n - 1 /\ k \in 0..PowerLimit /\ R(k) BY <1>0, <1>10
  <2>2. PICK e \in Nat \ {0} : e = Exp2(k) BY <2>1, PowersAre
  <2>3. Exp2(k + 1) = 2 * e BY <2>1, <2>2, PowersAre
  <2>4. PICK bit \in {0, 1} : bit = 1 <=> k \in B OBVIOUS
  <2>5. PICK x \in 0..e - 1 : x = g[k] BY <2>1, <2>2
  <2>6. PICK y \in Nat : y = e * bit + x BY <2>2
  <2>7. g[k + 1] = y BY <1>8, <2>1, <2>2, <2>4, <2>5, <2>6, SMTT(30)
  <2>8. y \in 0..2 * e - 1 BY <2>6, <2>4
  <2>9. y \div e = bit /\ y % e = x BY <2>6, QuotientIs
  <2>10. IsBitSet(y, k) <=> k \in B
    <3>1. bit % 2 = bit OBVIOUS
    <3>2. IsBitSet(y, k) <=> bit = 1 BY <2>2, <2>9, <3>1 DEF IsBitSet
    <3> QED BY <2>4, <3>2
  <2>11. ASSUME NEW i \in 0..k - 1 PROVE IsBitSet(y, i) <=> i \in B
    <3>1. IsBitSet(y % Exp2(k), i) = IsBitSet(y, i) BY <2>1, BitOfRemainder
    <3>2. IsBitSet(x, i) <=> i \in B BY <2>1, <2>5
    <3> QED BY <2>2, <2>9, <3>1, <3>2
  <2>12. \A i \in 0..(k + 1) - 1 : i = k \/ i \in 0..k - 1 OBVIOUS
  <2> QED BY <2>3, <2>7, <2>8, <2>10, <2>11, <2>12
<1> HIDE DEF S
<1>11. Nat \subseteq S BY <1>9, <1>10, NatInductionSet
<1>12. R(n) BY <1>0, <1>11 DEF S
<1> QED BY <1>5, <1>6, <1>12

LEMMA IntegersAreBits ==
  ASSUME NEW n \in 0..PowerLimit, NEW x \in Int, NEW y \in Int,
         x \div Exp2(n) = y \div Exp2(n), SameBits(x, y, 0, n - 1)
  PROVE  x = y
<1>1. PICK e \in Nat \ {0} : e = Exp2(n) BY PowersAre
<1>2. PICK a \in Int, r \in 0..(e - 1) : x = e * a + r /\ x \div e = a /\ x % e = r BY DivisionIs
<1>3. PICK b \in Int, s \in 0..(e - 1) : y = e * b + s /\ y \div e = b /\ y % e = s BY DivisionIs
<1>4. a = b BY <1>1, <1>2, <1>3
<1>5. SameBits(r, s, 0, n - 1)
  <2> SUFFICES ASSUME NEW i \in 0..n - 1 PROVE IsBitSet(r, i) = IsBitSet(s, i) BY DEF SameBits
  <2>1. i \in Nat /\ i < n BY PowersAre
  <2>2. IsBitSet(x % Exp2(n), i) = IsBitSet(x, i) BY <2>1, BitOfRemainder
  <2>3. IsBitSet(y % Exp2(n), i) = IsBitSet(y, i) BY <2>1, BitOfRemainder
  <2>4. IsBitSet(x, i) = IsBitSet(y, i) BY DEF SameBits
  <2> QED BY <1>1, <1>2, <1>3, <2>2, <2>3, <2>4
<1>6. r \in 0..Exp2(n) - 1 /\ s \in 0..Exp2(n) - 1 BY <1>1
<1>7. r = s BY <1>5, <1>6, NumbersAreBits
<1> QED BY <1>2, <1>3, <1>4, <1>7

LEMMA Exp2Grows ==
  ASSUME NEW b \in 0..PowerLimit, NEW a \in 0..b PROVE Exp2(a) <= Exp2(b)
<1>0. a \in Nat /\ a \in 0..PowerLimit BY PowersAre
<1>1. PICK c \in Nat : c = b - a BY <1>0
<1>2. a + c = b /\ a + c <= PowerLimit /\ c \in 0..PowerLimit BY <1>0, <1>1, PowersAre
<1>3. PICK e \in Nat \ {0} : e = Exp2(a) BY <1>0, PowersAre
<1>4. PICK f \in Nat \ {0} : f = Exp2(c) BY <1>2, PowersAre
<1>5. Exp2(b) = f * e
  <2>1. Exp2(a + c) = Exp2(a) * Exp2(c) BY <1>0, <1>2, PowersMultiply
  <2>2. e * f = f * e OBVIOUS
  <2> QED BY <1>2, <1>3, <1>4, <2>1, <2>2
<1>6. 1 * e <= f * e BY ProductOrder
<1> QED BY <1>3, <1>5, <1>6

LEMMA BitsEnd ==
  ASSUME NEW b \in 0..PowerLimit, NEW a \in 0..b, NEW x \in 0..Exp2(a) - 1
  PROVE  ~IsBitSet(x, b)
<1>0. a \in 0..PowerLimit BY PowersAre
<1>1. PICK e \in Nat \ {0} : e = Exp2(a) BY <1>0, PowersAre
<1>2. PICK f \in Nat \ {0} : f = Exp2(b) BY PowersAre
<1>3. x \in 0..f - 1 BY <1>1, <1>2, Exp2Grows
<1>4. (f * 0 + x) \div f = 0 BY <1>3, QuotientIs
<1>5. f * 0 + x = x BY <1>3
<1> QED BY <1>2, <1>4, <1>5 DEF IsBitSet

-----------------------------------------------------------------------------
(* Morton codes                                                            *)

\* Where a bit of a coordinate is in a code.
Place(bit, d) == bit * Dim + (d - 1)

LEMMA PlaceIs ==
  ASSUME NEW n \in Nat
  PROVE  /\ n * Dim \in Nat
         /\ \A bit \in 0..n - 1, d \in Axis :
              /\ Place(bit, d) \in 0..n * Dim - 1
              /\ Place(bit, d) \div Dim = bit /\ Place(bit, d) % Dim = d - 1
         /\ \A m \in 0..n : \A i \in m * Dim..n * Dim - 1 :
              \E bit \in m..n - 1 : \E d \in Axis : i = Place(bit, d)
<1>1. PICK k \in Nat \ {0} : k = Dim BY IndexAssumption
<1>2. n * k \in Nat OBVIOUS
<1>3. ASSUME NEW bit \in 0..n - 1, NEW d \in Axis
      PROVE  /\ Place(bit, d) \in 0..n * Dim - 1
             /\ Place(bit, d) \div Dim = bit /\ Place(bit, d) % Dim = d - 1
  <2>1. d - 1 \in 0..k - 1 BY <1>1 DEF Axis
  <2>2. PICK r \in 0..k - 1 : r = d - 1 BY <2>1
  <2>3. (k * bit + r) \div k = bit /\ (k * bit + r) % k = r BY QuotientIs
  <2>4. bit * k + k <= n * k /\ bit * k \in Int /\ 0 * k <= bit * k BY ProductOrder
  <2>5. k * bit + r = bit * k + r /\ bit * k + r \in 0..n * k - 1 BY <2>4
  <2>6. Place(bit, d) = k * bit + r BY <1>1, <2>2, <2>5 DEF Place
  <2> QED BY <1>1, <2>2, <2>3, <2>5, <2>6
<1>4. ASSUME NEW m \in 0..n, NEW i \in m * Dim..n * Dim - 1
      PROVE  \E bit \in m..n - 1 : \E d \in Axis : i = Place(bit, d)
  <2>0. i \in Int /\ m * k <= i /\ i < n * k BY <1>1
  <2>1. PICK a \in Int, r \in 0..(k - 1) : i = k * a + r /\ i \div k = a BY <2>0, DivisionIs, SMTT(30)
  <2>2. a < n
    <3> SUFFICES ASSUME a >= n PROVE FALSE OBVIOUS
    <3>1. n * k <= a * k BY ProductOrder
    <3> QED BY <2>0, <2>1, <3>1
  <2>3. m <= a
    <3> SUFFICES ASSUME a < m PROVE FALSE OBVIOUS
    <3>1. a * k + k <= m * k BY ProductOrder
    <3> QED BY <2>0, <2>1, <3>1
  <2>4. r + 1 \in Axis BY <1>1 DEF Axis
  <2>5. i = Place(a, r + 1) BY <1>1, <2>1 DEF Place
  <2> QED BY <2>2, <2>3, <2>4, <2>5
<1> QED BY <1>1, <1>2, <1>3, <1>4

\* Products of sizes with the number of dimensions.
LEMMA SizesAre ==
  ASSUME NEW m \in 0..Word, NEW n \in 0..m
  PROVE  /\ n * Dim \in 0..m * Dim /\ m * Dim \in 0..Word * Dim
         /\ Word * Dim \in 0..PowerLimit /\ Word * Dim <= PowerLimit
         /\ n * Dim + (m - n) * Dim = m * Dim /\ (m - n) * Dim \in Nat /\ n * Dim \in Nat
         /\ m \in 0..PowerLimit
<1>1. Word \in Nat BY IndexAssumption
<1>2. PICK k \in Nat \ {0} : k = Dim BY IndexAssumption
<1>3. PICK w \in Nat : w = Word BY <1>1
<1>4. 0 * k <= n * k /\ n * k <= m * k /\ m * k <= w * k /\ n * k \in Int /\ m * k \in Int /\ w * k \in Int
  BY <1>3, ProductOrder
<1>5. (m - n) * k = m * k - n * k /\ (m - n) * k \in Int OBVIOUS
<1>6. w * k <= PowerLimit /\ w <= w * k /\ PowerLimit \in Nat
  <2>1. MaxHeight * Dim \in Nat /\ PowerLimit = Word * Dim + MaxHeight * Dim /\ Word <= Word * Dim
        /\ PowerLimit \in Nat
    BY LimitIs
  <2> QED BY <1>2, <1>3, <1>4, <2>1
<1> QED BY <1>2, <1>3, <1>4, <1>5, <1>6

\* Coordinates of up to n bits, and their code.
LEMMA EncodeIs ==
  ASSUME NEW n \in 0..Word, NEW p \in [Axis -> 0..Exp2(n) - 1]
  PROVE  /\ Encode(p) \in 0..Exp2(n * Dim) - 1
         /\ \A bit \in 0..Word - 1, d \in Axis :
              IsBitSet(Encode(p), Place(bit, d)) = IsBitSet(p[d], bit)
<1>0. Word \in Nat /\ Word \in 0..Word BY IndexAssumption
<1>a. /\ n * Dim \in 0..Word * Dim /\ Word * Dim \in 0..PowerLimit /\ n \in 0..PowerLimit
      /\ \A m \in 0..Word : m \in 0..PowerLimit
      /\ Word * Dim \in Nat /\ n * Dim \in Nat
  BY <1>0, SizesAre
<1> DEFINE B == {i \in 0..Word * Dim - 1 : IsBitSet(p[(i % Dim) + 1], i \div Dim)}
<1>1. PICK E : E = Encode(p) OBVIOUS
<1>2. E = FromBits(Word * Dim, B) BY <1>1 DEF Encode
<1>3. E \in 0..Exp2(Word * Dim) - 1 /\ \A i \in 0..Word * Dim - 1 : IsBitSet(E, i) <=> i \in B
  BY <1>a, <1>2, FromBitsIs
<1>4. ASSUME NEW bit \in 0..Word - 1, NEW d \in Axis
      PROVE  IsBitSet(E, Place(bit, d)) = IsBitSet(p[d], bit)
  <2>1. PICK i : i = Place(bit, d) OBVIOUS
  <2>2. i \in 0..Word * Dim - 1 /\ i \div Dim = bit /\ i % Dim = d - 1
    <3>1. \A x \in 0..Word - 1, y \in Axis :
            /\ Place(x, y) \in 0..Word * Dim - 1
            /\ Place(x, y) \div Dim = x /\ Place(x, y) % Dim = y - 1
      BY <1>0, PlaceIs
    <3> QED BY <2>1, <3>1
  <2>3. (d - 1) + 1 = d BY DEF Axis
  <2>4. i \in B <=> IsBitSet(p[d], bit) BY <2>2, <2>3
  <2>5. IsBitSet(E, i) <=> i \in B BY <1>3, <2>2
  <2>6. IsBitSet(E, i) \in BOOLEAN /\ IsBitSet(p[d], bit) \in BOOLEAN BY DEF IsBitSet
  <2> QED BY <2>1, <2>4, <2>5, <2>6
<1>5. E \in 0..Exp2(n * Dim) - 1
  <2>1. ASSUME NEW i \in n * Dim..Word * Dim - 1 PROVE ~IsBitSet(E, i)
    <3>1. PICK bit \in n..Word - 1 : \E d \in Axis : i = Place(bit, d) BY <1>0, PlaceIs
    <3>2. PICK d \in Axis : i = Place(bit, d) BY <3>1
    <3>3. bit \in 0..Word - 1 /\ bit \in 0..PowerLimit /\ n \in 0..bit BY <1>0, <1>a
    <3>4. ~IsBitSet(p[d], bit) BY <3>3, BitsEnd
    <3> QED BY <1>4, <3>2, <3>3, <3>4
  <2>2. PICK w \in 0..PowerLimit : w = Word * Dim BY <1>a
  <2>3. PICK k \in 0..w : k = n * Dim BY <1>a, <2>2
  <2>4. Exp2(w) \in Nat \ {0} /\ Exp2(k) \in Nat \ {0}
    <3>1. k \in 0..PowerLimit BY PowersAre
    <3> QED BY <3>1, PowersAre
  <2>5. 0 \in 0..Exp2(w) - 1 /\ E \in 0..Exp2(w) - 1 BY <1>3, <2>2, <2>4
  <2>6. SameBits(E, 0, k, w - 1)
    <3> SUFFICES ASSUME NEW i \in k..w - 1 PROVE IsBitSet(E, i) = IsBitSet(0, i) BY DEF SameBits
    <3>1. ~IsBitSet(E, i) BY <2>1, <2>2, <2>3
    <3>2. i \in 0..PowerLimit /\ 0 \in 0..i BY PowersAre
    <3>3. 0 \in 0..Exp2(0) - 1 BY PowersAre
    <3>4. ~IsBitSet(0, i) BY <3>2, <3>3, BitsEnd
    <3>5. IsBitSet(E, i) \in BOOLEAN /\ IsBitSet(0, i) \in BOOLEAN BY DEF IsBitSet
    <3> QED BY <3>1, <3>4, <3>5
  <2>7. E \div Exp2(k) = 0 \div Exp2(k) BY <2>5, <2>6, QuotientsAreBits
  <2>8. PICK e \in Nat \ {0} : e = Exp2(k) BY <2>4
  <2>9. 0 \div e = 0
    <3>1. (e * 0 + 0) \div e = 0 BY QuotientIs
    <3> QED BY <3>1
  <2>10. PICK a \in Int, r \in 0..(e - 1) : E = e * a + r /\ E \div e = a BY <2>5, DivisionIs
  <2>11. a = 0 BY <2>7, <2>8, <2>9, <2>10
  <2>12. E = r BY <2>10, <2>11
  <2> QED BY <2>3, <2>8, <2>12
<1> QED BY <1>1, <1>4, <1>5

Code(n) == NodeToMorton(IndexToCellIndex(n))

LEMMA CodeIs ==
  ASSUME NEW n \in NodeIndex
  PROVE  /\ Code(n) \in 0..Exp2(MaxHeight * Dim) - 1
         /\ \A bit \in n.height..MaxHeight - 1, d \in Axis :
              IsBitSet(Code(n), Place(bit, d)) = IsBitSet(n.position[d], bit - n.height)
<1>1. n.height \in 0..MaxHeight /\ n.position \in [Axis -> Int] BY NodeIs
<1>2. PICK g \in 0..MaxHeight : g = n.height BY <1>1
<1>3. PICK m \in 0..MaxHeight : m = MaxHeight - g BY IndexAssumption
<1>4. PICK p : p = [d \in Axis |-> n.position[d] % Exp2(m)] OBVIOUS
<1>5. IndexToCellIndex(n) = Node(g, p) BY <1>2, <1>3, <1>4, BlockAndCellAre
<1>6. MaxHeight \in Nat /\ Word \in Nat /\ MaxHeight <= Word /\ MaxHeight \in 0..Word /\ m \in 0..Word
      /\ g \in 0..Word
  BY IndexAssumption
<1>7. /\ g * Dim \in Nat /\ m * Dim \in Nat /\ g * Dim + m * Dim = MaxHeight * Dim
      /\ MaxHeight * Dim \in 0..PowerLimit /\ m \in 0..PowerLimit
  <2>1. g * Dim + (MaxHeight - g) * Dim = MaxHeight * Dim /\ (MaxHeight - g) * Dim \in Nat
        /\ g * Dim \in Nat /\ MaxHeight * Dim \in 0..Word * Dim /\ Word * Dim \in 0..PowerLimit
    BY <1>6, SizesAre
  <2>a. PICK x \in Int, y \in Int : x = MaxHeight * Dim /\ y = Word * Dim
    BY <1>6, LimitIs
  <2>b. x \in 0..y /\ y \in 0..PowerLimit BY <2>1, <2>a
  <2>c. x \in 0..PowerLimit BY <2>b, PowersAre
  <2>2. MaxHeight * Dim \in 0..PowerLimit BY <2>a, <2>c
  <2>3. m \in 0..PowerLimit BY <1>6, SizesAre
  <2> QED BY <1>3, <2>1, <2>2, <2>3
<1>8. p \in [Axis -> 0..Exp2(m) - 1]
  <2>1. PICK e \in Nat \ {0} : e = Exp2(m) BY <1>7, PowersAre
  <2>2. \A d \in Axis : n.position[d] % e \in 0..e - 1 BY <1>1, <2>1
  <2> QED BY <1>4, <2>1, <2>2
<1>9. PICK E : E = Encode(p) OBVIOUS
<1>10. /\ E \in 0..Exp2(m * Dim) - 1
       /\ \A bit \in 0..Word - 1, d \in Axis : IsBitSet(E, Place(bit, d)) = IsBitSet(p[d], bit)
  BY <1>6, <1>8, <1>9, EncodeIs
<1>11. PICK a \in Nat : a = g * Dim BY <1>7
<1>12. PICK b \in Nat : b = m * Dim BY <1>7
<1>13. a + b = MaxHeight * Dim /\ a + b <= PowerLimit BY <1>7, <1>11, <1>12
<1>14. Code(n) = E * Exp2(a) BY <1>5, <1>9, <1>11 DEF Code, NodeToMorton, Node
<1>15. Code(n) \in 0..Exp2(MaxHeight * Dim) - 1
  <2>1. a \in 0..PowerLimit /\ b \in 0..PowerLimit BY <1>13, PowersAre
  <2>2. PICK x \in Nat \ {0} : x = Exp2(a) BY <2>1, PowersAre
  <2>3. PICK y \in Nat \ {0} : y = Exp2(b) BY <2>1, PowersAre
  <2>4. Exp2(a + b) = x * y BY <1>13, <2>2, <2>3, PowersMultiply
  <2>5. E \in 0..y - 1 BY <1>10, <1>12, <2>3
  <2>6. 0 * x <= E * x /\ E * x + x <= y * x /\ E * x \in Int BY <2>5, ProductOrder
  <2>7. x * y = y * x /\ 0 * x = 0 OBVIOUS
  <2>8. E * x \in 0..(x * y) - 1 BY <2>6, <2>7
  <2> QED BY <1>13, <1>14, <2>2, <2>4, <2>8
<1>16. ASSUME NEW bit \in g..MaxHeight - 1, NEW d \in Axis
       PROVE  IsBitSet(Code(n), Place(bit, d)) = IsBitSet(n.position[d], bit - g)
  <2>1. PICK c \in Nat : c = bit - g OBVIOUS
  <2>2. c \in 0..Word - 1 /\ c < m /\ c \in 0..m - 1 BY <1>3, <1>6, <2>1
  <2>3. PICK i : i = Place(c, d) OBVIOUS
  <2>4. i \in 0..m * Dim - 1 BY <2>2, <2>3, PlaceIs
  <2>5. i \in Nat /\ a + i <= PowerLimit BY <1>12, <1>13, <2>4, PowersAre
  <2>6. a + i = Place(bit, d)
    <3>1. PICK k \in Nat : k = Dim BY IndexAssumption
    <3>2. g * k + c * k = bit * k BY <2>1
    <3>3. d \in Int BY DEF Axis
    <3>4. g * k \in Int /\ c * k \in Int /\ bit * k \in Int OBVIOUS
    <3> QED BY <1>11, <2>3, <3>1, <3>2, <3>3, <3>4 DEF Place
  <2>7. E \in Int
    <3>1. PICK y \in Nat \ {0} : y = Exp2(b)
      <4>1. b \in 0..PowerLimit BY <1>13, PowersAre
      <4> QED BY <4>1, PowersAre
    <3> QED BY <1>10, <1>12, <3>1
  <2>8. IsBitSet(E * Exp2(a), a + i) = IsBitSet(E, i) BY <2>5, <2>7, BitOfProduct
  <2>9. IsBitSet(E, i) = IsBitSet(p[d], c) BY <1>10, <2>2, <2>3
  <2>10. IsBitSet(n.position[d] % Exp2(m), c) = IsBitSet(n.position[d], c)
    BY <1>1, <1>7, <2>2, BitOfRemainder
  <2> QED BY <1>4, <1>14, <2>1, <2>6, <2>8, <2>9, <2>10
<1> QED BY <1>2, <1>15, <1>16

\* Two nodes of a block have the same ancestor where their codes, shifted, are the same.
Pair(n, o) == n \in NodeIndex /\ o \in NodeIndex /\ IndexToBlockIndex(n) = IndexToBlockIndex(o)
SharedAt(n, o, h) == ParentIndex(n, h) = ParentIndex(o, h)
SameCodeAt(n, o, h) == Code(n) \div Exp2(h * Dim) = Code(o) \div Exp2(h * Dim)

LEMMA AncestorOnTheWay ==
  ASSUME NEW n \in NodeIndex, NEW h \in 0..MaxHeight, n.height <= h
  PROVE  \E p \in [Axis -> Int] :
           /\ ParentIndex(n, h) = Node(h, p)
           /\ p = [d \in Axis |-> n.position[d] \div Exp2(h - n.height)]
           /\ \A d \in Axis : p[d] \div Exp2(MaxHeight - h) = IndexToBlockIndex(n)[d]
<1>1. n.height \in 0..MaxHeight /\ n.position \in [Axis -> Int] BY NodeIs
<1>a. PICK top \in Nat : top = MaxHeight BY IndexAssumption
<1>2. PICK a \in Nat : a = h - n.height BY <1>1
<1>3. PICK k \in Nat : k = top - h BY <1>a
<1>4. a + k = top - n.height /\ a \in 0..MaxHeight + Dim /\ k \in 0..MaxHeight + Dim
      /\ a + k <= MaxHeight + Dim
  BY <1>1, <1>a, <1>2, <1>3, IndexAssumption
<1>5. PICK e \in Nat \ {0} : e = Exp2(a) BY <1>4, PowerIs
<1>6. PICK f \in Nat \ {0} : f = Exp2(k) BY <1>4, PowerIs
<1>7. Exp2(a + k) = e * f BY <1>4, <1>5, <1>6, PowersAdd
<1>8. PICK p : p = [d \in Axis |-> n.position[d] \div e] OBVIOUS
<1>9. p \in [Axis -> Int] BY <1>1, <1>8
<1>10. ParentIndex(n, h) = Node(h, p) BY <1>2, <1>5, <1>8 DEF ParentIndex, DivExp2Floor
<1>11. ASSUME NEW d \in Axis PROVE p[d] \div Exp2(k) = IndexToBlockIndex(n)[d]
  <2>1. (n.position[d] \div e) \div f = n.position[d] \div (e * f) BY <1>1, ShiftTwice
  <2>2. IndexToBlockIndex(n)[d] = n.position[d] \div Exp2(a + k) BY <1>a, <1>4, BlockAndCellAre
  <2> QED BY <1>6, <1>7, <1>8, <2>1, <2>2
<1> QED BY <1>a, <1>2, <1>3, <1>5, <1>8, <1>9, <1>10, <1>11

LEMMA SharedIs ==
  ASSUME NEW n, NEW o, Pair(n, o), NEW h \in 0..MaxHeight, n.height <= h, o.height <= h
  PROVE  SharedAt(n, o, h) <=> SameCodeAt(n, o, h)
<1>1. /\ n \in NodeIndex /\ n.height \in 0..MaxHeight /\ n.position \in [Axis -> Int]
      /\ o \in NodeIndex /\ o.height \in 0..MaxHeight /\ o.position \in [Axis -> Int]
      /\ n = Node(n.height, n.position) /\ o = Node(o.height, o.position)
  BY NodeIs DEF Pair
<1>2. PICK g \in 0..h : g = n.height BY <1>1
<1>3. PICK f \in 0..h : f = o.height BY <1>1
<1>a. PICK top \in Nat : top = MaxHeight BY IndexAssumption
<1>4. PICK p \in [Axis -> Int] :
        /\ ParentIndex(n, h) = Node(h, p)
        /\ p = [d \in Axis |-> n.position[d] \div Exp2(h - n.height)]
        /\ \A d \in Axis : p[d] \div Exp2(MaxHeight - h) = IndexToBlockIndex(n)[d]
  BY <1>1, AncestorOnTheWay
<1>5. PICK q \in [Axis -> Int] :
        /\ ParentIndex(o, h) = Node(h, q)
        /\ q = [d \in Axis |-> o.position[d] \div Exp2(h - o.height)]
        /\ \A d \in Axis : q[d] \div Exp2(MaxHeight - h) = IndexToBlockIndex(o)[d]
  BY <1>1, AncestorOnTheWay
<1>6. ParentIndex(n, h) = Node(h, p) /\ ParentIndex(o, h) = Node(h, q) BY <1>4, <1>5
<1>7. SharedAt(n, o, h) <=> p = q BY <1>6 DEF SharedAt, Node
<1>8. PICK k \in 0..top : k = top - h BY <1>a
<1>9. k \in 0..PowerLimit /\ \A d \in Axis : p[d] \div Exp2(k) = q[d] \div Exp2(k)
  <2>1. k \in 0..MaxHeight + Dim BY <1>a, IndexAssumption
  <2>2. k \in 0..PowerLimit BY <2>1, SmallPowers
  <2>3. IndexToBlockIndex(n) = IndexToBlockIndex(o) BY DEF Pair
  <2> QED BY <1>4, <1>5, <1>8, <1>a, <2>2, <2>3
\* The bits of the ancestors are in the codes.
<1>10. ASSUME NEW bit \in h..top - 1, NEW d \in Axis
       PROVE  /\ IsBitSet(Code(n), Place(bit, d)) = IsBitSet(p[d], bit - h)
              /\ IsBitSet(Code(o), Place(bit, d)) = IsBitSet(q[d], bit - h)
  <2>1. PICK c \in Nat : c = bit - h OBVIOUS
  <2>2. PICK a \in Nat : a = h - g OBVIOUS
  <2>3. PICK b \in Nat : b = h - f OBVIOUS
  <2>4. a + c = bit - g /\ b + c = bit - f BY <2>1, <2>2, <2>3
  <2>5. a + c <= PowerLimit /\ b + c <= PowerLimit
    <3>1. a + c \in 0..MaxHeight + Dim /\ b + c \in 0..MaxHeight + Dim
      BY <1>a, <2>4, IndexAssumption
    <3> QED BY <3>1, SmallPowers
  <2>6. IsBitSet(n.position[d] \div Exp2(a), c) = IsBitSet(n.position[d], a + c)
    BY <1>1, <2>5, BitOfQuotient
  <2>7. IsBitSet(o.position[d] \div Exp2(b), c) = IsBitSet(o.position[d], b + c)
    BY <1>1, <2>5, BitOfQuotient
  <2>8. IsBitSet(Code(n), Place(bit, d)) = IsBitSet(n.position[d], bit - g)
    <3>1. bit \in n.height..MaxHeight - 1 BY <1>2, <1>a
    <3> QED BY <1>1, <1>2, <3>1, CodeIs
  <2>9. IsBitSet(Code(o), Place(bit, d)) = IsBitSet(o.position[d], bit - f)
    <3>1. bit \in o.height..MaxHeight - 1 BY <1>3, <1>a
    <3> QED BY <1>1, <1>3, <3>1, CodeIs
  <2> QED BY <1>2, <1>3, <1>4, <1>5, <2>1, <2>2, <2>3, <2>4, <2>6, <2>7, <2>8, <2>9
<1>11. top \in 0..Word /\ h \in 0..top BY <1>a, IndexAssumption
<1>12. PICK N \in 0..PowerLimit : N = MaxHeight * Dim
  <2>1. MaxHeight * Dim \in Nat /\ MaxHeight * Dim <= Word * Dim /\ Word * Dim \in Nat
    BY LimitIs
  <2>2. Word * Dim <= PowerLimit /\ PowerLimit \in Nat BY <1>11, SizesAre, LimitIs
  <2>3. PICK x \in Nat, y \in Nat : x = MaxHeight * Dim /\ y = Word * Dim BY <2>1
  <2> QED BY <2>1, <2>2, <2>3
<1>13. PICK K \in 0..N : K = h * Dim BY <1>11, <1>12, <1>a, SizesAre
<1>14. SameCodeAt(n, o, h) <=> SameBits(Code(n), Code(o), K, N - 1)
  <2>1. Code(n) \in 0..Exp2(N) - 1 /\ Code(o) \in 0..Exp2(N) - 1 BY <1>1, <1>12, CodeIs
  <2> QED BY <1>13, <2>1, QuotientsAreBits DEF SameCodeAt
<1>15. ASSUME p = q PROVE SameBits(Code(n), Code(o), K, N - 1)
  <2> SUFFICES ASSUME NEW i \in K..N - 1 PROVE IsBitSet(Code(n), i) = IsBitSet(Code(o), i)
    BY DEF SameBits
  <2>1. \A m \in 0..top : \A j \in m * Dim..top * Dim - 1 :
           \E bit \in m..top - 1 : \E d \in Axis : j = Place(bit, d)
    BY PlaceIs
  <2>2. PICK bit \in h..top - 1 : \E d \in Axis : i = Place(bit, d)
    BY <1>11, <1>12, <1>13, <1>a, <2>1
  <2>3. PICK d \in Axis : i = Place(bit, d) BY <2>2
  <2> QED BY <1>10, <1>15, <2>3
<1>16. ASSUME SameBits(Code(n), Code(o), K, N - 1) PROVE p = q
  <2>1. ASSUME NEW d \in Axis PROVE p[d] = q[d]
    <3>1. ASSUME NEW i \in 0..k - 1 PROVE IsBitSet(p[d], i) = IsBitSet(q[d], i)
      <4>1. PICK bit \in h..top - 1 : bit = h + i BY <1>8
      <4>2. bit - h = i BY <4>1
      <4>3. Place(bit, d) \in K..N - 1
        <5>1. bit \in 0..top - 1 OBVIOUS
        <5>2. \A x \in 0..top - 1, y \in Axis : Place(x, y) \in 0..top * Dim - 1 BY PlaceIs
        <5>3. Place(bit, d) \in 0..N - 1 BY <1>12, <1>a, <5>1, <5>2
        <5>4. K <= Place(bit, d)
          <6>1. PICK w \in Nat \ {0} : w = Dim BY IndexAssumption
          <6>2. h * w <= bit * w /\ h * w \in Int /\ bit * w \in Int BY ProductOrder
          <6>3. d \in Int /\ d - 1 >= 0 BY DEF Axis
          <6> QED BY <1>13, <6>1, <6>2, <6>3 DEF Place
        <5> QED BY <5>3, <5>4
      <4>4. IsBitSet(Code(n), Place(bit, d)) = IsBitSet(Code(o), Place(bit, d))
        BY <1>16, <4>3 DEF SameBits
      <4> QED BY <1>10, <4>2, <4>4
    <3>2. SameBits(p[d], q[d], 0, k - 1) BY <3>1 DEF SameBits
    <3> QED BY <1>9, <3>2, IntegersAreBits
  <2> QED BY <2>1
<1> QED BY <1>7, <1>14, <1>15, <1>16

LEMMA ShiftedStaySame ==
  ASSUME NEW x \in Int, NEW y \in Int, NEW b \in 0..PowerLimit, NEW a \in 0..b,
         x \div Exp2(a) = y \div Exp2(a)
  PROVE  x \div Exp2(b) = y \div Exp2(b)
<1>0. a \in Nat /\ a \in 0..PowerLimit BY PowersAre
<1>1. PICK c \in Nat : c = b - a BY <1>0
<1>2. a + c = b /\ a + c <= PowerLimit /\ c \in 0..PowerLimit BY <1>0, <1>1, PowersAre
<1>3. PICK e \in Nat \ {0} : e = Exp2(a) BY <1>0, PowersAre
<1>4. PICK f \in Nat \ {0} : f = Exp2(c) BY <1>2, PowersAre
<1>5. Exp2(a + c) = Exp2(a) * Exp2(c) BY <1>0, <1>2, PowersMultiply
<1>6. (x \div e) \div f = x \div (e * f) BY ShiftTwice
<1>7. (y \div e) \div f = y \div (e * f) BY ShiftTwice
<1> QED BY <1>2, <1>3, <1>4, <1>5, <1>6, <1>7

LEMMA BitsToDifferIs ==
  ASSUME NEW N \in 0..PowerLimit, NEW x \in 0..Exp2(N) - 1, NEW y \in 0..Exp2(N) - 1
  PROVE  LET K == BitsToDiffer(x, y)
         IN  /\ K \in 0..N /\ x \div Exp2(K) = y \div Exp2(K)
             /\ \A k \in 0..K - 1 : x \div Exp2(k) # y \div Exp2(k)
<1>0. PICK e \in Nat \ {0} : e = Exp2(N) BY PowersAre
<1>1. x \in 0..e - 1 /\ y \in 0..e - 1 /\ x \in Int /\ y \in Int BY <1>0
<1>2. x \div e = 0 /\ y \div e = 0
  <2>1. (e * 0 + x) \div e = 0 BY <1>1, QuotientIs
  <2>2. (e * 0 + y) \div e = 0 BY <1>1, QuotientIs
  <2>3. e * 0 + x = x /\ e * 0 + y = y BY <1>1
  <2> QED BY <2>1, <2>2, <2>3
<1> DEFINE Q(k) == /\ x \div Exp2(k) = y \div Exp2(k)
                   /\ k > 0 => x \div Exp2(k - 1) # y \div Exp2(k - 1)
           S == {k \in 0..N : x \div Exp2(k) = y \div Exp2(k)}
<1>3. S # {} /\ S \in SUBSET Nat
  <2>1. N \in S BY <1>0, <1>2
  <2> QED BY <2>1
<1>4. PICK m \in Nat : m = Min(S) /\ m \in S /\ \A k \in S : m <= k BY <1>3, LeastNumber
<1>5. m \in 0..PowerLimit /\ Q(m)
  <2>1. m \in 0..N /\ x \div Exp2(m) = y \div Exp2(m) BY <1>4
  <2>2. ASSUME m > 0 PROVE x \div Exp2(m - 1) # y \div Exp2(m - 1)
    <3>1. m - 1 \in 0..N /\ ~(m <= m - 1) BY <2>1, <2>2
    <3>2. m - 1 \notin S BY <1>4, <3>1
    <3> QED BY <3>1, <3>2
  <2>3. m \in 0..PowerLimit BY <2>1, PowersAre
  <2> QED BY <2>1, <2>2, <2>3
<1>6. BitsToDiffer(x, y) = CHOOSE k \in 0..PowerLimit : Q(k)
  BY Zenon DEF BitsToDiffer, DivExp2Floor, PowerLimit
<1> HIDE DEF Q
<1>7. PICK K \in 0..PowerLimit : K = BitsToDiffer(x, y) /\ Q(K) BY <1>5, <1>6
<1> USE DEF Q
<1>8. ASSUME NEW k \in 0..K - 1 PROVE x \div Exp2(k) # y \div Exp2(k)
  <2> SUFFICES ASSUME x \div Exp2(k) = y \div Exp2(k) PROVE FALSE OBVIOUS
  <2>1. PICK j \in 0..PowerLimit : j = K - 1 BY PowersAre
  <2>2. k \in 0..j BY <2>1
  <2>3. x \div Exp2(j) = y \div Exp2(j) BY <1>1, <2>2, ShiftedStaySame
  <2>4. K > 0 OBVIOUS
  <2> QED BY <1>7, <2>1, <2>3, <2>4
<1>9. K \in 0..N
  <2> SUFFICES ASSUME K > N PROVE FALSE BY PowersAre
  <2>1. N \in 0..K - 1 BY PowersAre
  <2> QED BY <1>0, <1>2, <1>8, <2>1
<1> QED BY <1>7, <1>8, <1>9

LEMMA CommonIs ==
  ASSUME NEW n, NEW o, Pair(n, o)
  PROVE  LET common == CommonAncestorHeight(Code(n), n.height, Code(o), o.height)
         IN  /\ SharedAt(n, o, common)
             /\ \A h \in 0..common - 1 : n.height <= h /\ o.height <= h => ~SharedAt(n, o, h)
<1>1. n \in NodeIndex /\ o \in NodeIndex /\ n.height \in 0..MaxHeight /\ o.height \in 0..MaxHeight
  BY NodeIs DEF Pair
<1>a. PICK top \in Nat : top = MaxHeight BY IndexAssumption
<1>b. PICK w \in Nat \ {0} : w = Dim BY IndexAssumption
<1>2. PICK older \in 0..top : older = IF n.height < o.height THEN o.height ELSE n.height
  BY <1>1, <1>a
<1>3. n.height <= older /\ o.height <= older BY <1>1, <1>2
<1>4. PICK N \in 0..PowerLimit : N = MaxHeight * Dim
  <2>1. MaxHeight * Dim \in Nat /\ MaxHeight * Dim <= Word * Dim /\ Word * Dim \in Nat
    BY LimitIs
  <2>2. Word * Dim <= PowerLimit /\ PowerLimit \in Nat
    <3>1. top \in 0..Word /\ 0 \in 0..top BY <1>a, IndexAssumption
    <3> QED BY <3>1, SizesAre, LimitIs
  <2>3. PICK x \in Nat, y \in Nat : x = MaxHeight * Dim /\ y = Word * Dim BY <2>1
  <2> QED BY <2>1, <2>2, <2>3
<1>5. PICK x \in 0..Exp2(N) - 1 : x = Code(n) BY <1>1, <1>4, CodeIs
<1>6. PICK y \in 0..Exp2(N) - 1 : y = Code(o) BY <1>1, <1>4, CodeIs
<1>7. x \in Int /\ y \in Int
  <2>1. PICK e \in Nat \ {0} : e = Exp2(N) BY PowersAre
  <2> QED BY <2>1
<1>8. PICK K \in 0..N : K = BitsToDiffer(x, y) /\ x \div Exp2(K) = y \div Exp2(K)
                        /\ \A k \in 0..K - 1 : x \div Exp2(k) # y \div Exp2(k)
  BY BitsToDifferIs
<1>9. PICK D \in Int : /\ D = (K + w - 1) \div w
                       /\ K <= D * w /\ D * w - w <= K - 1
  <2>1. K + w - 1 \in Int OBVIOUS
  <2>2. PICK a \in Int, r \in 0..(w - 1) : K + w - 1 = w * a + r /\ (K + w - 1) \div w = a
    BY <2>1, DivisionIs
  <2>3. w * a = a * w OBVIOUS
  <2> QED BY <2>2, <2>3
<1>10. D \in 0..top
  <2>1. 0 <= D
    <3> SUFFICES ASSUME D < 0 PROVE FALSE OBVIOUS
    <3>1. D * w + w <= 0 * w BY ProductOrder
    <3> QED BY <1>9, <3>1
  <2>2. D <= top
    <3> SUFFICES ASSUME top < D PROVE FALSE OBVIOUS
    <3>1. top * w + w <= D * w BY ProductOrder
    <3>2. N = top * w BY <1>4, <1>a, <1>b
    <3> QED BY <1>9, <3>1, <3>2
  <2> QED BY <2>1, <2>2
<1>11. PICK common \in Int : common = IF x = y \/ D < older THEN older ELSE D
  OBVIOUS
<1>12. common = CommonAncestorHeight(Code(n), n.height, Code(o), o.height)
  <2>1. DivRoundUp(BitsToDiffer(Code(n), Code(o)), Dim) = D
    BY <1>5, <1>6, <1>8, <1>9, <1>b DEF DivRoundUp
  <2> QED BY <1>2, <1>5, <1>6, <1>11, <2>1 DEF CommonAncestorHeight
<1>13. common \in 0..MaxHeight /\ n.height <= common /\ o.height <= common
  BY <1>1, <1>2, <1>3, <1>10, <1>11, <1>a
<1>14. SharedAt(n, o, common)
  <2>1. PICK k \in Int : k = common * w OBVIOUS
  <2>2. k \in 0..N
    <3>1. 0 * w <= common * w /\ common * w <= top * w BY <1>13, <1>a, ProductOrder
    <3> QED BY <1>4, <1>a, <1>b, <2>1, <3>1
  <2>3. k \in 0..PowerLimit BY <2>2, PowersAre
  <2>4. x \div Exp2(k) = y \div Exp2(k)
    <3>1. CASE x = y BY <3>1
    <3>2. CASE x # y
      <4>1. D <= common BY <1>2, <1>10, <1>11, <3>2
      <4>2. D * w <= common * w BY <4>1, ProductOrder
      <4>3. K \in 0..k BY <1>9, <2>1, <2>2, <4>2
      <4> QED BY <1>7, <1>8, <2>3, <4>3, ShiftedStaySame
    <3> QED BY <3>1, <3>2
  <2>5. SameCodeAt(n, o, common) BY <1>5, <1>6, <1>b, <2>1, <2>4 DEF SameCodeAt
  <2> QED BY <1>13, <2>5, SharedIs
<1>15. ASSUME NEW h \in 0..common - 1, n.height <= h, o.height <= h PROVE ~SharedAt(n, o, h)
  <2>1. older <= h BY <1>1, <1>2, <1>15
  <2>2. x # y /\ common = D BY <1>2, <1>10, <1>11, <1>15, <2>1
  <2>3. h * w + w <= D * w BY <2>2, ProductOrder
  <2>4. PICK k \in Int : k = h * w OBVIOUS
  <2>5. 0 * w <= h * w BY ProductOrder
  <2>6. k \in 0..K - 1 BY <1>9, <2>3, <2>4, <2>5
  <2>7. x \div Exp2(k) # y \div Exp2(k) BY <1>8, <2>6
  <2>8. ~SameCodeAt(n, o, h) BY <1>5, <1>6, <1>b, <2>4, <2>7 DEF SameCodeAt
  <2>9. h \in 0..MaxHeight BY <1>13, <1>a
  <2> QED BY <1>15, <2>8, <2>9, SharedIs
<1> QED BY <1>12, <1>14, <1>15

\* The nodes of a level follow those of the levels above.
LEMMA NodesAbove ==
  /\ \A k \in 0..MaxHeight : NumTotalNodes(k) \in Nat /\ Exp2(k * Dim) \in Nat \ {0}
  /\ \A k \in 0..MaxHeight - 1 : NumTotalNodes(k + 1) = NumTotalNodes(k) + Exp2(k * Dim)
<1>a. PICK top \in Nat : top = MaxHeight /\ top \in 0..Word BY IndexAssumption
<1>b. PICK w \in Nat \ {0} : w = Dim BY IndexAssumption
<1>0. \A k \in 0..top : k * w \in 0..PowerLimit
  <2> SUFFICES ASSUME NEW k \in 0..top PROVE k * w \in 0..PowerLimit OBVIOUS
  <2>1. k \in 0..Word BY <1>a, IndexAssumption
  <2>2. k \in 0..k OBVIOUS
  <2>3. k * Dim \in 0..Word * Dim /\ Word * Dim \in 0..PowerLimit BY <2>1, <2>2, SizesAre
  <2>4. PICK x \in Int, y \in Int : x = k * Dim /\ y = Word * Dim BY <1>b, LimitIs
  <2>5. x \in 0..y /\ y \in 0..PowerLimit BY <2>3, <2>4
  <2>6. x \in 0..PowerLimit BY <2>5, PowersAre
  <2> QED BY <1>b, <2>4, <2>6
<1>1. w \in 0..PowerLimit
  <2>1. w \in 0..MaxHeight + Dim BY <1>b, IndexAssumption
  <2> QED BY <2>1, SmallPowers
<1>2. PICK c \in Nat \ {0} : Exp2(w) = c + 1
  <2>1. PICK v \in Nat : v = w - 1 BY <1>b
  <2>2. v + 1 = w /\ v \in 0..PowerLimit BY <1>1, <2>1, PowersAre
  <2>3. PICK e \in Nat \ {0} : e = Exp2(v) BY <2>2, PowersAre
  <2>4. Exp2(w) = 2 * e BY <2>2, <2>3, PowersAre
  <2>5. 2 * e - 1 \in Nat \ {0} /\ 2 * e = (2 * e - 1) + 1 OBVIOUS
  <2> QED BY <2>4, <2>5
<1>3. ASSUME NEW k \in 0..top, NEW s \in Nat, Exp2(k * w) = c * s + 1 PROVE NumTotalNodes(k) = s
  <2>1. w * k = k * w OBVIOUS
  <2>2. (c * s + 0) \div c = s BY QuotientIs
  <2>3. (c * s + 1) - 1 = c * s + 0 /\ (c + 1) - 1 = c OBVIOUS
  <2>4. NumTotalNodes(k) = (Exp2(k * w) - 1) \div (Exp2(w) - 1) BY <1>b, <2>1 DEF NumTotalNodes
  <2> QED BY <1>2, <1>3, <2>2, <2>3, <2>4
<1>4. ASSUME NEW k \in Nat, k + 1 <= top, NEW s \in Nat, Exp2(k * w) = c * s + 1
      PROVE  Exp2((k + 1) * w) = c * (s + (c * s + 1)) + 1
  <2>1. PICK a \in Nat : a = k * w OBVIOUS
  <2>2. a + w = (k + 1) * w BY <2>1
  <2>3. a + w <= PowerLimit
    <3>1. k + 1 \in 0..top BY <1>4
    <3>2. (k + 1) * w \in 0..PowerLimit BY <1>0, <3>1
    <3> QED BY <2>2, <3>2, PowersAre
  <2>4. Exp2(a + w) = Exp2(a) * Exp2(w) BY <2>3, PowersMultiply
  <2>5. (c * s + 1) * (c + 1) = c * (s + (c * s + 1)) + 1
    <3>1. PICK x \in Nat : x = c * s + 1 OBVIOUS
    <3>2. x * (c + 1) = c * x + x OBVIOUS
    <3>3. c * (s + x) = c * s + c * x OBVIOUS
    <3>4. c * x \in Int /\ c * s \in Int OBVIOUS
    <3> QED BY <3>1, <3>2, <3>3, <3>4
  <2> QED BY <1>2, <1>4, <2>1, <2>2, <2>4, <2>5
<1> DEFINE S == {k \in Nat : k <= top => \E s \in Nat : Exp2(k * w) = c * s + 1}
<1>5. 0 \in S
  <2>1. 0 * w = 0 /\ c * 0 + 1 = 1 OBVIOUS
  <2> QED BY <2>1, PowersAre
<1>6. ASSUME NEW k \in Nat, k \in S PROVE k + 1 \in S
  <2> SUFFICES ASSUME k + 1 <= top PROVE \E s \in Nat : Exp2((k + 1) * w) = c * s + 1 OBVIOUS
  <2>1. PICK s \in Nat : Exp2(k * w) = c * s + 1 BY <1>6
  <2>2. Exp2((k + 1) * w) = c * (s + (c * s + 1)) + 1 BY <1>4, <2>1
  <2>3. s + (c * s + 1) \in Nat OBVIOUS
  <2> QED BY <2>2, <2>3
<1> HIDE DEF S
<1>7. Nat \subseteq S BY <1>5, <1>6, NatInductionSet
<1>8. ASSUME NEW k \in 0..top PROVE \E s \in Nat : Exp2(k * w) = c * s + 1 BY <1>7 DEF S
<1>9. ASSUME NEW k \in 0..top PROVE NumTotalNodes(k) \in Nat /\ Exp2(k * w) \in Nat \ {0}
  <2>1. PICK s \in Nat : Exp2(k * w) = c * s + 1 BY <1>8
  <2>2. Exp2(k * w) \in Nat \ {0} BY <1>0, PowersAre
  <2> QED BY <1>3, <2>1, <2>2
<1>10. ASSUME NEW k \in 0..top - 1
       PROVE  NumTotalNodes(k + 1) = NumTotalNodes(k) + Exp2(k * w)
  <2>1. k \in 0..top /\ k + 1 \in 0..top /\ k + 1 <= top OBVIOUS
  <2>2. PICK s \in Nat : Exp2(k * w) = c * s + 1 BY <1>8, <2>1
  <2>3. NumTotalNodes(k) = s BY <1>3, <2>1, <2>2
  <2>4. PICK t \in Nat : t = s + (c * s + 1) OBVIOUS
  <2>a. k \in Nat OBVIOUS
  <2>b. Exp2((k + 1) * w) = c * (s + (c * s + 1)) + 1 BY <1>4, <2>1, <2>2, <2>a
  <2>5. Exp2((k + 1) * w) = c * t + 1 BY <2>4, <2>b
  <2>6. NumTotalNodes(k + 1) = t BY <1>3, <2>1, <2>5
  <2> QED BY <2>2, <2>3, <2>4, <2>6
<1> QED BY <1>9, <1>10, <1>a, <1>b

LEMMA LevelsAreApart ==
  ASSUME NEW j \in 0..MaxHeight, NEW k \in 0..MaxHeight, k < j
  PROVE  NumTotalNodes(k) + Exp2(k * Dim) <= NumTotalNodes(j)
<1>a. PICK top \in Nat : top = MaxHeight BY IndexAssumption
<1> DEFINE N(i) == NumTotalNodes(i)
           S == {i \in Nat : k + 1 + i <= top => N(k + 1) <= N(k + 1 + i)}
<1>1. \A i \in 0..top : N(i) \in Nat BY <1>a, NodesAbove
<1>2. \A i \in 0..top - 1 : N(i + 1) = N(i) + Exp2(i * Dim) /\ Exp2(i * Dim) \in Nat
  BY <1>a, NodesAbove
<1> HIDE DEF N
<1>3. 0 \in S
  <2>1. k + 1 + 0 = k + 1 /\ k + 1 \in 0..top BY <1>a
  <2> QED BY <1>1, <2>1
<1>4. ASSUME NEW i \in Nat, i \in S PROVE i + 1 \in S
  <2> SUFFICES ASSUME k + 1 + (i + 1) <= top PROVE N(k + 1) <= N(k + 1 + (i + 1)) OBVIOUS
  <2>1. PICK m \in Nat : m = k + 1 + i OBVIOUS
  <2>2. m \in 0..top - 1 /\ k + 1 + (i + 1) = m + 1 /\ m \in 0..top /\ m + 1 \in 0..top
        /\ k + 1 \in 0..top
    BY <2>1
  <2>3. N(k + 1) <= N(m) BY <1>4, <2>1, <2>2
  <2>4. N(m + 1) = N(m) + Exp2(m * Dim) /\ Exp2(m * Dim) \in Nat BY <1>2, <2>2
  <2>5. N(k + 1) \in Nat /\ N(m) \in Nat BY <1>1, <2>2
  <2> QED BY <2>2, <2>3, <2>4, <2>5
<1> HIDE DEF S
<1>5. Nat \subseteq S BY <1>3, <1>4, NatInductionSet
<1>6. PICK i \in Nat : k + 1 + i = j
  <2>1. j - k - 1 \in Nat /\ k + 1 + (j - k - 1) = j OBVIOUS
  <2> QED BY <2>1
<1>7. N(k + 1) <= N(j)
  <2>1. k + 1 + i <= top BY <1>6, <1>a
  <2>2. N(k + 1) <= N(k + 1 + i) BY <1>5, <2>1 DEF S
  <2> QED BY <1>6, <2>2
<1>8. k \in 0..top - 1 BY <1>a
<1>9. N(k + 1) = N(k) + Exp2(k * Dim) BY <1>2, <1>8
<1> QED BY <1>7, <1>9 DEF N

LEMMA DistanceIs ==
  ASSUME NEW n \in NodeIndex, NEW k \in 0..MaxHeight, k = MaxHeight - n.height
  PROVE  /\ TreeDistance(Code(n), MaxHeight, n.height)
              = NumTotalNodes(k) + Code(n) \div Exp2(n.height * Dim)
         /\ Code(n) \div Exp2(n.height * Dim) \in 0..Exp2(k * Dim) - 1
<1>1. n.height \in 0..MaxHeight BY NodeIs
<1>2. PICK h \in 0..MaxHeight : h = n.height BY <1>1
<1>3. PICK a \in Nat : a = h * Dim BY IndexAssumption
<1>4. PICK b \in Nat : b = k * Dim BY IndexAssumption
<1>5. a + b = MaxHeight * Dim
  <2>1. PICK w \in Nat : w = Dim BY IndexAssumption
  <2>2. PICK top \in Nat : top = MaxHeight BY IndexAssumption
  <2>3. h + k = top BY <1>2, <2>2
  <2>4. (h + k) * w = h * w + k * w OBVIOUS
  <2> QED BY <1>3, <1>4, <2>1, <2>2, <2>3, <2>4
<1>6. Exp2(a) \in Nat \ {0} /\ Exp2(b) \in Nat \ {0} /\ Exp2(a + b) = Exp2(a) * Exp2(b)
  <2>1. Exp2(a) \in Nat \ {0} BY <1>3, NodesAbove
  <2>2. Exp2(b) \in Nat \ {0} BY <1>4, NodesAbove
  <2>3. a + b <= PowerLimit
    <3>1. MaxHeight * Dim \in Nat /\ Word * Dim \in Nat
          /\ PowerLimit = Word * Dim + MaxHeight * Dim
      BY LimitIs
    <3> QED BY <1>5, <3>1
  <2>4. Exp2(a + b) = Exp2(a) * Exp2(b) BY <2>3, PowersMultiply
  <2> QED BY <2>1, <2>2, <2>4
<1>7. PICK e \in Nat \ {0} : e = Exp2(a) BY <1>6
<1>8. PICK f \in Nat \ {0} : f = Exp2(b) BY <1>6
<1>9. Code(n) \in 0..e * f - 1 BY <1>5, <1>6, <1>7, <1>8, CodeIs
<1>10. PICK x \in Int : x = Code(n) /\ 0 <= x /\ x < e * f BY <1>9
<1>11. PICK q \in Int : q = x \div e BY DivisionIs
<1>12. q \in 0..f - 1
  <2>1. q < f BY <1>10, <1>11, QuotientsKeepOrder
  <2>2. 0 <= q BY <1>10, <1>11, QuotientsKeepOrder
  <2> QED BY <2>1, <2>2
<1>13. q % f = q
  <2>1. (f * 0 + q) % f = q BY <1>12, QuotientIs
  <2>2. f * 0 + q = q OBVIOUS
  <2> QED BY <2>1, <2>2
<1>14. LevelDistance(Code(n), MaxHeight, n.height) = q
  BY <1>2, <1>3, <1>4, <1>7, <1>8, <1>10, <1>11, <1>13
     DEF LevelDistance, DivExp2Remainder, DivExp2Floor
<1>15. TreeDistance(Code(n), MaxHeight, n.height) = NumTotalNodes(k) + q
  BY <1>14 DEF TreeDistance
<1> QED BY <1>2, <1>3, <1>4, <1>7, <1>8, <1>10, <1>11, <1>12, <1>15

LEMMA HigherIsBefore ==
  ASSUME NEW n \in NodeIndex, NEW o \in NodeIndex, o.height < n.height
  PROVE  TreeDistance(Code(n), MaxHeight, n.height) # TreeDistance(Code(o), MaxHeight, o.height)
<1>1. n.height \in 0..MaxHeight /\ o.height \in 0..MaxHeight BY NodeIs
<1>2. PICK k \in 0..MaxHeight : k = MaxHeight - n.height BY <1>1, IndexAssumption
<1>3. PICK j \in 0..MaxHeight : j = MaxHeight - o.height BY <1>1, IndexAssumption
<1>4. k < j BY <1>1, <1>2, <1>3, IndexAssumption
<1>5. PICK q : q = Code(n) \div Exp2(n.height * Dim) OBVIOUS
<1>6. PICK r : r = Code(o) \div Exp2(o.height * Dim) OBVIOUS
<1>7. TreeDistance(Code(n), MaxHeight, n.height) = NumTotalNodes(k) + q /\ q \in 0..Exp2(k * Dim) - 1
  BY <1>2, <1>5, DistanceIs
<1>8. TreeDistance(Code(o), MaxHeight, o.height) = NumTotalNodes(j) + r /\ r \in 0..Exp2(j * Dim) - 1
  BY <1>3, <1>6, DistanceIs
<1>9. NumTotalNodes(k) + Exp2(k * Dim) <= NumTotalNodes(j) BY <1>4, LevelsAreApart
<1>10. PICK a \in Nat, b \in Nat : a = NumTotalNodes(k) /\ b = NumTotalNodes(j) BY NodesAbove
<1>11. PICK x \in Nat, y \in Nat : x = Exp2(k * Dim) /\ y = Exp2(j * Dim) BY NodesAbove
<1>12. q \in 0..x - 1 /\ r \in 0..y - 1 /\ a + x <= b BY <1>7, <1>8, <1>9, <1>10, <1>11
<1>13. a + q < b + r BY <1>12
<1> QED BY <1>7, <1>8, <1>10, <1>12, <1>13

LEMMA DistancesTell ==
  ASSUME NEW n, NEW o, Pair(n, o),
         TreeDistance(Code(n), MaxHeight, n.height) = TreeDistance(Code(o), MaxHeight, o.height)
  PROVE  n = o
<1>1. n \in NodeIndex /\ o \in NodeIndex BY DEF Pair
<1>2. /\ n.height \in 0..MaxHeight /\ n.position \in [Axis -> Int] /\ n = Node(n.height, n.position)
      /\ o.height \in 0..MaxHeight /\ o.position \in [Axis -> Int] /\ o = Node(o.height, o.position)
  BY <1>1, NodeIs
<1>3. n.height = o.height
  <2>1. ~(o.height < n.height) BY <1>1, HigherIsBefore
  <2>2. ~(n.height < o.height) BY <1>1, HigherIsBefore
  <2> QED BY <1>2, <2>1, <2>2
<1>4. PICK h \in 0..MaxHeight : h = n.height BY <1>2
<1>5. PICK k \in 0..MaxHeight : k = MaxHeight - h BY IndexAssumption
<1>6. PICK q : q = Code(n) \div Exp2(h * Dim) OBVIOUS
<1>7. PICK r : r = Code(o) \div Exp2(h * Dim) OBVIOUS
<1>8. /\ TreeDistance(Code(n), MaxHeight, h) = NumTotalNodes(k) + q
      /\ q \in 0..Exp2(k * Dim) - 1
  BY <1>1, <1>4, <1>5, <1>6, DistanceIs
<1>9. /\ TreeDistance(Code(o), MaxHeight, h) = NumTotalNodes(k) + r
      /\ r \in 0..Exp2(k * Dim) - 1
  BY <1>1, <1>3, <1>4, <1>5, <1>7, DistanceIs
<1>10. PICK a \in Nat, x \in Nat : a = NumTotalNodes(k) /\ x = Exp2(k * Dim) BY NodesAbove
<1>11. q = r
  <2>1. q \in 0..x - 1 /\ r \in 0..x - 1 BY <1>8, <1>9, <1>10
  <2>2. a + q = a + r BY <1>3, <1>4, <1>8, <1>9, <1>10
  <2> QED BY <2>1, <2>2
<1>12. SharedAt(n, o, h)
  <2>1. SameCodeAt(n, o, h) BY <1>6, <1>7, <1>11 DEF SameCodeAt
  <2> QED BY <1>3, <1>4, <2>1, SharedIs
<1>13. ParentIndex(n, h) = n /\ ParentIndex(o, h) = o BY <1>2, <1>3, <1>4, AncestorOfSelf
<1> QED BY <1>12, <1>13 DEF SharedAt

LEMMA DecodesBack ==
  ASSUME NEW n \in 0..Word, NEW p \in [Axis -> 0..Exp2(n) - 1]
  PROVE  Decode(Encode(p)) = p
<1>0. Word \in Nat /\ Word \in 0..Word BY IndexAssumption
<1>1. Word \in 0..PowerLimit /\ n \in 0..PowerLimit BY <1>0, SizesAre
<1>2. PICK E : E = Encode(p) OBVIOUS
<1>3. \A bit \in 0..Word - 1, d \in Axis : IsBitSet(E, Place(bit, d)) = IsBitSet(p[d], bit)
  BY <1>2, EncodeIs
<1>4. ASSUME NEW d \in Axis PROVE Decode(E)[d] = p[d]
  <2> DEFINE B == {b \in 0..Word - 1 : IsBitSet(E, b * Dim + d - 1)}
  <2>1. Decode(E)[d] = FromBits(Word, B) BY DEF Decode
  <2>2. PICK x : x = FromBits(Word, B) OBVIOUS
  <2>3. x \in 0..Exp2(Word) - 1 /\ \A i \in 0..Word - 1 : IsBitSet(x, i) <=> i \in B
    BY <1>1, <2>2, FromBitsIs
  <2>4. ASSUME NEW i \in 0..Word - 1 PROVE IsBitSet(x, i) = IsBitSet(p[d], i)
    <3>1. PICK w \in Nat : w = Dim BY IndexAssumption
    <3>2. i * w + d - 1 = i * w + (d - 1)
      <4>1. d \in Int BY DEF Axis
      <4> QED BY <4>1
    <3>3. i \in B <=> IsBitSet(E, Place(i, d)) BY <3>1, <3>2 DEF Place
    <3>4. IsBitSet(x, i) \in BOOLEAN /\ IsBitSet(p[d], i) \in BOOLEAN
          /\ IsBitSet(E, Place(i, d)) \in BOOLEAN
      BY DEF IsBitSet
    <3>5. IsBitSet(x, i) <=> i \in B BY <2>3
    <3>6. IsBitSet(E, Place(i, d)) = IsBitSet(p[d], i) BY <1>3
    <3> QED BY <3>3, <3>4, <3>5, <3>6
  <2>5. SameBits(x, p[d], 0, Word - 1) BY <2>4 DEF SameBits
  <2>6. p[d] \in 0..Exp2(Word) - 1
    <3>1. PICK e \in Nat, f \in Nat : e = Exp2(n) /\ f = Exp2(Word) BY <1>1, PowersAre
    <3>2. n \in 0..Word OBVIOUS
    <3>3. e <= f BY <1>1, <3>1, <3>2, Exp2Grows
    <3>4. p[d] \in 0..e - 1 BY <3>1
    <3> QED BY <3>1, <3>3, <3>4
  <2>7. x = p[d] BY <1>1, <2>3, <2>5, <2>6, NumbersAreBits
  <2> QED BY <2>1, <2>2, <2>7
<1>5. Decode(E) = [d \in Axis |-> Decode(E)[d]] BY DEF Decode
<1>6. p = [d \in Axis |-> p[d]] OBVIOUS
<1> QED BY <1>2, <1>4, <1>5, <1>6

-----------------------------------------------------------------------------
(* The way down to a node                                                  *)

\* A bit is what is lost where a number is halved.
LEMMA HalfAndBit ==
  ASSUME NEW x \in Int, NEW k \in Nat, k + 1 <= PowerLimit
  PROVE  x \div Exp2(k) = 2 * (x \div Exp2(k + 1)) + IF IsBitSet(x, k) THEN 1 ELSE 0
<1>1. k \in 0..PowerLimit BY PowersAre
<1>2. PICK e \in Nat \ {0} : e = Exp2(k) BY <1>1, PowersAre
<1>3. Exp2(k + 1) = 2 * e BY <1>1, <1>2, PowersAre
<1>4. PICK y \in Int : y = x \div e BY <1>2
<1>a. PICK t \in Nat \ {0} : t = 2 OBVIOUS
<1>5. PICK a \in Int, r \in 0..1 : y = 2 * a + r /\ y \div 2 = a /\ y % 2 = r
  <2>1. PICK a \in Int, r \in 0..t - 1 : y = t * a + r /\ y \div t = a /\ y % t = r BY DivisionIs
  <2> QED BY <1>a, <2>1
<1>6. (x \div e) \div 2 = x \div (e * 2)
  <2>1. (x \div e) \div t = x \div (e * t) BY ShiftTwice
  <2> QED BY <1>a, <2>1
<1>7. x \div Exp2(k + 1) = a
  <2>1. e * 2 = 2 * e OBVIOUS
  <2> QED BY <1>3, <1>4, <1>5, <1>6, <2>1
<1>8. IsBitSet(x, k) <=> r = 1 BY <1>2, <1>4, <1>5 DEF IsBitSet
<1>9. r = IF IsBitSet(x, k) THEN 1 ELSE 0 BY <1>5, <1>8
<1> QED BY <1>2, <1>4, <1>5, <1>7, <1>9

\* The bits of a child are those of the code at the height below its parent.
LEMMA ChildBitsAre ==
  ASSUME NEW n \in NodeIndex, NEW h \in n.height + 1..MaxHeight, NEW d \in Axis
  PROVE  IsBitSet(RelativeChild(Code(n), h), d - 1) = IsBitSet(n.position[d], h - 1 - n.height)
<1>1. n.height \in 0..MaxHeight /\ n.position \in [Axis -> Int] BY NodeIs
<1>2. MaxHeight \in Nat /\ Word \in Nat /\ MaxHeight <= Word BY IndexAssumption
<1>3. PICK b \in Nat : b = h - 1 BY <1>1, <1>2
<1>4. b \in n.height..MaxHeight - 1 /\ b \in 0..Word /\ b + 1 \in 0..Word BY <1>1, <1>2, <1>3
<1>5. PICK w \in Nat \ {0} : w = Dim BY IndexAssumption
<1>6. d - 1 \in Nat /\ d - 1 < w BY <1>5 DEF Axis
<1>7. PICK i \in Nat : i = d - 1 BY <1>6
<1>8. PICK a \in Nat : a = b * w OBVIOUS
<1>9. w \in 0..PowerLimit
  BY <1>2, <1>5, LimitIs
<1>10. a + i <= PowerLimit
  <2>1. (b + 1) * Dim \in 0..Word * Dim /\ Word * Dim <= PowerLimit
    <3>1. PICK m \in 0..Word : m = b + 1 BY <1>4
    <3>2. b \in 0..m BY <3>1
    <3>3. m * Dim \in 0..Word * Dim /\ Word * Dim <= PowerLimit BY <3>2, SizesAre
    <3> QED BY <3>1, <3>3
  <2>2. (b + 1) * w = b * w + w OBVIOUS
  <2>3. a + w <= PowerLimit
    <3>1. PICK x \in Int, y \in Int : x = (b + 1) * w /\ y = Word * Dim BY <1>2, <1>5
    <3>2. x \in 0..y /\ y <= PowerLimit BY <1>5, <2>1, <3>1
    <3>3. x = a + w BY <1>8, <2>2, <3>1
    <3>4. PowerLimit \in Nat BY PowersAre
    <3> QED BY <3>2, <3>3, <3>4
  <2>4. PowerLimit \in Nat BY PowersAre
  <2> QED BY <1>6, <1>7, <2>3, <2>4
<1>11. PICK c : c = Code(n) OBVIOUS
<1>12. c \in Int
  <2>1. c \in 0..Exp2(MaxHeight * Dim) - 1 BY <1>11, CodeIs
  <2>2. Exp2(MaxHeight * Dim) \in Int BY LimitIs, PowersAre
  <2> QED BY <2>1, <2>2
<1>13. RelativeChild(c, h) = (c \div Exp2(a)) % Exp2(w)
  BY <1>3, <1>5, <1>8 DEF RelativeChild, DivExp2Floor, DivExp2Remainder
<1>14. PICK q \in Int : q = c \div Exp2(a)
  <2>1. a \in 0..PowerLimit BY <1>10, PowersAre
  <2>2. PICK e \in Nat \ {0} : e = Exp2(a) BY <2>1, PowersAre
  <2> QED BY <1>12, <2>2
<1>15. IsBitSet(q % Exp2(w), i) = IsBitSet(q, i) BY <1>6, <1>7, <1>9, BitOfRemainder
<1>16. IsBitSet(q, i) = IsBitSet(c, a + i) BY <1>10, <1>12, <1>14, BitOfQuotient
<1>17. a + i = Place(b, d) BY <1>5, <1>7, <1>8 DEF Place
<1>18. IsBitSet(c, Place(b, d)) = IsBitSet(n.position[d], b - n.height) BY <1>4, <1>11, CodeIs
<1> QED BY <1>3, <1>7, <1>11, <1>13, <1>14, <1>15, <1>16, <1>17, <1>18

\* A step of the descent comes from the ancestor at a height to the one below.
LEMMA StepsDown ==
  ASSUME NEW n \in NodeIndex, NEW h \in n.height + 1..MaxHeight
  PROVE  ChildIndex(ParentIndex(n, h), RelativeChild(Code(n), h)) = ParentIndex(n, h - 1)
<1>1. n.height \in 0..MaxHeight /\ n.position \in [Axis -> Int] BY NodeIs
<1>2. PICK k \in Nat : k = h - 1 - n.height BY <1>1
<1>3. k + 1 = h - n.height BY <1>1, <1>2
<1>4. k + 1 <= PowerLimit
  <2>1. MaxHeight \in Nat /\ Dim \in Nat BY IndexAssumption
  <2>2. k + 1 <= MaxHeight BY <1>1, <1>3, <2>1
  <2> QED BY <2>1, <2>2, LimitIs
<1>5. PICK c : c = RelativeChild(Code(n), h) OBVIOUS
<1>6. ASSUME NEW d \in Axis
      PROVE  2 * (n.position[d] \div Exp2(k + 1)) + (IF IsBitSet(c, d - 1) THEN 1 ELSE 0)
               = n.position[d] \div Exp2(k)
  <2>1. IsBitSet(c, d - 1) = IsBitSet(n.position[d], k) BY <1>2, <1>5, ChildBitsAre
  <2>2. n.position[d] \in Int BY <1>1
  <2> QED BY <1>4, <2>1, <2>2, HalfAndBit
<1>7. ParentIndex(n, h) = Node(h, [d \in Axis |-> n.position[d] \div Exp2(k + 1)])
  BY <1>3 DEF ParentIndex, DivExp2Floor
<1>8. ParentIndex(n, h - 1) = Node(h - 1, [d \in Axis |-> n.position[d] \div Exp2(k)])
  BY <1>2 DEF ParentIndex, DivExp2Floor
<1>9. ChildIndex(ParentIndex(n, h), c) =
        Node(h - 1, [d \in Axis |-> 2 * (n.position[d] \div Exp2(k + 1))
                                      + IF IsBitSet(c, d - 1) THEN 1 ELSE 0])
  BY <1>7 DEF ChildIndex, Node
<1> QED BY <1>5, <1>6, <1>8, <1>9

\* Block and place in the block make the node.
LEMMA BlockAndCellBack ==
  ASSUME NEW n \in NodeIndex
  PROVE  CellAndBlockIndexToIndex(IndexToBlockIndex(n), IndexToCellIndex(n)) = n
<1>1. /\ n.height \in 0..MaxHeight /\ n.position \in [Axis -> Int]
      /\ n = Node(n.height, n.position)
  BY NodeIs
<1>2. PICK e \in Nat \ {0} : e = Exp2(MaxHeight - n.height) BY BlockAndCellAre
<1>3. PICK b : b = IndexToBlockIndex(n) OBVIOUS
<1>4. b = [d \in Axis |-> n.position[d] \div e] BY <1>2, <1>3, BlockAndCellAre
<1>5. PICK p : p = [d \in Axis |-> n.position[d] % e] OBVIOUS
<1>6. IndexToCellIndex(n) = Node(n.height, p) BY <1>2, <1>5, BlockAndCellAre
<1>7. CellAndBlockIndexToIndex(b, Node(n.height, p)) = Node(n.height, [d \in Axis |-> p[d] + e * b[d]])
  BY <1>2 DEF CellAndBlockIndexToIndex, Node
<1>8. ASSUME NEW d \in Axis PROVE p[d] + e * b[d] = n.position[d]
  <2>1. PICK x \in Int : x = n.position[d] BY <1>1
  <2>2. PICK a \in Int, r \in 0..e - 1 : x = e * a + r /\ x \div e = a /\ x % e = r BY DivisionIs
  <2>3. p[d] = r /\ b[d] = a BY <1>4, <1>5, <2>1, <2>2
  <2>4. e * a \in Int OBVIOUS
  <2> QED BY <2>1, <2>2, <2>3, <2>4
<1>9. [d \in Axis |-> p[d] + e * b[d]] = n.position BY <1>1, <1>8
<1> QED BY <1>1, <1>3, <1>6, <1>7, <1>9

\* Codes of places can be decoded.
LEMMA CellDecodesBack ==
  ASSUME NEW n \in NodeIndex
  PROVE  Decode(Encode(IndexToCellIndex(n).position)) = IndexToCellIndex(n).position
<1>1. n.height \in 0..MaxHeight /\ n.position \in [Axis -> Int] BY NodeIs
<1>2. MaxHeight \in Nat /\ Word \in Nat /\ MaxHeight <= Word BY IndexAssumption
<1>3. PICK m \in 0..Word : m = MaxHeight - n.height BY <1>1, <1>2
<1>4. PICK e \in Nat \ {0} : e = Exp2(m) BY <1>3, BlockAndCellAre
<1>5. PICK p : p = [d \in Axis |-> n.position[d] % e] OBVIOUS
<1>6. \A d \in Axis : n.position[d] % e \in 0..e - 1 BY <1>1
<1>7. p \in [Axis -> 0..Exp2(m) - 1] BY <1>4, <1>5, <1>6
<1>8. IndexToCellIndex(n).position = p BY <1>3, <1>4, <1>5, BlockAndCellAre DEF Node
<1> QED BY <1>7, <1>8, DecodesBack

\* The nodes and how far the descent is: it is at an ancestor of its target.
DescentInv ==
  /\ Pair(target, other)
  /\ reached.height \in target.height..MaxHeight
  /\ reached = ParentIndex(target, reached.height)

LEMMA TopIsBlock ==
  ASSUME NEW n \in NodeIndex
  PROVE  ParentIndex(n, MaxHeight) = Node(MaxHeight, IndexToBlockIndex(n))
BY DEF IndexToBlockIndex, ParentIndex, Node

LEMMA DescentStarts == IndexInit => DescentInv
<1> SUFFICES ASSUME IndexInit PROVE DescentInv OBVIOUS
<1>1. /\ target \in NodeIndex /\ other \in NodeIndex
      /\ IndexToBlockIndex(other) = IndexToBlockIndex(target)
      /\ reached = Node(MaxHeight, IndexToBlockIndex(target))
  BY DEF IndexInit
<1>2. Pair(target, other) BY <1>1 DEF Pair
<1>3. reached.height = MaxHeight BY <1>1 DEF Node
<1>4. reached = ParentIndex(target, MaxHeight) BY <1>1, TopIsBlock
<1>5. target.height \in 0..MaxHeight BY <1>1, NodeIs
<1>6. MaxHeight \in target.height..MaxHeight BY <1>5, IndexAssumption
<1> QED BY <1>2, <1>3, <1>4, <1>6 DEF DescentInv

LEMMA DescentGoesOn == DescentInv /\ [Descend]_indexVars => DescentInv'
<1> SUFFICES ASSUME DescentInv, [Descend]_indexVars PROVE DescentInv' OBVIOUS
<1>1. CASE Descend
  <2>1. /\ reached.height > target.height /\ target' = target /\ other' = other
        /\ reached' = ChildIndex(reached, RelativeChild(Code(target), reached.height))
    BY <1>1 DEF Descend, Code
  <2>2. /\ Pair(target, other) /\ target \in NodeIndex
        /\ reached.height \in target.height..MaxHeight
        /\ reached = ParentIndex(target, reached.height)
    BY DEF DescentInv, Pair
  <2>3. target.height \in 0..MaxHeight BY <2>2, NodeIs
  <2>4. PICK h : h = reached.height OBVIOUS
  <2>5. h \in target.height + 1..MaxHeight BY <2>1, <2>2, <2>3, <2>4
  <2>6. reached' = ParentIndex(target, h - 1)
    <3>1. ChildIndex(ParentIndex(target, h), RelativeChild(Code(target), h))
            = ParentIndex(target, h - 1)
      BY <2>2, <2>5, StepsDown
    <3> QED BY <2>1, <2>2, <2>4, <3>1
  <2>7. reached'.height = h - 1 BY <2>6 DEF ParentIndex, Node
  <2>8. h - 1 \in target.height..MaxHeight BY <2>3, <2>5, IndexAssumption
  <2>9. Pair(target, other)' BY <2>1, <2>2 DEF Pair
  <2> QED BY <2>1, <2>6, <2>7, <2>8, <2>9 DEF DescentInv
<1>2. CASE UNCHANGED indexVars
  BY <1>2 DEF DescentInv, indexVars, Pair
<1> QED BY <1>1, <1>2

LEMMA DescentInvTells == DescentInv => DescentsAreRight
<1> SUFFICES ASSUME DescentInv PROVE DescentsAreRight OBVIOUS
<1>1. /\ Pair(target, other) /\ target \in NodeIndex
      /\ reached = ParentIndex(target, reached.height)
  BY DEF DescentInv, Pair
<1>2. PICK common :
        common = CommonAncestorHeight(Code(target), target.height, Code(other), other.height)
  OBVIOUS
<1>3. /\ SharedAt(target, other, common)
      /\ \A h \in 0..common - 1 : target.height <= h /\ other.height <= h
                                     => ~SharedAt(target, other, h)
  BY <1>1, <1>2, CommonIs
<1>4. TreeDistance(Code(target), MaxHeight, target.height)
        = TreeDistance(Code(other), MaxHeight, other.height) => target = other
  BY <1>1, DistancesTell
<1>5. CellAndBlockIndexToIndex(IndexToBlockIndex(target), IndexToCellIndex(target)) = target
  BY <1>1, BlockAndCellBack
<1>6. Decode(Encode(IndexToCellIndex(target).position)) = IndexToCellIndex(target).position
  BY <1>1, CellDecodesBack
<1> QED BY <1>1, <1>2, <1>3, <1>4, <1>5, <1>6 DEF DescentsAreRight, SharedAt, Code

(***************************************************************************)
(* However many dimensions, and whatever the height of a block: the code   *)
(* of a node in its block leads, child by child, to that node and past all *)
(* its ancestors; block and place make the node; where the codes of two    *)
(* nodes of a block differ tells their lowest common ancestor; no two have *)
(* the same distance in a chunk; and codes decode to the places they were  *)
(* made of (ndtree_index_inl.h, morton_encoding.h).                        *)
(***************************************************************************)
THEOREM DescentsCorrect == IndexSpec => []DescentsAreRight
<1>1. IndexInit => DescentInv BY DescentStarts
<1>2. DescentInv /\ [Descend]_indexVars => DescentInv' BY DescentGoesOn
<1>3. DescentInv => DescentsAreRight BY DescentInvTells
<1> QED BY <1>1, <1>2, <1>3, PTL DEF IndexSpec

=============================================================================
