----------------------------- MODULE TreeProofs -----------------------------
(***************************************************************************)
(* Proofs about the trees of the occupancy map, for every height of them:  *)
(* the queries of module MapQueries, then the messages and the streams of  *)
(* module MapMessages.  Both rest on the same lemmas about indices, ways   *)
(* down to a cell and what lies over the cells.                            *)
(***************************************************************************)
EXTENDS MapQueries, MapMessages, NumberLemmas, FiniteSetTheorems, SequenceTheorems

H == TreeHeight

-----------------------------------------------------------------------------
(* Powers of two *)

LEMMA Powers ==
  /\ H \in Nat \ {0} /\ Exp2(0) = 1 /\ Exp2(1) = 2
  /\ \A k \in 0..(H + 1) : Exp2(k) \in Nat \ {0}
  /\ \A k \in 0..H : Exp2(k + 1) = 2 * Exp2(k)
<1>1. H \in Nat \ {0} BY TreeAssumption DEF H
<1>2. \A k \in 0..H : Exp2(k) \in Nat \ {0} /\ Exp2(k + 1) = 2 * Exp2(k) BY TreePowers, <1>1 DEF H
<1>3. Exp2(0 + 1) = 2 * Exp2(0) /\ 0 + 1 = 1 BY <1>1, <1>2
<1>4. Exp2(H + 1) \in Nat \ {0}
  <2>1. H \in 0..H BY <1>1
  <2>2. PICK e \in Nat \ {0} : Exp2(H) = e BY <1>2, <2>1
  <2>3. Exp2(H + 1) = 2 * e BY <1>2, <2>1, <2>2
  <2>4. 2 * e \in Nat \ {0} OBVIOUS
  <2> QED BY <2>3, <2>4
<1>5. ASSUME NEW k \in 0..(H + 1) PROVE Exp2(k) \in Nat \ {0}
  <2>1. k \in 0..H \/ k = H + 1 BY <1>1
  <2> QED BY <2>1, <1>2, <1>4
<1> QED BY TreePowers, <1>1, <1>2, <1>3, <1>5

\* Larger exponents have larger powers.
LEMMA PowersGrow == \A j, k \in 0..(H + 1) : j <= k => Exp2(j) <= Exp2(k)
<1>0. H \in Nat BY Powers
<1> DEFINE T == {d \in Nat : \A j \in 0..(H + 1) : j + d <= H + 1 => Exp2(j) <= Exp2(j + d)}
<1>1. 0 \in T
  <2>1. ASSUME NEW j \in 0..(H + 1) PROVE Exp2(j) <= Exp2(j + 0)
    <3>1. j + 0 = j OBVIOUS
    <3>2. Exp2(j) \in Nat BY Powers
    <3> QED BY <3>1, <3>2
  <2> QED BY <2>1
<1>2. ASSUME NEW d \in Nat, d \in T PROVE d + 1 \in T
  <2>1. ASSUME NEW j \in 0..(H + 1), j + (d + 1) <= H + 1 PROVE Exp2(j) <= Exp2(j + (d + 1))
    <3>1. j + d <= H + 1 /\ j + d \in 0..H /\ j + d \in 0..(H + 1) /\ j + (d + 1) = (j + d) + 1 BY <2>1, <1>0
    <3>2. Exp2(j) <= Exp2(j + d) BY <1>2, <3>1
    <3>3. PICK a, b \in Nat : a = Exp2(j) /\ b = Exp2(j + d) BY <3>1, Powers
    <3>4. Exp2((j + d) + 1) = 2 * b BY <3>1, <3>3, Powers
    <3> QED BY <3>1, <3>2, <3>3, <3>4
  <2> QED BY <2>1
<1> HIDE DEF T
<1>3. Nat \subseteq T BY <1>1, <1>2, NatInductionSet
<1>4. ASSUME NEW j \in 0..(H + 1), NEW k \in 0..(H + 1), j <= k PROVE Exp2(j) <= Exp2(k)
  <2>1. k - j \in Nat /\ j + (k - j) = k /\ k <= H + 1 BY <1>0, <1>4
  <2>2. k - j \in T BY <1>3, <2>1
  <2> QED BY <2>1, <2>2 DEF T
<1> QED BY <1>4

\* Powers are multiplied by adding their exponents.
LEMMA PowersMultiply == \A j, k \in 0..(H + 1) : j + k <= H + 1 => Exp2(j) * Exp2(k) = Exp2(j + k)
<1>0. H \in Nat BY Powers
<1> DEFINE T == {j \in Nat : \A k \in 0..(H + 1) : j + k <= H + 1 => Exp2(j) * Exp2(k) = Exp2(j + k)}
<1>1. 0 \in T
  <2>1. ASSUME NEW k \in 0..(H + 1) PROVE Exp2(0) * Exp2(k) = Exp2(0 + k)
    <3>1. 0 + k = k OBVIOUS
    <3>2. PICK b \in Nat : b = Exp2(k) BY Powers
    <3>3. Exp2(0) = 1 BY Powers
    <3> QED BY <3>1, <3>2, <3>3
  <2> QED BY <2>1
<1>2. ASSUME NEW j \in Nat, j \in T PROVE j + 1 \in T
  <2>1. ASSUME NEW k \in 0..(H + 1), (j + 1) + k <= H + 1 PROVE Exp2(j + 1) * Exp2(k) = Exp2((j + 1) + k)
    <3>1. /\ j + k <= H + 1 /\ j \in 0..H /\ j \in 0..(H + 1) /\ j + k \in 0..H /\ j + k \in 0..(H + 1)
          /\ (j + 1) + k = (j + k) + 1
      BY <2>1, <1>0
    <3>2. PICK a, b, c \in Nat : a = Exp2(j) /\ b = Exp2(k) /\ c = Exp2(j + k) BY <3>1, Powers
    <3>3. a * b = c BY <1>2, <3>1, <3>2
    <3>4. Exp2(j + 1) = 2 * a /\ Exp2((j + k) + 1) = 2 * c BY <3>1, <3>2, Powers
    <3>5. (2 * a) * b = 2 * (a * b) OBVIOUS
    <3> QED BY <3>1, <3>2, <3>3, <3>4, <3>5
  <2> QED BY <2>1
<1> HIDE DEF T
<1>3. Nat \subseteq T BY <1>1, <1>2, NatInductionSet
<1>4. ASSUME NEW j \in 0..(H + 1), NEW k \in 0..(H + 1), j + k <= H + 1
      PROVE  Exp2(j) * Exp2(k) = Exp2(j + k)
  <2>1. j \in T BY <1>3
  <2> QED BY <2>1, <1>4 DEF T
<1> QED BY <1>4

-----------------------------------------------------------------------------
(* Indices: those at a height, and the way down to a cell *)

Level(h) == Exp2(H - h)..(Exp2((H - h) + 1) - 1)

\* The index over cell c at height h.
At(c, h) == c \div Exp2(h)

LEMMA LevelsAreApart ==
  ASSUME NEW h \in 0..H, NEW g \in 0..H, NEW n \in Int, n \in Level(h), n \in Level(g)
  PROVE  h = g
<1>0. H \in Nat BY Powers
<1>1. ASSUME NEW a \in 0..H, NEW b \in 0..H, n \in Level(a), n \in Level(b) PROVE ~(a < b)
  <2>1. SUFFICES ASSUME a < b PROVE FALSE OBVIOUS
  <2>2. /\ (H - b) + 1 \in 0..(H + 1) /\ H - a \in 0..(H + 1) /\ (H - b) + 1 <= H - a BY <1>0, <2>1
  <2>3. PICK x, y \in Nat : x = Exp2((H - b) + 1) /\ y = Exp2(H - a) BY <2>2, Powers
  <2>4. x <= y BY <2>2, <2>3, PowersGrow
  <2>5. y <= n BY <1>1, <2>3 DEF Level
  <2>6. n <= x - 1 BY <1>1, <2>3 DEF Level
  <2> QED BY <2>3, <2>4, <2>5, <2>6
<1>2. ~(h < g) /\ ~(g < h) BY <1>1
<1> QED BY <1>2

LEMMA IndicesAre ==
  /\ \A h \in 0..H : Level(h) \subseteq TreeIndex
  /\ \A n \in TreeIndex : \E h \in 0..H : n \in Level(h)
  /\ \A n \in TreeIndex : n \in Nat \ {0}
  /\ TreeCell = Level(0) /\ Level(H) = {1}
<1>0. H \in Nat BY Powers
<1>a. PICK top \in Nat : top = Exp2(H + 1) BY <1>0, Powers
<1>b. PICK mid \in Nat \ {0} : mid = Exp2(H) BY <1>0, Powers
<1>c. top = 2 * mid BY <1>0, <1>a, <1>b, Powers
<1>1. TreeIndex = 1..(top - 1)
  <2>1. TreeNode = 1..(mid - 1) /\ TreeCell = mid..(top - 1) BY <1>a, <1>b DEF TreeNode, TreeCell, H
  <2> QED BY <2>1, <1>c DEF TreeIndex
<1>2. ASSUME NEW h \in 0..H PROVE Level(h) \subseteq TreeIndex
  <2>1. H - h \in 0..(H + 1) /\ (H - h) + 1 \in 0..(H + 1) /\ (H - h) + 1 <= H + 1 /\ H + 1 \in 0..(H + 1)
    BY <1>0
  <2>2. PICK x \in Nat \ {0}, y \in Nat : x = Exp2(H - h) /\ y = Exp2((H - h) + 1) BY <2>1, Powers
  <2>3. y <= top BY <2>1, <2>2, <1>a, PowersGrow
  <2>4. Level(h) = x..(y - 1) BY <2>2 DEF Level
  <2>5. x..(y - 1) \subseteq 1..(top - 1) BY <2>3
  <2> QED BY <1>1, <2>4, <2>5
<1>3. ASSUME NEW n \in TreeIndex PROVE \E h \in 0..H : n \in Level(h)
  <2> DEFINE S == {k \in 0..(H + 1) : n < Exp2(k)}
  <2>1. n \in Nat \ {0} /\ n < top BY <1>1
  <2>2. H + 1 \in S BY <1>0, <1>a, <2>1
  <2>3. S \in SUBSET Nat /\ S # {} BY <2>2
  <2>4. PICK k \in S : \A j \in S : k <= j
    <3> HIDE DEF S
    <3> QED BY <2>3, LeastNumber
  <2>5. k \in 0..(H + 1) /\ n < Exp2(k) OBVIOUS
  <2>6. k # 0 BY <2>1, <2>5, Powers
  <2>7. k - 1 \in 0..(H + 1) /\ k - 1 < k BY <2>5, <2>6, <1>0
  <2>8. ~(n < Exp2(k - 1))
    <3>1. k - 1 \notin S
      <4> HIDE DEF S
      <4> QED BY <2>4, <2>7, <2>5
    <3> QED BY <3>1, <2>7
  <2>9. PICK h \in 0..H : h = H - (k - 1) BY <2>5, <2>6, <1>0
  <2>10. H - h = k - 1 /\ (H - h) + 1 = k BY <2>9, <2>5, <1>0
  <2>11. PICK x, y \in Nat : x = Exp2(k - 1) /\ y = Exp2(k) BY <2>5, <2>7, Powers
  <2>12. n \in x..(y - 1) BY <2>1, <2>5, <2>8, <2>11
  <2> QED BY <2>10, <2>11, <2>12 DEF Level
<1>4. TreeCell = Level(0)
  <2>1. H - 0 = H BY <1>0
  <2> QED BY <2>1 DEF Level, TreeCell, H
<1>5. Level(H) = {1}
  <2>1. H - H = 0 /\ (H - H) + 1 = 1 BY <1>0
  <2>2. Level(H) = 1..(2 - 1) BY <2>1, Powers DEF Level
  <2> QED BY <2>2
<1> QED BY <1>1, <1>2, <1>3, <1>4, <1>5

LEMMA HeightsAre ==
  /\ \A n \in TreeIndex : HeightOf(n) \in 0..H /\ n \in Level(HeightOf(n))
  /\ \A h \in 0..H : \A n \in Level(h) : n \in TreeIndex /\ HeightOf(n) = h
  /\ \A n \in TreeIndex : (n \in TreeCell <=> HeightOf(n) = 0) /\ (n \in TreeNode <=> HeightOf(n) # 0)
<1>0. H \in Nat BY Powers
<1>1. ASSUME NEW n \in TreeIndex PROVE HeightOf(n) \in 0..H /\ n \in Level(HeightOf(n))
  <2>1. \E h \in 0..H : n \in Level(h) BY IndicesAre
  <2>2. \E h \in 0..TreeHeight : n \in Exp2(TreeHeight - h)..(Exp2(TreeHeight - h + 1) - 1)
    BY <2>1 DEF Level, H
  <2> QED BY <2>2 DEF HeightOf, Level, H
<1>2. ASSUME NEW h \in 0..H, NEW n \in Level(h) PROVE n \in TreeIndex /\ HeightOf(n) = h
  <2>1. n \in TreeIndex BY IndicesAre
  <2>2. n \in Int BY <2>1, IndicesAre
  <2> QED BY <1>1, <2>1, <2>2, LevelsAreApart
<1>3. ASSUME NEW n \in TreeIndex
      PROVE  (n \in TreeCell <=> HeightOf(n) = 0) /\ (n \in TreeNode <=> HeightOf(n) # 0)
  <2>1. 0 \in 0..H BY <1>0
  <2>2. n \in TreeCell <=> HeightOf(n) = 0 BY <1>1, <1>2, <2>1, IndicesAre
  <2>3. n \in TreeNode <=> n \notin TreeCell
    <3>1. PICK mid \in Nat : mid = Exp2(TreeHeight) BY Powers, <1>0 DEF H
    <3>2. TreeNode = 1..(mid - 1) BY <3>1 DEF TreeNode
    <3>3. TreeCell = mid..(Exp2(TreeHeight + 1) - 1) BY <3>1 DEF TreeCell
    <3>4. Exp2(TreeHeight + 1) \in Nat BY Powers, <1>0 DEF H
    <3>5. n \in TreeNode \/ n \in TreeCell BY DEF TreeIndex
    <3> QED BY <3>1, <3>2, <3>3, <3>4, <3>5
  <2> QED BY <2>2, <2>3
<1> QED BY <1>1, <1>2, <1>3

LEMMA AtIs ==
  ASSUME NEW c \in TreeCell, NEW h \in 0..H
  PROVE  At(c, h) \in Level(h) /\ At(c, h) \in TreeIndex /\ HeightOf(At(c, h)) = h
<1>0. H \in Nat /\ c \in Nat /\ c \in TreeIndex BY Powers, IndicesAre DEF TreeIndex
<1>1. /\ h \in 0..(H + 1) /\ H - h \in 0..(H + 1) /\ (H - h) + 1 \in 0..(H + 1)
      /\ h + (H - h) = H /\ h + ((H - h) + 1) = H + 1 /\ H <= H + 1 /\ H + 1 <= H + 1
  BY <1>0
<1>2. PICK w \in Nat \ {0}, x, y \in Nat : w = Exp2(h) /\ x = Exp2(H - h) /\ y = Exp2((H - h) + 1)
  BY <1>1, Powers
<1>3. w * x = Exp2(H) /\ w * y = Exp2(H + 1) BY <1>1, <1>2, PowersMultiply
<1>4. w * x <= c /\ c < w * y
  <2>1. c \in Exp2(H)..(Exp2(H + 1) - 1) BY DEF TreeCell, H
  <2>2. w * x \in Int /\ w * y \in Int BY <1>2
  <2>3. c \in (w * x)..((w * y) - 1) BY <2>1, <1>3
  <2> QED BY <2>2, <2>3, <1>0
<1>5. (w * x) \div w = x
  <2>1. PICK z \in Int : z = w * x + 0 BY <1>2
  <2>2. 0 \in 0..(w - 1) BY <1>2
  <2>3. (w * x + 0) \div w = x BY <2>2, <1>2, QuotientIs
  <2>4. w * x + 0 = w * x BY <1>2
  <2> QED BY <2>3, <2>4
<1>6. x <= c \div w
  <2>1. w * x \in Int /\ c \in Int BY <1>0, <1>2
  <2>2. (w * x) \div w <= c \div w BY <2>1, <1>4, QuotientsKeepOrder
  <2> QED BY <2>2, <1>5
<1>7. c \div w < y BY <1>0, <1>2, <1>4, QuotientsKeepOrder
<1>8. c \div w \in Int BY <1>0, <1>2, QuotientsKeepOrder
<1>9. At(c, h) \in Level(h)
  <2>1. PICK q \in Int : q = c \div w BY <1>8
  <2>2. q \in x..(y - 1) BY <2>1, <1>2, <1>6, <1>7
  <2> QED BY <2>1, <2>2, <1>2 DEF At, Level
<1> QED BY <1>9, HeightsAre

\* From one height to a higher one.
LEMMA AtAbove ==
  ASSUME NEW c \in TreeCell, NEW g \in 0..H, NEW e \in 0..H, g + e \in 0..H
  PROVE  At(c, g) \div Exp2(e) = At(c, g + e)
<1>0. H \in Nat /\ c \in Int BY Powers, IndicesAre DEF TreeIndex
<1>1. g \in 0..(H + 1) /\ e \in 0..(H + 1) /\ g + e <= H + 1 BY <1>0
<1>2. Exp2(g) \in Nat \ {0} /\ Exp2(e) \in Nat \ {0} BY <1>1, Powers
<1>3. (c \div Exp2(g)) \div Exp2(e) = c \div (Exp2(g) * Exp2(e)) BY <1>0, <1>2, ShiftTwice
<1>4. Exp2(g) * Exp2(e) = Exp2(g + e) BY <1>1, PowersMultiply
<1> QED BY <1>3, <1>4 DEF At

LEMMA AtTop == ASSUME NEW c \in TreeCell PROVE At(c, H) = 1
<1>1. H \in 0..H BY Powers
<1> QED BY <1>1, AtIs, IndicesAre

\* The next one on the way down.
LEMMA StepDown ==
  ASSUME NEW c \in TreeCell, NEW h \in 1..H
  PROVE  /\ ChildAt(c, h) \in {0, 1}
         /\ At(c, h - 1) = 2 * At(c, h) + ChildAt(c, h)
         /\ At(c, h - 1) \div 2 = At(c, h) /\ At(c, h - 1) % 2 = ChildAt(c, h)
         /\ At(c, h - 1) # 1
<1>0. H \in Nat BY Powers
<1>1. h - 1 \in 0..H /\ h \in 0..H /\ 1 \in 0..H /\ (h - 1) + 1 = h BY <1>0
<1>2. At(c, h - 1) \div 2 = At(c, h) BY <1>1, AtAbove, Powers
<1>3. PICK n \in Int : n = At(c, h - 1)
  <2>1. At(c, h - 1) \in TreeIndex BY <1>1, AtIs
  <2> QED BY <2>1, IndicesAre
<1>4. ChildAt(c, h) = n % 2 BY <1>3 DEF ChildAt, At
<1>5. PICK a \in Int, r \in 0..(2 - 1) : n = 2 * a + r /\ n \div 2 = a /\ n % 2 = r
  <2>1. 2 \in Nat \ {0} OBVIOUS
  <2> QED BY <2>1, DivisionIs
<1>6. a = At(c, h) BY <1>2, <1>3, <1>5
<1>7. r \in {0, 1} BY <1>5
<1>8. a # 0
  <2>1. At(c, h) \in TreeIndex BY <1>1, AtIs
  <2> QED BY <2>1, <1>6, IndicesAre
<1>9. n # 1
  <2>1. a \in Nat \ {0}
    <3>1. At(c, h) \in TreeIndex BY <1>1, AtIs
    <3> QED BY <3>1, <1>6, IndicesAre
  <2> QED BY <2>1, <1>5, <1>7
<1> QED BY <1>2, <1>3, <1>4, <1>5, <1>6, <1>7, <1>9

\* Above a common ancestor the ways to two cells are the same.
LEMMA SameAbove ==
  ASSUME NEW c \in TreeCell, NEW d \in TreeCell, NEW g \in 0..H, NEW h \in 0..H, g <= h,
         At(c, g) = At(d, g)
  PROVE  At(c, h) = At(d, h)
<1>0. H \in Nat BY Powers
<1>1. h - g \in 0..H /\ g + (h - g) = h /\ g + (h - g) \in 0..H BY <1>0
<1>2. At(c, g) \div Exp2(h - g) = At(c, h) /\ At(d, g) \div Exp2(h - g) = At(d, h)
  BY <1>1, AtAbove
<1> QED BY <1>2

\* The Morton code of an index is that of a cell below it.
LEMMA CodeIs ==
  ASSUME NEW n \in TreeIndex PROVE Code(n) \in TreeCell /\ At(Code(n), HeightOf(n)) = n
<1>0. H \in Nat /\ n \in Nat \ {0} BY Powers, IndicesAre
<1>1. PICK h \in 0..H : h = HeightOf(n) /\ n \in Level(h) BY HeightsAre
<1>2. /\ h \in 0..(H + 1) /\ H - h \in 0..(H + 1) /\ (H - h) + 1 \in 0..(H + 1)
      /\ (H - h) + h = H /\ ((H - h) + 1) + h = H + 1 /\ H <= H + 1 /\ H + 1 <= H + 1
  BY <1>0
<1>3. PICK w \in Nat \ {0}, x, y \in Nat : w = Exp2(h) /\ x = Exp2(H - h) /\ y = Exp2((H - h) + 1)
  BY <1>2, Powers
<1>4. x * w = Exp2(H) /\ y * w = Exp2(H + 1) BY <1>2, <1>3, PowersMultiply
<1>5. x <= n /\ n < y BY <1>0, <1>1, <1>3 DEF Level
<1>6. x * w <= n * w /\ n * w < y * w /\ n * w \in Int /\ x * w \in Int /\ y * w \in Int
  BY <1>0, <1>3, <1>5, ProductOrder
<1>7. n * w \in (x * w)..((y * w) - 1) BY <1>6
<1>8. Code(n) = n * w BY <1>1, <1>3 DEF Code
<1>9. Code(n) \in TreeCell BY <1>4, <1>7, <1>8 DEF TreeCell, H
<1>10. (n * w) \div w = n
  <2>1. 0 \in 0..(w - 1) /\ n \in Int BY <1>0, <1>3
  <2>2. (w * n + 0) \div w = n BY <2>1, <1>3, QuotientIs
  <2>3. w * n + 0 = n * w BY <1>0, <1>3
  <2> QED BY <2>2, <2>3
<1> QED BY <1>1, <1>3, <1>8, <1>9, <1>10 DEF At

\* What is above an index are the indices on the way to its cells.
LEMMA UpFromIs ==
  ASSUME NEW c \in TreeCell, NEW h \in 0..H
  PROVE  UpFrom(At(c, h)) = {At(c, g) : g \in h..H}
<1>0. H \in Nat BY Powers
<1>1. HeightOf(At(c, h)) = h BY AtIs
<1>2. UpFrom(At(c, h)) = {At(c, h) \div Exp2(e) : e \in 0..(H - h)} BY <1>1 DEF UpFrom, H
<1>3. ASSUME NEW e \in 0..(H - h) PROVE h + e \in h..H /\ At(c, h) \div Exp2(e) = At(c, h + e)
  <2>1. e \in 0..H /\ h + e \in 0..H /\ h + e \in h..H BY <1>0
  <2> QED BY <2>1, AtAbove
<1>4. ASSUME NEW g \in h..H PROVE \E e \in 0..(H - h) : At(c, g) = At(c, h) \div Exp2(e)
  <2>1. g - h \in 0..(H - h) /\ h + (g - h) = g BY <1>0
  <2> QED BY <2>1, <1>3
<1> QED BY <1>2, <1>3, <1>4

\* The same for any index.
LEMMA UpFromIndex ==
  ASSUME NEW n \in TreeIndex
  PROVE  /\ HeightOf(n) \in 0..H /\ Code(n) \in TreeCell
         /\ UpFrom(n) = {At(Code(n), g) : g \in HeightOf(n)..H}
         /\ n \in UpFrom(n) /\ 1 \in UpFrom(n) /\ UpFrom(n) \subseteq TreeIndex
<1>0. H \in Nat BY Powers
<1>1. HeightOf(n) \in 0..H /\ Code(n) \in TreeCell /\ At(Code(n), HeightOf(n)) = n
  BY HeightsAre, CodeIs
<1>2. UpFrom(n) = {At(Code(n), g) : g \in HeightOf(n)..H} BY <1>1, UpFromIs
<1>3. HeightOf(n) \in HeightOf(n)..H /\ H \in HeightOf(n)..H /\ \A g \in HeightOf(n)..H : g \in 0..H
  BY <1>0, <1>1
<1>4. At(Code(n), H) = 1 BY <1>1, AtTop
<1>5. \A g \in HeightOf(n)..H : At(Code(n), g) \in TreeIndex BY <1>1, <1>3, AtIs
<1> QED BY <1>1, <1>2, <1>3, <1>4, <1>5

\* The last common ancestor of two indices, of which the codes are given.
LEMMA AncestorIs ==
  ASSUME NEW c \in TreeCell, NEW d \in TreeCell, NEW i \in 0..H, NEW j \in 0..H,
         NEW h, h = LastCommonAncestor(c, i, d, j)
  PROVE  h \in 0..H /\ i <= h /\ j <= h /\ At(c, h) = At(d, h)
<1>0. H \in Nat BY Powers
<1> DEFINE Common(k) == {i, j} \subseteq 0..k /\ c \div Exp2(k) = d \div Exp2(k)
           S == {k \in 0..H : Common(k)}
<1>1. H \in S
  <2>1. At(c, H) = At(d, H) BY AtTop
  <2>2. {i, j} \subseteq 0..H OBVIOUS
  <2> QED BY <2>1, <2>2, <1>0 DEF At
<1>2. S \in SUBSET Nat /\ S # {} BY <1>1
<1>3. PICK k \in S : \A g \in S : k <= g
  <2> HIDE DEF S
  <2> QED BY <1>2, LeastNumber
<1>4. k \in 0..H /\ Common(k) OBVIOUS
<1>5. \A g \in 0..(k - 1) : ~Common(g)
  <2> SUFFICES ASSUME NEW g \in 0..(k - 1), Common(g) PROVE FALSE OBVIOUS
  <2>1. g \in 0..H /\ ~(k <= g) BY <1>0, <1>4
  <2>2. g \in S BY <2>1
  <2> HIDE DEF S
  <2> QED BY <2>1, <2>2, <1>3
<1> HIDE DEF S
<1>6. \E g \in 0..TreeHeight : Common(g) /\ \A f \in 0..(g - 1) : ~Common(f) BY <1>4, <1>5 DEF H
<1>7. h = CHOOSE g \in 0..TreeHeight : Common(g) /\ \A f \in 0..(g - 1) : ~Common(f)
  <2>1. \A f : ~Common(f) <=> (~({i, j} \subseteq 0..f) \/ c \div Exp2(f) # d \div Exp2(f)) OBVIOUS
  <2> QED BY <2>1 DEF LastCommonAncestor, H
<1>8. h \in 0..H /\ Common(h)
  <2> HIDE DEF Common
  <2> QED BY <1>6, <1>7 DEF H
<1>9. i \in 0..h /\ j \in 0..h /\ h \in Int BY <1>8
<1>10. i <= h /\ j <= h BY <1>9
<1>11. At(c, h) = At(d, h) BY <1>8 DEF At
<1> QED BY <1>8, <1>10, <1>11


LEMMA ParentIs ==
  ASSUME NEW n \in TreeIndex, n # 1
  PROVE  /\ HeightOf(n) \in 0..(H - 1) /\ HeightOf(n) + 1 \in 1..H
         /\ n \div 2 \in TreeNode /\ n \div 2 \in TreeIndex /\ HeightOf(n \div 2) = HeightOf(n) + 1
         /\ n % 2 \in {0, 1} /\ At(Code(n), HeightOf(n) + 1) = n \div 2
<1>0. H \in Nat BY Powers
<1>1. PICK h \in 0..H : h = HeightOf(n) /\ n \in Level(h) BY HeightsAre
<1>2. h # H BY <1>1, IndicesAre
<1>3. h + 1 \in 1..H /\ h \in 0..(H - 1) /\ (h + 1) - 1 = h /\ h + 1 \in 0..H BY <1>0, <1>1, <1>2
<1>4. Code(n) \in TreeCell /\ At(Code(n), h) = n BY <1>1, CodeIs
<1>5. PICK c \in TreeCell : c = Code(n) BY <1>4
<1>6. n \div 2 = At(c, h + 1) /\ n % 2 = ChildAt(c, h + 1) /\ ChildAt(c, h + 1) \in {0, 1}
  BY <1>3, <1>4, <1>5, StepDown
<1>7. At(c, h + 1) \in TreeIndex /\ HeightOf(At(c, h + 1)) = h + 1 BY <1>3, AtIs
<1>8. h + 1 # 0 BY <1>3
<1> QED BY <1>1, <1>3, <1>5, <1>6, <1>7, <1>8, HeightsAre

LEMMA ChildrenAre ==
  ASSUME NEW n \in TreeNode, NEW i \in {0, 1}
  PROVE  /\ n \in TreeIndex /\ HeightOf(n) \in 1..H
         /\ 2 * n + i \in TreeIndex /\ 2 * n + i # 1 /\ HeightOf(2 * n + i) = HeightOf(n) - 1
         /\ (2 * n + i) \div 2 = n /\ (2 * n + i) % 2 = i
<1>0. H \in Nat /\ n \in TreeIndex /\ n \in Nat \ {0} BY Powers, IndicesAre DEF TreeIndex
<1>1. PICK h \in 0..H : h = HeightOf(n) /\ n \in Level(h) BY <1>0, HeightsAre
<1>2. h # 0 /\ h \in 1..H BY <1>0, <1>1, HeightsAre
<1>3. /\ H - h \in 0..H /\ (H - h) + 1 \in 0..H /\ H - (h - 1) = (H - h) + 1 /\ h - 1 \in 0..H
      /\ H - h \in 0..(H + 1) /\ (H - h) + 1 \in 0..(H + 1)
  BY <1>0, <1>2
<1>4. PICK x, y \in Nat : x = Exp2(H - h) /\ y = Exp2((H - h) + 1) BY <1>3, Powers
<1>5. y = 2 * x /\ Exp2(((H - h) + 1) + 1) = 2 * y BY <1>3, <1>4, Powers
<1>6. x <= n /\ n <= y - 1 BY <1>1, <1>4 DEF Level
<1>7. 2 * n + i \in (2 * x)..((2 * y) - 1) BY <1>0, <1>4, <1>6
<1>8. 2 * n + i \in Level(h - 1) BY <1>3, <1>4, <1>5, <1>7 DEF Level
<1>9. 2 * n + i \in TreeIndex /\ HeightOf(2 * n + i) = h - 1 BY <1>3, <1>8, HeightsAre
<1>10. (2 * n + i) \div 2 = n /\ (2 * n + i) % 2 = i
  <2>1. 2 \in Nat \ {0} /\ n \in Int /\ i \in 0..(2 - 1) BY <1>0
  <2> QED BY <2>1, QuotientIs
<1>11. 2 * n + i # 1 BY <1>0
<1> QED BY <1>0, <1>1, <1>2, <1>9, <1>10, <1>11

-----------------------------------------------------------------------------
(* The trees of the occupancy map *)

\* The values of the indices are those of their parents and half a detail.
LEMMA ScalesAre ==
  ASSUME NEW tree, tree.scale \in Int, tree.details \in [TreeNode -> Int]
  PROVE  /\ Scales(tree) \in [TreeIndex -> Int] /\ Scales(tree)[1] = tree.scale
         /\ \A n \in TreeIndex \ {1} :
              Scales(tree)[n] = IF n % 2 = 0
                                THEN Scales(tree)[n \div 2] - Half(tree, n \div 2)
                                ELSE Scales(tree)[n \div 2] + Half(tree, n \div 2)
<1>0. H \in Nat BY Powers
<1> DEFINE D == TreeIndex
           rank == [n \in D |-> H - HeightOf(n)]
           Body(f, n) == IF n = 1 THEN tree.scale
                         ELSE IF n % 2 = 0 THEN f[n \div 2] - Half(tree, n \div 2)
                         ELSE f[n \div 2] + Half(tree, n \div 2)
           G == [f \in [D -> Int] |-> [n \in D |-> Body(f, n)]]
<1>1. rank \in [D -> 0..H]
  <2>1. \A n \in D : HeightOf(n) \in 0..H BY HeightsAre
  <2>2. \A h \in 0..H : H - h \in 0..H BY <1>0
  <2> QED BY <2>1, <2>2
<1>2. ASSUME NEW f \in [D -> Int], NEW n \in D PROVE Body(f, n) \in Int
  <2>1. CASE n = 1 BY <2>1
  <2>2. CASE n # 1
    <3>1. n \div 2 \in TreeNode /\ n \div 2 \in D BY <2>2, ParentIs
    <3>2. PICK d \in Int : d = Half(tree, n \div 2)
      <4>1. PICK e \in Int : e = tree.details[n \div 2] BY <3>1
      <4> QED BY <4>1 DEF Half
    <3>3. f[n \div 2] \in Int BY <3>1
    <3> QED BY <2>2, <3>2, <3>3
  <2> QED BY <2>1, <2>2
<1>3. G \in [[D -> Int] -> [D -> Int]]
  <2> HIDE DEF Body
  <2> QED BY <1>2
<1>4. [D -> Int] # {} BY [n \in D |-> 0] \in [D -> Int]
<1>5. \A f, g \in [D -> Int] : \A x \in D :
        (\A y \in D : rank[y] < rank[x] => f[y] = g[y]) => G[f][x] = G[g][x]
  <2> SUFFICES ASSUME NEW f \in [D -> Int], NEW g \in [D -> Int], NEW x \in D,
                      \A y \in D : rank[y] < rank[x] => f[y] = g[y]
               PROVE  Body(f, x) = Body(g, x)
    OBVIOUS
  <2>1. CASE x = 1 BY <2>1
  <2>2. CASE x # 1
    <3>1. x \div 2 \in D /\ HeightOf(x \div 2) = HeightOf(x) + 1 BY <2>2, ParentIs
    <3>2. HeightOf(x) \in 0..H BY HeightsAre
    <3>3. rank[x \div 2] < rank[x] BY <1>0, <3>1, <3>2
    <3>4. f[x \div 2] = g[x \div 2] BY <3>1, <3>3
    <3> QED BY <2>2, <3>4
  <2> QED BY <2>1, <2>2
<1>6. \E f \in [D -> Int] : f = G[f]
  <2> HIDE DEF D, rank, G
  <2>1. IsRecursion(G, D, Int, rank, H) BY <1>1, <1>3, <1>4, <1>5 DEF IsRecursion
  <2> QED BY <1>0, <2>1, FixedPoint
<1>7. \E f : f = [n \in TreeIndex |-> Body(f, n)] BY <1>6
<1>8. Scales(tree) = [n \in TreeIndex |-> Body(Scales(tree), n)] BY <1>7, Zenon DEF Scales
<1> DEFINE S == Scales(tree)
<1> HIDE DEF S
<1>9. ASSUME NEW k \in Nat, \A n \in TreeIndex : rank[n] < k => S[n] \in Int
      PROVE  \A n \in TreeIndex : rank[n] < k + 1 => S[n] \in Int
  <2> SUFFICES ASSUME NEW n \in TreeIndex, rank[n] < k + 1 PROVE Body(S, n) \in Int
    BY <1>8 DEF S
  <2>1. CASE n = 1 BY <2>1
  <2>2. CASE n # 1
    <3>1. n \div 2 \in TreeNode /\ n \div 2 \in D /\ HeightOf(n \div 2) = HeightOf(n) + 1
      BY <2>2, ParentIs
    <3>2. HeightOf(n) \in 0..H BY HeightsAre
    <3>3. rank[n \div 2] < k BY <1>0, <3>1, <3>2
    <3>4. S[n \div 2] \in Int BY <1>9, <3>1, <3>3
    <3>5. PICK d \in Int : d = Half(tree, n \div 2)
      <4>1. PICK e \in Int : e = tree.details[n \div 2] BY <3>1
      <4> QED BY <4>1 DEF Half
    <3> QED BY <2>2, <3>4, <3>5
  <2> QED BY <2>1, <2>2
<1>10. \A n \in TreeIndex : S[n] \in Int
  <2> DEFINE T == {k \in Nat : \A n \in TreeIndex : rank[n] < k => S[n] \in Int}
  <2> HIDE DEF rank
  <2>1. 0 \in T BY <1>1
  <2>2. \A k \in Nat : k \in T => k + 1 \in T BY <1>9
  <2> HIDE DEF T
  <2>3. Nat \subseteq T BY <2>1, <2>2, NatInductionSet
  <2>4. H + 1 \in T BY <1>0, <2>3
  <2>5. \A n \in TreeIndex : rank[n] < H + 1 BY <1>0, <1>1
  <2> QED BY <2>4, <2>5 DEF T
<1>11. 1 \in TreeIndex
  <2>1. H \in 0..H BY <1>0
  <2> QED BY <2>1, IndicesAre
<1>12. Scales(tree) \in [TreeIndex -> Int]
  <2> HIDE DEF Body
  <2> QED BY <1>8, <1>10 DEF S
<1> QED BY <1>8, <1>11, <1>12

LEMMA AveragesAre ==
  ASSUME NEW content \in [TreeCell -> Int]
  PROVE  /\ Average(content) \in [TreeIndex -> Int]
         /\ \A n \in TreeIndex :
              Average(content)[n] = IF n \in TreeCell THEN content[n]
                                    ELSE (Average(content)[2 * n] + Average(content)[2 * n + 1]) \div 2
<1>0. H \in Nat BY Powers
<1> DEFINE D == TreeIndex
           rank == [n \in D |-> HeightOf(n)]
           Body(f, n) == IF n \in TreeCell THEN content[n] ELSE (f[2 * n] + f[2 * n + 1]) \div 2
           G == [f \in [D -> Int] |-> [n \in D |-> Body(f, n)]]
<1>1. rank \in [D -> 0..H] BY HeightsAre
<1>a. ASSUME NEW n \in D, n \notin TreeCell
      PROVE  /\ 2 * n \in D /\ 2 * n + 1 \in D /\ rank[2 * n] < rank[n] /\ rank[2 * n + 1] < rank[n]
             /\ rank[n] \in Int
  <2>1. n \in TreeNode BY <1>a DEF TreeIndex
  <2>2. 2 * n + 0 \in D /\ 2 * n + 1 \in D BY <2>1, ChildrenAre
  <2>3. /\ HeightOf(2 * n + 0) = HeightOf(n) - 1 /\ HeightOf(2 * n + 1) = HeightOf(n) - 1
        /\ HeightOf(n) \in 1..H
    BY <2>1, ChildrenAre
  <2>4. 2 * n + 0 = 2 * n
    <3>1. n \in Nat BY IndicesAre
    <3> QED BY <3>1
  <2> QED BY <2>2, <2>3, <2>4
<1>2. ASSUME NEW f, NEW n \in D, n \notin TreeCell => f[2 * n] \in Int /\ f[2 * n + 1] \in Int
      PROVE  Body(f, n) \in Int
  <2>1. CASE n \in TreeCell BY <2>1
  <2>2. CASE n \notin TreeCell
    <3>1. PICK a, b \in Int : a = f[2 * n] /\ b = f[2 * n + 1] BY <1>2, <2>2
    <3>2. (a + b) \div 2 \in Int OBVIOUS
    <3> QED BY <2>2, <3>1, <3>2
  <2> QED BY <2>1, <2>2
<1>3. G \in [[D -> Int] -> [D -> Int]]
  <2>1. ASSUME NEW f \in [D -> Int], NEW n \in D PROVE Body(f, n) \in Int
    <3>1. n \notin TreeCell => f[2 * n] \in Int /\ f[2 * n + 1] \in Int
      <4> HIDE DEF rank
      <4> QED BY <1>a
    <3> HIDE DEF Body
    <3> QED BY <1>2, <3>1
  <2> HIDE DEF Body
  <2> QED BY <2>1
<1>4. [D -> Int] # {} BY [n \in D |-> 0] \in [D -> Int]
<1>5. \A f, g \in [D -> Int] : \A x \in D :
        (\A y \in D : rank[y] < rank[x] => f[y] = g[y]) => G[f][x] = G[g][x]
  <2> SUFFICES ASSUME NEW f \in [D -> Int], NEW g \in [D -> Int], NEW x \in D,
                      \A y \in D : rank[y] < rank[x] => f[y] = g[y]
               PROVE  Body(f, x) = Body(g, x)
    OBVIOUS
  <2>1. x \notin TreeCell => f[2 * x] = g[2 * x] /\ f[2 * x + 1] = g[2 * x + 1]
    <3> HIDE DEF rank
    <3> QED BY <1>a
  <2> QED BY <2>1
<1>6. \E f \in [D -> Int] : f = G[f]
  <2> HIDE DEF D, rank, G
  <2>1. IsRecursion(G, D, Int, rank, H) BY <1>1, <1>3, <1>4, <1>5 DEF IsRecursion
  <2> QED BY <1>0, <2>1, FixedPoint
<1>7. \E f : f = [n \in TreeIndex |-> Body(f, n)] BY <1>6
<1> DEFINE A == Average(content)
<1>8. A = [n \in TreeIndex |-> Body(A, n)] BY <1>7, Zenon DEF Average
<1> HIDE DEF A
<1>9. \A n \in TreeIndex : A[n] \in Int
  <2> DEFINE T == {k \in Nat : \A n \in TreeIndex : rank[n] < k => A[n] \in Int}
  <2>1. 0 \in T
    <3> HIDE DEF rank
    <3> QED BY <1>1
  <2>2. ASSUME NEW k \in Nat, k \in T PROVE k + 1 \in T
    <3>1. ASSUME NEW n \in TreeIndex, rank[n] < k + 1 PROVE A[n] \in Int
      <4>1. n \notin TreeCell => A[2 * n] \in Int /\ A[2 * n + 1] \in Int
        <5> SUFFICES ASSUME n \notin TreeCell PROVE A[2 * n] \in Int /\ A[2 * n + 1] \in Int OBVIOUS
        <5>1. /\ 2 * n \in D /\ 2 * n + 1 \in D /\ rank[2 * n] < rank[n] /\ rank[2 * n + 1] < rank[n]
              /\ rank[n] \in Int
          BY <1>a
        <5>2. rank[2 * n] \in Int /\ rank[2 * n + 1] \in Int
          <6> HIDE DEF rank
          <6> QED BY <1>1, <5>1
        <5>3. rank[2 * n] < k /\ rank[2 * n + 1] < k
          <6> HIDE DEF rank
          <6> QED BY <3>1, <5>1, <5>2
        <5> HIDE DEF rank
        <5> QED BY <2>2, <5>1, <5>3
      <4>2. Body(A, n) \in Int
        <5> HIDE DEF Body
        <5> QED BY <1>2, <4>1
      <4> HIDE DEF Body
      <4> QED BY <1>8, <4>2
    <3> HIDE DEF rank
    <3> QED BY <3>1
  <2> HIDE DEF T
  <2>3. Nat \subseteq T BY <2>1, <2>2, NatInductionSet
  <2>4. H + 1 \in T BY <1>0, <2>3
  <2>5. \A n \in TreeIndex : rank[n] < H + 1
    <3> HIDE DEF rank
    <3> QED BY <1>0, <1>1
  <2> HIDE DEF rank
  <2> QED BY <2>4, <2>5 DEF T
<1>10. A \in [TreeIndex -> Int]
  <2> HIDE DEF Body
  <2> QED BY <1>8, <1>9
<1> QED BY <1>8, <1>10 DEF A

\* A tree of the occupancy map: below a node that is missing all details are 0.
SoundTree(tree) ==
  /\ tree.scale \in Int /\ tree.details \in [TreeNode -> Int]
  /\ tree.nodes \subseteq TreeNode /\ 1 \in tree.nodes
  /\ \A c \in TreeCell, h \in 0..H :
       At(c, h) \notin tree.nodes => \A g \in 1..h : tree.details[At(c, g)] = 0

LEMMA TreesAreSound == ASSUME NEW tree \in Trees PROVE SoundTree(tree)
<1>0. H \in Nat \ {0} BY Powers
<1>1. PICK content \in Content, nodes \in SUBSET TreeNode :
                 tree = TreeOf(content, nodes) /\ (nodes = TreeNode \/ nodes = Needed(content))
  <2>1. \A c : Needed(c) \in SUBSET TreeNode BY DEF Needed
  <2> QED BY <2>1 DEF Trees
<1>2. content \in [TreeCell -> Int] BY TreeAssumption
<1>3. PICK average \in [TreeIndex -> Int] : average = Average(content) BY <1>2, AveragesAre
<1> DEFINE details == [n \in TreeNode |-> average[2 * n + 1] - average[2 * n]]
<1>4. Coefficients(content) = [scale |-> average[1], details |-> details]
  BY <1>3 DEF Coefficients
<1>5. 1 \in TreeNode /\ 1 \in TreeIndex
  <2>1. 1 \in Level(H) /\ H \in 0..H /\ H # 0 BY <1>0, IndicesAre
  <2> QED BY <2>1, HeightsAre
<1>6. details \in [TreeNode -> Int]
  <2>1. ASSUME NEW n \in TreeNode PROVE average[2 * n + 1] - average[2 * n] \in Int
    <3>1. 2 * n + 0 \in TreeIndex /\ 2 * n + 1 \in TreeIndex BY ChildrenAre
    <3>2. n \in Int BY ChildrenAre, IndicesAre
    <3>3. 2 * n + 0 = 2 * n BY <3>2
    <3>4. average[2 * n + 1] \in Int /\ average[2 * n] \in Int BY <3>1, <3>3
    <3> QED BY <3>4
  <2> QED BY <2>1
<1> HIDE DEF details
<1>7. tree.scale = average[1] /\ tree.details = details /\ tree.nodes = nodes
  BY <1>1, <1>4 DEF TreeOf
<1>8. Needed(content) = {n \in TreeNode : n = 1 \/ \E m \in TreeNode : InSubtree(m, n) /\ details[m] # 0}
  BY <1>4 DEF Needed
<1>9. nodes \subseteq TreeNode /\ 1 \in nodes BY <1>1, <1>5, <1>8
<1>10. ASSUME NEW c \in TreeCell, NEW h \in 0..H, At(c, h) \notin nodes, NEW g \in 1..h
       PROVE  details[At(c, g)] = 0
  <2>1. h # 0 /\ g # 0 /\ g \in 0..H /\ g <= h /\ h \in g..H BY <1>0, <1>10
  <2>2. At(c, h) \in TreeNode /\ At(c, g) \in TreeNode BY <2>1, AtIs, HeightsAre
  <2>3. ~(nodes = TreeNode) BY <1>10, <2>2
  <2>4. nodes = Needed(content) BY <1>1, <2>3
  <2>5. ~(InSubtree(At(c, g), At(c, h)) /\ details[At(c, g)] # 0) BY <1>8, <1>10, <2>2, <2>4
  <2>6. At(c, h) \in UpFrom(At(c, g))
    <3>1. UpFrom(At(c, g)) = {At(c, f) : f \in g..H} BY <2>1, UpFromIs
    <3> QED BY <3>1, <2>1
  <2> QED BY <2>5, <2>6 DEF InSubtree
<1>11. average[1] \in Int BY <1>5
<1> QED BY <1>6, <1>7, <1>9, <1>10, <1>11 DEF SoundTree

\* One level down a tree, and down one that has no node there.
LEMMA ScaleBelow ==
  ASSUME NEW tree, SoundTree(tree), NEW c \in TreeCell, NEW h \in 1..H
  PROVE  /\ Scales(tree)[At(c, h)] \in Int /\ Half(tree, At(c, h)) \in Int
         /\ Scales(tree)[At(c, h - 1)]
              = Scales(tree)[At(c, h)]
                  + (IF ChildAt(c, h) = 0 THEN -Half(tree, At(c, h)) ELSE Half(tree, At(c, h)))
<1>0. H \in Nat /\ h \in 0..H /\ h - 1 \in 0..H /\ h # 0 BY Powers
<1>1. tree.scale \in Int /\ tree.details \in [TreeNode -> Int] BY DEF SoundTree
<1>2. /\ At(c, h) \in TreeNode /\ At(c, h) \in TreeIndex /\ At(c, h - 1) \in TreeIndex \ {1}
  BY <1>0, AtIs, HeightsAre, StepDown
<1>3. PICK d \in Int : d = Half(tree, At(c, h))
  <2>1. PICK e \in Int : e = tree.details[At(c, h)] BY <1>1, <1>2
  <2> QED BY <2>1 DEF Half
<1>4. PICK n \in TreeIndex \ {1} : n = At(c, h - 1) BY <1>2
<1>5. n \div 2 = At(c, h) /\ n % 2 = ChildAt(c, h) BY <1>4, StepDown
<1>6. PICK scales \in [TreeIndex -> Int] : scales = Scales(tree) BY <1>1, ScalesAre
<1>7. PICK a \in Int : a = scales[At(c, h)] BY <1>2, <1>6
<1>8. scales[n] = IF n % 2 = 0 THEN scales[n \div 2] - Half(tree, n \div 2)
                  ELSE scales[n \div 2] + Half(tree, n \div 2)
  BY <1>1, <1>6, ScalesAre
<1>9. PICK r : r = ChildAt(c, h) OBVIOUS
<1>10. scales[n] = IF r = 0 THEN a - d ELSE a + d
  <2> HIDE DEF At, ChildAt, Half
  <2> QED BY <1>3, <1>5, <1>7, <1>8, <1>9
<1>11. scales[n] = a + (IF r = 0 THEN -d ELSE d) BY <1>10
<1> QED BY <1>3, <1>4, <1>6, <1>7, <1>9, <1>11

LEMMA ScalesBelowMissing ==
  ASSUME NEW tree, SoundTree(tree), NEW c \in TreeCell, NEW h \in 0..H, At(c, h) \notin tree.nodes,
         NEW g \in 0..h
  PROVE  Scales(tree)[At(c, g)] = Scales(tree)[At(c, h)]
<1>0. H \in Nat BY Powers
<1>1. PICK top : top = Scales(tree)[At(c, h)] OBVIOUS
<1> DEFINE T == {k \in Nat : k <= h => Scales(tree)[At(c, h - k)] = top}
<1>2. 0 \in T
  <2>1. h - 0 = h BY <1>0
  <2> QED BY <2>1, <1>1
<1>3. ASSUME NEW k \in Nat, k \in T PROVE k + 1 \in T
  <2> SUFFICES ASSUME k + 1 <= h PROVE Scales(tree)[At(c, h - (k + 1))] = top OBVIOUS
  <2>1. PICK f \in 1..h : f = h - k BY <1>0
  <2>2. k <= h /\ f - 1 = h - (k + 1) /\ f \in 1..H BY <1>0, <2>1
  <2>3. Scales(tree)[At(c, f)] = top BY <1>3, <2>1, <2>2
  <2>4. tree.details[At(c, f)] = 0 BY <2>1 DEF SoundTree
  <2>5. Half(tree, At(c, f)) = 0
    <3>1. 0 \div 2 = 0 OBVIOUS
    <3> QED BY <2>4, <3>1 DEF Half
  <2>6. PICK a \in Int : a = Scales(tree)[At(c, f)] BY <2>2, ScaleBelow
  <2>7. Scales(tree)[At(c, f - 1)] = a + (IF ChildAt(c, f) = 0 THEN -0 ELSE 0)
    BY <2>2, <2>5, <2>6, ScaleBelow
  <2>8. a + (IF ChildAt(c, f) = 0 THEN -0 ELSE 0) = a BY <2>6
  <2> QED BY <2>2, <2>3, <2>6, <2>7, <2>8
<1> HIDE DEF T
<1>4. Nat \subseteq T BY <1>2, <1>3, NatInductionSet
<1>5. h - g \in T /\ h - g <= h /\ h - (h - g) = g BY <1>0, <1>4
<1> QED BY <1>1, <1>5 DEF T

-----------------------------------------------------------------------------
(* Walks down the nodes of a tree *)

Caches == [block : Block \cup {"none"}, loaded : BOOLEAN, height : 0..H, code : Nat,
           stack : [0..H -> Int], values : [0..H -> Int]]

\* From its height upwards a cache has the nodes on the way to the cell of its code.
OnPath(s, nodes) ==
  /\ s.code \in TreeCell
  /\ \A h \in s.height..H : s.stack[h] = At(s.code, h) /\ At(s.code, h) \in nodes

\* t is s but for what it remembers of lower heights.
Deeper(s, t) ==
  /\ t.block = s.block /\ t.loaded = s.loaded /\ t.code = s.code /\ t.height <= s.height

LEMMA ChildIs ==
  ASSUME NEW nodes, NEW c \in TreeCell, NEW h \in 1..H
  PROVE  ChildIn(nodes, At(c, h), c, h) = IF At(c, h - 1) \in nodes THEN At(c, h - 1) ELSE 0
BY StepDown DEF ChildIn

\* One level down to a node that there is.
CanGoDown(s, nodes) ==
  s \in Caches /\ OnPath(s, nodes) /\ s.height # 0 /\ At(s.code, s.height - 1) \in nodes
Down(s) == [s EXCEPT !.height = @ - 1, !.stack[s.height - 1] = At(s.code, s.height - 1)]

LEMMA DownIs ==
  ASSUME NEW nodes, NEW s, CanGoDown(s, nodes)
  PROVE  /\ Down(s) \in Caches /\ OnPath(Down(s), nodes) /\ Deeper(s, Down(s))
         /\ Down(s).height = s.height - 1
<1>0. H \in Nat BY Powers
<1>1. PICK c \in TreeCell, h \in 1..H : c = s.code /\ h = s.height
  <2>1. s.code \in TreeCell /\ s.height \in 0..H /\ s.height # 0 BY DEF CanGoDown, OnPath, Caches
  <2> QED BY <1>0, <2>1
<1>2. PICK b \in Block \cup {"none"}, l \in BOOLEAN, old \in [0..H -> Int], x \in [0..H -> Int] :
        /\ s = [block |-> b, loaded |-> l, height |-> h, code |-> c, stack |-> old, values |-> x]
        /\ c \in Nat
  BY <1>1 DEF CanGoDown, Caches
<1>3. \A f \in h..H : s.stack[f] = At(c, f) /\ At(c, f) \in nodes BY <1>1 DEF CanGoDown, OnPath
<1>4. At(c, h - 1) \in nodes BY <1>1 DEF CanGoDown
<1>5. h - 1 \in 0..H /\ h \in 0..H /\ h - 1 < h BY <1>0
<1>6. At(c, h - 1) \in Int BY <1>5, AtIs, IndicesAre
<1>7. PICK v \in Int : v = At(c, h - 1) BY <1>6
<1>8. PICK stack \in [0..H -> Int] : stack = [old EXCEPT ![h - 1] = v] OBVIOUS
<1>9. PICK t : t = [block |-> b, loaded |-> l, height |-> h - 1, code |-> c, stack |-> stack,
                    values |-> x]
  OBVIOUS
<1>10. Down(s) = t
  <2>1. s.height - 1 = h - 1 /\ At(s.code, s.height - 1) = v BY <1>1, <1>7
  <2>2. PICK u : u = [s EXCEPT !.height = h - 1] OBVIOUS
  <2>3. Down(s) = [u EXCEPT !.stack[h - 1] = v] BY <2>1, <2>2 DEF Down
  <2>4. u = [block |-> b, loaded |-> l, height |-> h - 1, code |-> c, stack |-> old, values |-> x]
    BY <1>2, <2>2
  <2>5. u.stack = old BY <2>4
  <2>6. [u EXCEPT !.stack[h - 1] = v] = [u EXCEPT !.stack = stack] BY <1>8, <2>5
  <2>7. [u EXCEPT !.stack = stack] = t BY <1>9, <2>4
  <2> QED BY <2>3, <2>6, <2>7
<1>11. t \in Caches BY <1>2, <1>5, <1>9 DEF Caches
<1>12. OnPath(t, nodes)
  <2>1. ASSUME NEW f \in (h - 1)..H PROVE stack[f] = At(c, f) /\ At(c, f) \in nodes
    <3>1. CASE f = h - 1 BY <1>4, <1>5, <1>7, <1>8, <3>1
    <3>2. CASE f # h - 1
      <4>1. f \in h..H /\ f \in 0..H BY <1>0, <3>2
      <4> QED BY <1>2, <1>3, <1>7, <1>8, <3>2, <4>1
    <3> QED BY <3>1, <3>2
  <2> QED BY <1>9, <2>1 DEF OnPath
<1>13. Deeper(s, t) /\ t.height = s.height - 1 BY <1>1, <1>2, <1>5, <1>9 DEF Deeper
<1> QED BY <1>10, <1>11, <1>12, <1>13

LEMMA NodeStepIs ==
  ASSUME NEW nodes, NEW g \in 0..H, NEW s \in Caches, OnPath(s, nodes), g <= s.height
  PROVE  LET t == NodeStep(nodes, g, s)
         IN  /\ t \in Caches /\ OnPath(t, nodes) /\ Deeper(s, t) /\ g <= t.height
             /\ t = s \/ t.height < s.height
             /\ t = s => s.height = g \/ At(s.code, s.height - 1) \notin nodes
<1>0. H \in Nat BY Powers
<1>1. PICK c \in TreeCell, h \in 0..H : c = s.code /\ h = s.height BY DEF OnPath, Caches
<1>2. /\ s = [block |-> s.block, loaded |-> s.loaded, height |-> h, code |-> c, stack |-> s.stack,
              values |-> s.values]
      /\ s.block \in Block \cup {"none"} /\ s.loaded \in BOOLEAN
      /\ s.stack \in [0..H -> Int] /\ s.values \in [0..H -> Int] /\ c \in Nat
  BY <1>1 DEF Caches
<1>3. \A f \in h..H : s.stack[f] = At(c, f) /\ At(c, f) \in nodes BY <1>1 DEF OnPath
<1>4. CASE h = g
  <2>1. h <= g BY <1>4
  <2>2. NodeStep(nodes, g, s) = s BY <1>1, <2>1 DEF NodeStep
  <2> QED BY <1>1, <1>4, <2>2 DEF Deeper
<1>5. CASE h # g
  <2>0. ~(h <= g) /\ h \in 1..H /\ h \in h..H /\ h - 1 \in 0..H /\ g <= h - 1 /\ h - 1 < h
    BY <1>0, <1>1, <1>5
  <2>1. s.stack[h] = At(c, h) BY <1>3, <2>0
  <2>2. ChildIn(nodes, s.stack[h], c, h) = IF At(c, h - 1) \in nodes THEN At(c, h - 1) ELSE 0
    BY <2>0, <2>1, ChildIs
  <2>3. At(c, h - 1) \in Nat \ {0} BY <2>0, AtIs, IndicesAre
  <2>4. CASE At(c, h - 1) \notin nodes
    <3>1. ChildIn(nodes, s.stack[s.height], s.code, s.height) = 0 BY <1>1, <2>2, <2>4
    <3>2. NodeStep(nodes, g, s) = s BY <3>1 DEF NodeStep
    <3> QED BY <1>1, <2>4, <3>2 DEF Deeper
  <2>5. CASE At(c, h - 1) \in nodes
    <3>1. ChildIn(nodes, s.stack[s.height], s.code, s.height) = At(c, h - 1) BY <1>1, <2>2, <2>5
    <3>2. NodeStep(nodes, g, s) = Down(s) BY <1>1, <2>0, <2>3, <3>1 DEF NodeStep, Down
    <3>3. CanGoDown(s, nodes) BY <1>1, <2>0, <2>5 DEF CanGoDown
    <3>4. PICK t : t = Down(s) OBVIOUS
    <3>5. t \in Caches /\ OnPath(t, nodes) /\ Deeper(s, t) /\ t.height = h - 1
      BY <1>1, <3>3, <3>4, DownIs
    <3>6. t # s /\ t.height < s.height /\ g <= t.height BY <1>1, <2>0, <3>5
    <3> QED BY <3>2, <3>4, <3>5, <3>6
  <2> QED BY <2>4, <2>5
<1> QED BY <1>4, <1>5

\* A walk ends at the height that is asked for, or above a node that is missing.
Walkable(s, nodes, g) == g \in 0..H /\ s \in Caches /\ OnPath(s, nodes) /\ g <= s.height

LEMMA NodeWalkIs ==
  ASSUME NEW nodes, NEW g, NEW s, Walkable(s, nodes, g)
  PROVE  LET t == NodeWalk(nodes, g, s)
         IN  /\ t \in Caches /\ OnPath(t, nodes) /\ Deeper(s, t) /\ g <= t.height
             /\ t.height = g \/ At(s.code, t.height - 1) \notin nodes
<1>0. H \in Nat /\ TreeHeight = H BY Powers DEF H
<1>a. g \in 0..H /\ s \in Caches /\ OnPath(s, nodes) /\ g <= s.height BY DEF Walkable
<1> DEFINE V == {t \in Caches : OnPath(t, nodes) /\ Deeper(s, t) /\ g <= t.height}
           step == [t \in V |-> NodeStep(nodes, g, t)]
           rank == [t \in V |-> t.height]
<1>1. s \in V BY <1>a DEF Deeper, Caches
<1>2. ASSUME NEW t \in V PROVE /\ NodeStep(nodes, g, t) \in V
                               /\ NodeStep(nodes, g, t) = t \/ NodeStep(nodes, g, t).height < t.height
                               /\ NodeStep(nodes, g, t) = t =>
                                    t.height = g \/ At(t.code, t.height - 1) \notin nodes
  <2>1. t \in Caches /\ OnPath(t, nodes) /\ Deeper(s, t) /\ g <= t.height OBVIOUS
  <2>2. PICK u : u = NodeStep(nodes, g, t) OBVIOUS
  <2>3. /\ u \in Caches /\ OnPath(u, nodes) /\ Deeper(t, u) /\ g <= u.height
        /\ u = t \/ u.height < t.height
        /\ u = t => t.height = g \/ At(t.code, t.height - 1) \notin nodes
    BY <1>a, <2>1, <2>2, NodeStepIs
  <2>4. s.height \in Int /\ t.height \in Int /\ u.height \in Int BY <1>a, <2>1, <2>3 DEF Caches
  <2>5. Deeper(s, u) BY <2>1, <2>3, <2>4 DEF Deeper
  <2> QED BY <2>2, <2>3, <2>5
<1>3. step \in [V -> V]
  <2> HIDE DEF V
  <2> QED BY <1>2
<1>4. rank \in [V -> 0..H]
  <2>1. \A t \in V : t.height \in 0..H BY DEF Caches
  <2> HIDE DEF V
  <2> QED BY <2>1
<1>5. \A t \in V : step[t] = t \/ rank[step[t]] < rank[t]
  <2> HIDE DEF V
  <2> QED BY <1>2
<1> HIDE DEF V
<1>6. PICK f \in [0..H -> V] : f = [k \in 0..H |-> IF k = 0 THEN s ELSE step[f[k - 1]]]
  <2> HIDE DEF step
  <2>1. CanWalk(H, V, s, step) BY <1>0, <1>1, <1>3 DEF CanWalk
  <2> QED BY <2>1, WalkExists
<1>8. f = [k \in 0..H |-> IF k = 0 THEN s ELSE NodeStep(nodes, g, f[k - 1])]
  <2>1. ASSUME NEW k \in 0..H, k # 0 PROVE step[f[k - 1]] = NodeStep(nodes, g, f[k - 1])
    <3>1. k - 1 \in 0..H BY <1>0, <2>1
    <3> QED BY <3>1
  <2> HIDE DEF step
  <2> QED BY <1>6, <2>1
<1>9. PICK walk : /\ walk = [k \in 0..H |-> IF k = 0 THEN s ELSE NodeStep(nodes, g, walk[k - 1])]
                  /\ NodeWalk(nodes, g, s) = walk[H]
  <2>1. \E walk : walk = [k \in 0..TreeHeight |-> IF k = 0 THEN s ELSE NodeStep(nodes, g, walk[k - 1])]
    BY <1>0, <1>8
  <2> DEFINE walk == CHOOSE walk : walk = [k \in 0..TreeHeight |->
                                            IF k = 0 THEN s ELSE NodeStep(nodes, g, walk[k - 1])]
  <2>2. walk = [k \in 0..TreeHeight |-> IF k = 0 THEN s ELSE NodeStep(nodes, g, walk[k - 1])]
    BY <2>1, Zenon
  <2>3. NodeWalk(nodes, g, s) = walk[TreeHeight] BY Zenon DEF NodeWalk
  <2> HIDE DEF walk
  <2> QED BY <1>0, <2>2, <2>3
<1>10. IsWalk(walk, H, V, step, rank)
  <2>1. walk[0] = s BY <1>0, <1>9
  <2>2. ASSUME NEW k \in 1..H, walk[k - 1] \in V PROVE walk[k] = step[walk[k - 1]]
    <3>1. k \in 0..H /\ k # 0 BY <1>0
    <3>2. walk[k] = NodeStep(nodes, g, walk[k - 1]) BY <1>9, <3>1
    <3> QED BY <2>2, <3>2
  <2> HIDE DEF step, rank
  <2> QED BY <1>1, <1>3, <1>4, <1>5, <2>1, <2>2 DEF IsWalk
<1>11. walk[H] \in V /\ step[walk[H]] = walk[H]
  <2> HIDE DEF step, rank
  <2> QED BY <1>0, <1>10, WalkEnds
<1>12. PICK t \in V : t = walk[H] BY <1>11
<1>13. NodeStep(nodes, g, t) = t BY <1>11, <1>12
<1>14. t.height = g \/ At(t.code, t.height - 1) \notin nodes BY <1>2, <1>13
<1>15. t \in Caches /\ OnPath(t, nodes) /\ Deeper(s, t) /\ g <= t.height BY DEF V
<1> QED BY <1>9, <1>12, <1>14, <1>15 DEF Deeper

-----------------------------------------------------------------------------
(* The cache between queries: nodes gives those of each block *)

GoodNodes(nodes) ==
  /\ DOMAIN nodes \subseteq Block
  /\ \A b \in DOMAIN nodes : /\ nodes[b] \subseteq TreeIndex /\ 1 \in nodes[b]
                             /\ \A n \in nodes[b] : UpFrom(n) \subseteq nodes[b]

Cached(s, nodes) ==
  /\ s \in Caches
  /\ s.loaded => s.block \in DOMAIN nodes /\ OnPath(s, nodes[s.block])
  /\ s.block \in DOMAIN nodes => s.loaded

LEMMA FromTheTop ==
  ASSUME NEW nodes, 1 \in nodes, NEW s \in Caches, s.height = H, s.stack[H] = 1, s.code \in TreeCell
  PROVE  OnPath(s, nodes)
<1>0. H \in Nat BY Powers
<1>1. \A h \in H..H : h = H BY <1>0
<1>2. At(s.code, H) = 1 BY AtTop
<1> QED BY <1>1, <1>2 DEF OnPath

LEMMA EmptyIsCached ==
  ASSUME NEW nodes, GoodNodes(nodes)
  PROVE  EmptyCache \in Caches /\ Cached(EmptyCache, nodes)
<1>0. H \in Nat /\ TreeHeight = H BY Powers DEF H
<1>1. EmptyCache = [block |-> "none", loaded |-> FALSE, height |-> H, code |-> 0,
                    stack |-> [h \in 0..H |-> 0], values |-> [h \in 0..H |-> 0]]
  BY <1>0 DEF EmptyCache
<1>2. EmptyCache \in Caches BY <1>0, <1>1 DEF Caches
<1>3. EmptyCache.block \notin DOMAIN nodes BY <1>1, QueryAssumption DEF GoodNodes
<1> QED BY <1>1, <1>2, <1>3 DEF Cached

\* Where a query starts when the block has been opened.
Starts(s, nodes) ==
  \/ s.height = H /\ s.stack[H] = 1
  \/ s.height = cache.height /\ s.stack = cache.stack /\ OnPath(cache, nodes)

LEMMA OpenedIs ==
  ASSUME NEW nodes, GoodNodes(nodes), Cached(cache, nodes), NEW b \in Block, NEW n \in TreeIndex
  PROVE  LET s == Opened(b, n, DOMAIN nodes)
         IN  /\ s \in Caches /\ s.block = b /\ s.code = Code(n)
             /\ s.loaded => b \in DOMAIN nodes /\ Starts(s, nodes[b])
             /\ b \in DOMAIN nodes => s.loaded
<1>0. H \in Nat /\ TreeHeight = H BY Powers DEF H
<1>1. PICK c \in Nat : c = Code(n) BY CodeIs, IndicesAre DEF TreeIndex
<1>2. /\ cache = [block |-> cache.block, loaded |-> cache.loaded, height |-> cache.height,
                  code |-> cache.code, stack |-> cache.stack, values |-> cache.values]
      /\ cache.block \in Block \cup {"none"} /\ cache.loaded \in BOOLEAN /\ cache.height \in 0..H
      /\ cache.stack \in [0..H -> Int] /\ cache.values \in [0..H -> Int]
  BY DEF Cached, Caches
<1>3. PICK s : s = Opened(b, n, DOMAIN nodes) OBVIOUS
<1>4. CASE b = cache.block
  <2>1. s = [block |-> cache.block, loaded |-> cache.loaded, height |-> cache.height,
             code |-> c, stack |-> cache.stack, values |-> cache.values]
    BY <1>1, <1>2, <1>3, <1>4 DEF Opened
  <2>2. s \in Caches BY <1>1, <1>2, <2>1 DEF Caches
  <2>3. s.loaded => b \in DOMAIN nodes /\ OnPath(cache, nodes[b]) BY <1>4, <2>1 DEF Cached
  <2>4. b \in DOMAIN nodes => s.loaded BY <1>4, <2>1 DEF Cached
  <2> QED BY <1>1, <1>3, <1>4, <2>1, <2>2, <2>3, <2>4 DEF Starts
<1>5. CASE b # cache.block
  <2>1. PICK stack : stack = [cache.stack EXCEPT ![H] = IF b \in DOMAIN nodes THEN 1 ELSE @] OBVIOUS
  <2>2. H \in 0..H BY <1>0
  <2>3. stack \in [0..H -> Int] /\ (b \in DOMAIN nodes => stack[H] = 1) BY <1>2, <2>1, <2>2
  <2>4. PICK l \in BOOLEAN : l <=> b \in DOMAIN nodes
    <3>1. CASE b \in DOMAIN nodes BY <3>1, Zenon
    <3>2. CASE b \notin DOMAIN nodes BY <3>2, Zenon
    <3> QED BY <3>1, <3>2, Zenon
  <2>a. (b \in DOMAIN nodes) = l BY <2>4
  <2>5. s = [block |-> b, loaded |-> l, height |-> H, code |-> c, stack |-> stack,
             values |-> cache.values]
    BY <1>0, <1>1, <1>2, <1>3, <1>5, <2>1, <2>a DEF Opened
  <2>6. s \in Caches BY <1>1, <1>2, <2>2, <2>3, <2>4, <2>5 DEF Caches
  <2>7. s.loaded <=> b \in DOMAIN nodes BY <2>4, <2>5
  <2>8. s.loaded => b \in DOMAIN nodes /\ Starts(s, nodes[b])
    <3>1. s.height = H /\ s.stack = stack BY <2>5
    <3>2. s.loaded => s.stack[H] = 1 BY <2>3, <2>7, <3>1
    <3> QED BY <2>7, <3>1, <3>2, Zenon DEF Starts
  <2>9. s.block = b /\ s.code = Code(n) BY <1>1, <2>5
  <2> QED BY <1>3, <2>6, <2>7, <2>8, <2>9, Zenon
<1> QED BY <1>4, <1>5

Resumable(s, nodes, n) ==
  /\ cache \in Caches /\ s \in Caches /\ n \in TreeIndex /\ s.code = Code(n)
  /\ 1 \in nodes /\ Starts(s, nodes)

LEMMA ResumedIs ==
  ASSUME NEW nodes, NEW n, NEW s, Resumable(s, nodes, n)
  PROVE  LET t == Resumed(s, n)
         IN  /\ t \in Caches /\ OnPath(t, nodes) /\ HeightOf(n) <= t.height
             /\ t.block = s.block /\ t.code = s.code /\ t.loaded = s.loaded
<1>0. H \in Nat /\ TreeHeight = H BY Powers DEF H
<1>a. /\ cache \in Caches /\ s \in Caches /\ n \in TreeIndex /\ s.code = Code(n)
      /\ 1 \in nodes /\ Starts(s, nodes)
  BY DEF Resumable
<1>1. s.code \in TreeCell /\ HeightOf(n) \in 0..H BY <1>a, CodeIs, HeightsAre
<1>2. CASE s.height = H
  <2>1. s.stack[H] = 1
    <3>1. CASE s.stack = cache.stack /\ s.height = cache.height /\ OnPath(cache, nodes)
      <4>1. H \in cache.height..H BY <1>0, <1>2, <3>1
      <4>2. s.stack[H] = At(cache.code, H) /\ cache.code \in TreeCell BY <3>1, <4>1 DEF OnPath
      <4> QED BY <4>2, AtTop
    <3> QED BY <1>a, <3>1 DEF Starts
  <2>2. Resumed(s, n) = s BY <1>0, <1>2 DEF Resumed
  <2>3. OnPath(s, nodes) BY <1>a, <1>1, <1>2, <2>1, FromTheTop
  <2> QED BY <1>a, <1>0, <1>1, <1>2, <2>2, <2>3
<1>3. CASE s.height # H
  <2>1. s.height = cache.height /\ s.stack = cache.stack /\ OnPath(cache, nodes) BY <1>a, <1>3 DEF Starts
  <2>2. cache.code \in TreeCell /\ cache.height \in 0..H BY <1>a, <2>1 DEF OnPath, Caches
  <2>3. PICK h : h = LastCommonAncestor(s.code, HeightOf(n), cache.code, cache.height) OBVIOUS
  <2>4. h \in 0..H /\ HeightOf(n) <= h /\ cache.height <= h /\ At(s.code, h) = At(cache.code, h)
    <3>1. PICK c \in TreeCell, d \in TreeCell, i \in 0..H, j \in 0..H :
            c = s.code /\ d = cache.code /\ i = HeightOf(n) /\ j = cache.height
      BY <1>1, <2>2
    <3>2. h = LastCommonAncestor(c, i, d, j) BY <2>3, <3>1
    <3>3. h \in 0..H /\ i <= h /\ j <= h /\ At(c, h) = At(d, h)
      <4> HIDE DEF H
      <4> QED BY <3>2, AncestorIs
    <3> QED BY <3>1, <3>3
  <2>5. PICK t : t = [s EXCEPT !.height = h] OBVIOUS
  <2>6. Resumed(s, n) = t BY <1>0, <1>3, <2>3, <2>5 DEF Resumed
  <2>7. /\ t \in Caches /\ t.height = h /\ t.stack = s.stack /\ t.code = s.code /\ t.block = s.block
        /\ t.loaded = s.loaded
    BY <1>a, <2>4, <2>5 DEF Caches
  <2>8. OnPath(t, nodes)
    <3>1. ASSUME NEW f \in h..H PROVE s.stack[f] = At(s.code, f) /\ At(s.code, f) \in nodes
      <4>1. f \in cache.height..H /\ f \in 0..H /\ h <= f BY <1>0, <2>2, <2>4
      <4>2. At(s.code, f) = At(cache.code, f) BY <1>1, <2>2, <2>4, <4>1, SameAbove
      <4> QED BY <2>1, <4>1, <4>2 DEF OnPath
    <3> QED BY <1>1, <2>7, <3>1 DEF OnPath
  <2> QED BY <2>4, <2>6, <2>7, <2>8
<1> QED BY <1>2, <1>3

\* The lowest node above an index that there is.
LEMMA FoundIs ==
  ASSUME NEW nodes, NEW n, NEW s, Resumable(s, nodes, n)
  PROVE  s.loaded =>
           LET t == NodeFound(s, nodes, n)
           IN  /\ t \in Caches /\ OnPath(t, nodes) /\ HeightOf(n) <= t.height
               /\ t.block = s.block /\ t.code = s.code /\ t.loaded
               /\ t.height = HeightOf(n) \/ At(s.code, t.height - 1) \notin nodes
<1>1. PICK u : u = Resumed(s, n) OBVIOUS
<1>2. /\ u \in Caches /\ OnPath(u, nodes) /\ HeightOf(n) <= u.height
      /\ u.block = s.block /\ u.code = s.code /\ u.loaded = s.loaded
  BY <1>1, ResumedIs
<1>3. PICK t : t = NodeWalk(nodes, HeightOf(n), u) OBVIOUS
<1>4. /\ t \in Caches /\ OnPath(t, nodes) /\ Deeper(u, t) /\ HeightOf(n) <= t.height
      /\ t.height = HeightOf(n) \/ At(u.code, t.height - 1) \notin nodes
  <2>1. n \in TreeIndex BY DEF Resumable
  <2>2. Walkable(u, nodes, HeightOf(n)) BY <1>2, <2>1, HeightsAre DEF Walkable
  <2> QED BY <1>3, <2>2, NodeWalkIs
<1>5. s.loaded => NodeFound(s, nodes, n) = t BY <1>1, <1>3 DEF NodeFound
<1> QED BY <1>2, <1>4, <1>5 DEF Deeper

-----------------------------------------------------------------------------
(* Queries for nodes *)

NodeAnswer(nodes, a) ==
  /\ a.op \in {"node", "allocate"}
  /\ IF a.op = "allocate" THEN a.result = a.index /\ UpFrom(a.index) \subseteq nodes[a.block]
     ELSE IF a.block \in DOMAIN nodes
     THEN LET above == UpFrom(a.index) \cap nodes[a.block]
          IN  a.result \in above /\ \A m \in above : InSubtree(m, a.result) => m = a.result
     ELSE a.result = 0

Lowest(nodes, n, h) ==
  /\ n \in TreeIndex /\ h \in HeightOf(n)..H /\ At(Code(n), h) \in nodes
  /\ h = HeightOf(n) \/ At(Code(n), h - 1) \notin nodes

LEMMA LowestIs ==
  ASSUME NEW nodes, \A m \in nodes : UpFrom(m) \subseteq nodes, NEW n, NEW h, Lowest(nodes, n, h)
  PROVE  /\ At(Code(n), h) \in UpFrom(n) \cap nodes
         /\ \A m \in UpFrom(n) \cap nodes : InSubtree(m, At(Code(n), h)) => m = At(Code(n), h)
<1>0. H \in Nat BY Powers
<1>a. /\ n \in TreeIndex /\ h \in HeightOf(n)..H /\ At(Code(n), h) \in nodes
      /\ h = HeightOf(n) \/ At(Code(n), h - 1) \notin nodes
  BY DEF Lowest
<1>1. HeightOf(n) \in 0..H /\ Code(n) \in TreeCell /\ UpFrom(n) = {At(Code(n), g) : g \in HeightOf(n)..H}
  BY <1>a, UpFromIndex
<1>2. ASSUME NEW m \in UpFrom(n) \cap nodes, InSubtree(m, At(Code(n), h)) PROVE m = At(Code(n), h)
  <2>1. PICK g \in HeightOf(n)..H : m = At(Code(n), g) BY <1>1
  <2>2. g \in 0..H /\ h \in 0..H BY <1>a, <1>0, <1>1
  <2>3. UpFrom(m) = {At(Code(n), f) : f \in g..H} BY <1>1, <2>1, <2>2, UpFromIs
  <2>4. PICK f \in g..H : At(Code(n), h) = At(Code(n), f) BY <1>2, <2>3 DEF InSubtree
  <2>5. f \in 0..H BY <2>2
  <2>6. h = f BY <1>1, <2>2, <2>4, <2>5, AtIs
  <2>7. CASE g = h BY <2>1, <2>7
  <2>8. CASE g # h
    <3>1. PICK low \in 0..H : low = HeightOf(n) BY <1>1
    <3>2. low <= g /\ g <= h /\ h <= H BY <2>1, <2>2, <2>4, <2>6, <3>1
    <3>a. h - 1 \in g..H /\ h # HeightOf(n) BY <2>2, <2>8, <3>1, <3>2, <1>0
    <3>3. At(Code(n), h - 1) \in UpFrom(m) BY <2>3, <3>a
    <3>4. At(Code(n), h - 1) \in nodes BY <3>3
    <3> QED BY <1>a, <3>a, <3>4
  <2> QED BY <2>7, <2>8
<1> QED BY <1>a, <1>1, <1>2

\* getNode.
LEMMA GetNodeIs ==
  ASSUME GetNode, GoodNodes(allocated), Cached(cache, allocated)
  PROVE  Cached(cache', allocated) /\ NodeAnswer(allocated, answer')
<1>0. H \in Nat BY Powers
<1>1. PICK b \in Block, n \in TreeIndex :
        LET s == Opened(b, n, DOMAIN allocated)
            end == NodeFound(s, IF s.loaded THEN allocated[b] ELSE {}, n)
        IN  cache' = end /\ Asked("node", b, n, {}, Found(end))
  BY DEF GetNode
<1>2. PICK s : s = Opened(b, n, DOMAIN allocated) OBVIOUS
<1>3. /\ s \in Caches /\ s.block = b /\ s.code = Code(n)
      /\ s.loaded => b \in DOMAIN allocated /\ Starts(s, allocated[b])
      /\ b \in DOMAIN allocated => s.loaded
  BY <1>2, OpenedIs
<1>4. PICK nodes : nodes = allocated[b] OBVIOUS
<1>5. PICK t : t = NodeFound(s, IF s.loaded THEN nodes ELSE {}, n) OBVIOUS
<1>6. PICK r : r = Found(t) OBVIOUS
<1>7. cache' = t /\ answer' = [op |-> "node", block |-> b, index |-> n, mask |-> {}, result |-> r]
  BY <1>1, <1>2, <1>4, <1>5, <1>6 DEF Asked
<1>8. CASE ~s.loaded
  <2>1. t = s BY <1>5, <1>8 DEF NodeFound
  <2>2. r = 0 BY <1>6, <1>8, <2>1 DEF Found
  <2>3. Cached(t, allocated) BY <1>3, <1>8, <2>1 DEF Cached
  <2>4. NodeAnswer(allocated, [op |-> "node", block |-> b, index |-> n, mask |-> {}, result |-> r])
    BY <1>3, <1>8, <2>2 DEF NodeAnswer
  <2> QED BY <1>7, <2>3, <2>4
<1>9. CASE s.loaded
  <2>1. b \in DOMAIN allocated /\ Starts(s, nodes) BY <1>3, <1>4, <1>9
  <2>2. 1 \in nodes /\ nodes \subseteq TreeIndex /\ \A m \in nodes : UpFrom(m) \subseteq nodes
    BY <1>4, <2>1 DEF GoodNodes
  <2>3. t = NodeFound(s, nodes, n) BY <1>5, <1>9
  <2>4. cache \in Caches BY DEF Cached
  <2>5. /\ t \in Caches /\ OnPath(t, nodes) /\ HeightOf(n) <= t.height
        /\ t.block = b /\ t.code = Code(n) /\ t.loaded
        /\ t.height = HeightOf(n) \/ At(Code(n), t.height - 1) \notin nodes
    <3>1. Resumable(s, nodes, n) BY <1>3, <2>1, <2>2, <2>4 DEF Resumable
    <3> QED BY <1>3, <1>9, <2>3, <3>1, FoundIs
  <2>6. PICK h \in HeightOf(n)..H : h = t.height
    <3>1. t.height \in 0..H /\ HeightOf(n) \in 0..H BY <2>5, HeightsAre DEF Caches
    <3> QED BY <2>5, <3>1, <1>0
  <2>7. t.stack[h] = At(Code(n), h) /\ At(Code(n), h) \in nodes
    <3>1. h \in t.height..H BY <2>6
    <3> QED BY <2>5, <2>6, <3>1 DEF OnPath
  <2>8. r = At(Code(n), h) BY <1>6, <2>5, <2>6, <2>7 DEF Found
  <2>9. /\ r \in UpFrom(n) \cap nodes
        /\ \A m \in UpFrom(n) \cap nodes : InSubtree(m, r) => m = r
    <3>1. Lowest(nodes, n, h) BY <2>5, <2>6, <2>7 DEF Lowest
    <3> QED BY <2>2, <2>8, <3>1, LowestIs
  <2>10. NodeAnswer(allocated, [op |-> "node", block |-> b, index |-> n, mask |-> {}, result |-> r])
    BY <1>4, <2>1, <2>9 DEF NodeAnswer
  <2>11. Cached(t, allocated) BY <1>4, <2>1, <2>5 DEF Cached
  <2> QED BY <1>7, <2>10, <2>11
<1> QED BY <1>8, <1>9

\* What getOrAllocateBlock opens, if nodes has the block as well by then.
LEMMA OpenedOrAllocatedIs ==
  ASSUME NEW nodes, GoodNodes(nodes), Cached(cache, nodes), NEW b \in Block, NEW n \in TreeIndex
  PROVE  LET s == OpenedOrAllocated(b, n)
         IN  /\ s \in Caches /\ s.block = b /\ s.code = Code(n) /\ s.loaded
             /\ \/ s.height = H /\ s.stack[H] = 1
                \/ b \in DOMAIN nodes /\ Starts(s, nodes[b])
<1>0. H \in Nat /\ TreeHeight = H BY Powers DEF H
<1>1. PICK c \in Nat : c = Code(n) BY CodeIs, IndicesAre DEF TreeIndex
<1>2. /\ cache = [block |-> cache.block, loaded |-> cache.loaded, height |-> cache.height,
                  code |-> cache.code, stack |-> cache.stack, values |-> cache.values]
      /\ cache.block \in Block \cup {"none"} /\ cache.loaded \in BOOLEAN /\ cache.height \in 0..H
      /\ cache.stack \in [0..H -> Int] /\ cache.values \in [0..H -> Int]
  BY DEF Cached, Caches
<1>3. PICK s : s = OpenedOrAllocated(b, n) OBVIOUS
<1>4. CASE b = cache.block /\ cache.loaded
  <2>1. s = [cache EXCEPT !.code = c] BY <1>1, <1>3, <1>4 DEF OpenedOrAllocated
  <2>2. s = [block |-> cache.block, loaded |-> cache.loaded, height |-> cache.height,
             code |-> c, stack |-> cache.stack, values |-> cache.values]
    BY <1>2, <2>1
  <2>3. s \in Caches BY <1>1, <1>2, <2>2 DEF Caches
  <2>4. b \in DOMAIN nodes /\ OnPath(cache, nodes[b]) BY <1>4 DEF Cached
  <2> QED BY <1>1, <1>3, <1>4, <2>2, <2>3, <2>4 DEF Starts
<1>5. CASE ~(b = cache.block /\ cache.loaded)
  <2>1. PICK stack : stack = [cache.stack EXCEPT ![H] = 1] OBVIOUS
  <2>2. H \in 0..H BY <1>0
  <2>3. stack \in [0..H -> Int] /\ stack[H] = 1 BY <1>2, <2>1, <2>2
  <2>4. s = [block |-> b, loaded |-> TRUE, height |-> H, code |-> c, stack |-> stack,
             values |-> cache.values]
    BY <1>0, <1>1, <1>2, <1>3, <1>5, <2>1 DEF OpenedOrAllocated
  <2>5. s \in Caches BY <1>1, <1>2, <2>2, <2>3, <2>4 DEF Caches
  <2> QED BY <1>1, <1>3, <2>3, <2>4, <2>5
<1> QED BY <1>4, <1>5

\* getOrAllocateNode.
LEMMA GetOrAllocateIs ==
  ASSUME GetOrAllocateNode, GoodNodes(allocated), Cached(cache, allocated)
  PROVE  /\ GoodNodes(allocated') /\ Cached(cache', allocated')
         /\ NodeAnswer(allocated', answer')
<1>0. H \in Nat BY Powers
<1>1. PICK b \in Block, n \in Allocatable :
        LET s == Resumed(OpenedOrAllocated(b, n), n)
            end == NodeWalk(TreeIndex, HeightOf(n), s)
            old == IF b \in DOMAIN allocated THEN allocated[b] ELSE {1}
            new == old \cup {end.stack[h] : h \in end.height..s.height}
        IN  /\ cache' = end
            /\ allocated' = [c \in DOMAIN allocated \cup {b} |-> IF c = b THEN new ELSE allocated[c]]
            /\ Asked("allocate", b, n, {}, Found(end))
  BY DEF GetOrAllocateNode
<1>2. n \in TreeIndex BY QueryAssumption
<1>3. PICK old : old = IF b \in DOMAIN allocated THEN allocated[b] ELSE {1} OBVIOUS
<1>4. PICK o : o = OpenedOrAllocated(b, n) OBVIOUS
<1>5. /\ o \in Caches /\ o.block = b /\ o.code = Code(n) /\ o.loaded
      /\ \/ o.height = H /\ o.stack[H] = 1
         \/ b \in DOMAIN allocated /\ Starts(o, allocated[b])
  BY <1>2, <1>4, OpenedOrAllocatedIs
<1>6. Starts(o, old) BY <1>3, <1>5 DEF Starts
<1>7. old \subseteq TreeIndex /\ 1 \in old /\ \A m \in old : UpFrom(m) \subseteq old
  <2>1. CASE b \in DOMAIN allocated BY <1>3, <2>1 DEF GoodNodes
  <2>2. CASE b \notin DOMAIN allocated
    <3>1. old = {1} /\ 1 \in Level(H) /\ H \in 0..H BY <1>0, <1>3, <2>2, IndicesAre
    <3>2. 1 \in TreeIndex /\ HeightOf(1) = H BY <3>1, HeightsAre
    <3>3. Code(1) \in TreeCell /\ UpFrom(1) = {At(Code(1), g) : g \in H..H} BY <3>2, UpFromIndex
    <3>4. At(Code(1), H) = 1 /\ H..H = {H} BY <1>0, <3>3, AtTop
    <3>5. UpFrom(1) = {1} BY <3>3, <3>4
    <3> QED BY <3>1, <3>2, <3>5
  <2> QED BY <2>1, <2>2
<1>8. PICK s : s = Resumed(o, n) OBVIOUS
<1>9. /\ s \in Caches /\ OnPath(s, old) /\ HeightOf(n) <= s.height
      /\ s.block = b /\ s.code = Code(n) /\ s.loaded
  <2>1. cache \in Caches BY DEF Cached
  <2>2. Resumable(o, old, n) BY <1>2, <1>5, <1>6, <1>7, <2>1 DEF Resumable
  <2> QED BY <1>5, <1>8, <2>2, ResumedIs
<1>10. OnPath(s, TreeIndex) BY <1>7, <1>9 DEF OnPath
<1>11. PICK t : t = NodeWalk(TreeIndex, HeightOf(n), s) OBVIOUS
<1>12. /\ t \in Caches /\ OnPath(t, TreeIndex) /\ Deeper(s, t) /\ HeightOf(n) <= t.height
       /\ t.height = HeightOf(n) \/ At(s.code, t.height - 1) \notin TreeIndex
  <2>1. Walkable(s, TreeIndex, HeightOf(n)) BY <1>2, <1>9, <1>10, HeightsAre DEF Walkable
  <2> QED BY <1>11, <2>1, NodeWalkIs
<1>13. PICK c \in TreeCell, g \in 0..H, top \in 0..H :
         /\ c = Code(n) /\ g = HeightOf(n) /\ top = s.height /\ g <= top
  BY <1>2, <1>9, CodeIs, HeightsAre DEF Caches
<1>14. t.height = g /\ t.code = c /\ t.block = b /\ t.loaded
  <2>1. PICK h \in 0..H : h = t.height BY <1>12 DEF Caches
  <2>2. CASE h # g
    <3>1. h - 1 \in 0..H BY <1>0, <1>12, <1>13, <2>1, <2>2
    <3>2. At(c, h - 1) \in TreeIndex BY <3>1, AtIs
    <3> QED BY <1>9, <1>12, <1>13, <2>1, <2>2, <3>2
  <2> QED BY <1>9, <1>12, <1>13, <2>1, <2>2 DEF Deeper
<1>15. \A h \in g..H : t.stack[h] = At(c, h) BY <1>12, <1>14 DEF OnPath
<1>16. PICK new : new = old \cup {t.stack[h] : h \in t.height..s.height} OBVIOUS
<1>17. new = old \cup {At(c, h) : h \in g..top}
  <2>1. t.height..s.height = g..top BY <1>13, <1>14
  <2>2. \A h \in g..top : t.stack[h] = At(c, h)
    <3>1. \A h \in g..top : h \in g..H BY <1>0, <1>13
    <3> QED BY <1>15, <3>1
  <2> QED BY <1>16, <2>1, <2>2
<1>18. \A h \in g..H : At(c, h) \in new
  <2>1. ASSUME NEW h \in g..H PROVE At(c, h) \in new
    <3>1. h \in g..top \/ h \in top..H BY <1>13
    <3>2. h \in top..H => At(c, h) \in old BY <1>9, <1>13 DEF OnPath
    <3> QED BY <1>17, <3>1, <3>2
  <2> QED BY <2>1
<1>19. new \subseteq TreeIndex /\ 1 \in new
  <2>1. \A h \in g..top : h \in 0..H BY <1>0, <1>13
  <2>2. \A h \in g..top : At(c, h) \in TreeIndex BY <2>1, AtIs
  <2> QED BY <1>7, <1>17, <2>2
<1>20. \A m \in new : UpFrom(m) \subseteq new
  <2>1. ASSUME NEW h \in g..top PROVE UpFrom(At(c, h)) \subseteq new
    <3>1. h \in 0..H /\ \A f \in h..H : f \in g..H BY <1>0, <1>13
    <3>2. UpFrom(At(c, h)) = {At(c, f) : f \in h..H} BY <3>1, UpFromIs
    <3> QED BY <1>18, <3>1, <3>2
  <2> QED BY <1>7, <1>17, <2>1
<1>21. Found(t) = n
  <2>1. g \in g..H BY <1>13
  <2>2. t.stack[g] = At(c, g) BY <1>15, <2>1
  <2>3. At(c, g) = n BY <1>2, <1>13, CodeIs
  <2> QED BY <1>14, <2>2, <2>3 DEF Found
<1>22. UpFrom(n) \subseteq new
  <2>1. n \in new
    <3>1. g \in g..H /\ At(c, g) = n BY <1>2, <1>13, CodeIs
    <3> QED BY <1>18, <3>1
  <2> QED BY <1>20, <2>1
<1>23. PICK nodes : nodes = [d \in DOMAIN allocated \cup {b} |-> IF d = b THEN new ELSE allocated[d]] OBVIOUS
<1>24. /\ cache' = t /\ allocated' = nodes
       /\ answer' = [op |-> "allocate", block |-> b, index |-> n, mask |-> {}, result |-> n]
  BY <1>1, <1>3, <1>4, <1>8, <1>11, <1>16, <1>21, <1>23 DEF Asked
<1>25. DOMAIN nodes = DOMAIN allocated \cup {b} /\ nodes[b] = new BY <1>23
<1>26. GoodNodes(nodes) BY <1>19, <1>20, <1>23, <1>25 DEF GoodNodes
<1>27. OnPath(t, new) BY <1>14, <1>15, <1>18 DEF OnPath
<1>28. Cached(t, nodes) BY <1>12, <1>14, <1>25, <1>27 DEF Cached
<1>29. NodeAnswer(nodes, [op |-> "allocate", block |-> b, index |-> n, mask |-> {}, result |-> n])
  BY <1>22, <1>25 DEF NodeAnswer
<1> QED BY <1>24, <1>26, <1>28, <1>29

-----------------------------------------------------------------------------
(* The classified map *)

Below(cells, n) == {cells[c] : c \in {d \in TreeCell : InSubtree(d, n)}}

LEMMA HomogeneousIs ==
  ASSUME NEW S \in SUBSET Class PROVE Homogeneous(S) <=> \E x : S = {x}
<1>1. IsFiniteSet(Class)
  <2>1. IsFiniteSet({"free"}) /\ IsFiniteSet({"occupied"}) /\ IsFiniteSet({"unobserved"})
    BY FS_Singleton
  <2>2. IsFiniteSet({"free"} \cup {"occupied"}) BY <2>1, FS_Union
  <2>3. IsFiniteSet(({"free"} \cup {"occupied"}) \cup {"unobserved"}) BY <2>1, <2>2, FS_Union
  <2>4. Class = ({"free"} \cup {"occupied"}) \cup {"unobserved"} BY DEF Class
  <2> QED BY <2>3, <2>4
<1>2. IsFiniteSet(S) BY <1>1, FS_Subset
<1> QED BY <1>2, FS_Singleton DEF Homogeneous

LEMMA ClassesAreClasses ==
  /\ \A value : ClassOf(value) \in Class
  /\ \A tree, near, c : ClassOfCell(tree, near, c) \in Class
BY DEF ClassOf, ClassOfCell, Class

\* The cells below an index are those whose way up passes it.
LEMMA CellsBelow ==
  ASSUME NEW c \in TreeCell, NEW n \in TreeIndex
  PROVE  InSubtree(c, n) <=> At(c, HeightOf(n)) = n
<1>0. H \in Nat /\ 0 \in 0..H /\ HeightOf(n) \in 0..H BY Powers, HeightsAre
<1>1. At(c, 0) = c
  <2>1. PICK m \in Int : m = c BY IndicesAre DEF TreeIndex
  <2>2. m \div 1 = m BY <2>1
  <2> QED BY <2>1, <2>2, Powers DEF At
<1>2. UpFrom(c) = {At(c, g) : g \in 0..H} BY <1>0, <1>1, UpFromIs
<1>3. \A g \in 0..H : At(c, g) = n => g = HeightOf(n) BY AtIs
<1> QED BY <1>0, <1>2, <1>3 DEF InSubtree

LEMMA CellsBelowParts ==
  ASSUME NEW c \in TreeCell, NEW n \in TreeNode
  PROVE  /\ InSubtree(c, n) <=> InSubtree(c, 2 * n) \/ InSubtree(c, 2 * n + 1)
         /\ 2 * n \in TreeIndex /\ 2 * n + 1 \in TreeIndex
<1>0. /\ n \in TreeIndex /\ HeightOf(n) \in 1..H /\ 2 * n + 0 \in TreeIndex /\ 2 * n + 1 \in TreeIndex
      /\ HeightOf(2 * n + 0) = HeightOf(n) - 1 /\ HeightOf(2 * n + 1) = HeightOf(n) - 1
      /\ (2 * n + 0) \div 2 = n /\ (2 * n + 1) \div 2 = n
  BY ChildrenAre
<1>1. 2 * n + 0 = 2 * n /\ n \in Int
  <2>1. n \in Int BY <1>0, IndicesAre
  <2> QED BY <2>1
<1>2. PICK h \in 1..H : h = HeightOf(n) BY <1>0
<1>3. /\ ChildAt(c, h) \in {0, 1} /\ At(c, h - 1) = 2 * At(c, h) + ChildAt(c, h)
      /\ At(c, h - 1) \div 2 = At(c, h)
  BY StepDown
<1>4. At(c, h) = n => At(c, h - 1) = 2 * n + 0 \/ At(c, h - 1) = 2 * n + 1 BY <1>3
<1>5. At(c, h - 1) = 2 * n + 0 \/ At(c, h - 1) = 2 * n + 1 => At(c, h) = n BY <1>0, <1>3
<1>6. /\ InSubtree(c, n) <=> At(c, h) = n
      /\ InSubtree(c, 2 * n + 0) <=> At(c, h - 1) = 2 * n + 0
      /\ InSubtree(c, 2 * n + 1) <=> At(c, h - 1) = 2 * n + 1
  BY <1>0, <1>2, CellsBelow
<1> QED BY <1>0, <1>1, <1>4, <1>5, <1>6

\* There is a cell below each index, and those below an index are below all that
\* is above it.
LEMMA BelowIs ==
  ASSUME NEW cells \in [TreeCell -> Class], NEW n \in TreeIndex
  PROVE  /\ Below(cells, n) \subseteq Class /\ Below(cells, n) # {}
         /\ \A m \in UpFrom(n) : m \in TreeIndex /\ Below(cells, n) \subseteq Below(cells, m)
         /\ n \in TreeNode => Below(cells, n) = Below(cells, 2 * n) \cup Below(cells, 2 * n + 1)
         /\ n \in TreeCell => Below(cells, n) = {cells[n]}
<1>0. H \in Nat BY Powers
<1>1. /\ HeightOf(n) \in 0..H /\ Code(n) \in TreeCell /\ At(Code(n), HeightOf(n)) = n
      /\ UpFrom(n) = {At(Code(n), g) : g \in HeightOf(n)..H}
  BY UpFromIndex, CodeIs
<1>2. cells[Code(n)] \in Below(cells, n) BY <1>1, CellsBelow DEF Below
<1>3. ASSUME NEW m \in UpFrom(n) PROVE m \in TreeIndex /\ Below(cells, n) \subseteq Below(cells, m)
  <2>1. PICK g \in HeightOf(n)..H : m = At(Code(n), g) BY <1>1
  <2>2. g \in 0..H /\ HeightOf(n) <= g BY <1>0, <1>1
  <2>3. m \in TreeIndex /\ HeightOf(m) = g BY <1>1, <2>1, <2>2, AtIs
  <2>4. ASSUME NEW c \in TreeCell, InSubtree(c, n) PROVE InSubtree(c, m)
    <3>1. At(c, HeightOf(n)) = At(Code(n), HeightOf(n)) BY <1>1, <2>4, CellsBelow
    <3>2. At(c, g) = At(Code(n), g) BY <1>1, <2>2, <3>1, SameAbove
    <3> QED BY <2>1, <2>3, <3>2, CellsBelow
  <2> QED BY <2>3, <2>4 DEF Below
<1>4. ASSUME n \in TreeNode PROVE Below(cells, n) = Below(cells, 2 * n) \cup Below(cells, 2 * n + 1)
  <2>1. \A c \in TreeCell : InSubtree(c, n) <=> InSubtree(c, 2 * n) \/ InSubtree(c, 2 * n + 1)
    BY <1>4, CellsBelowParts
  <2> QED BY <2>1 DEF Below
<1>5. ASSUME n \in TreeCell PROVE Below(cells, n) = {cells[n]}
  <2>1. HeightOf(n) = 0 BY <1>5, HeightsAre
  <2>2. ASSUME NEW c \in TreeCell PROVE InSubtree(c, n) <=> c = n
    <3>1. InSubtree(c, n) <=> At(c, 0) = n BY <2>1, CellsBelow
    <3>2. PICK m \in Int : m = c BY IndicesAre DEF TreeIndex
    <3>3. m \div 1 = m BY <3>2
    <3>4. At(c, 0) = c BY <3>2, <3>3, Powers DEF At
    <3> QED BY <3>1, <3>4
  <2> QED BY <1>5, <2>2 DEF Below
<1>6. Below(cells, n) \subseteq Class BY DEF Below
<1> QED BY <1>2, <1>3, <1>4, <1>5, <1>6

\* Which masks are right: those of the regions below the nodes, unless a region
\* above them has a single class.
SoundClasses(map, cells) ==
  /\ map.nodes \subseteq TreeNode /\ 1 \in map.nodes
  /\ \A n \in map.nodes : UpFrom(n) \subseteq map.nodes
  /\ map.masks \in [TreeIndex \ {1} -> SUBSET Class] /\ cells \in [TreeCell -> Class]
  /\ \A n \in TreeIndex \ {1} :
       /\ n \div 2 \in map.nodes
       /\ \A a \in UpFrom(n) \ {1, n} : ~Homogeneous(map.masks[a])
       => /\ map.masks[n] = Below(cells, n)
          /\ n \in TreeNode \ map.nodes => Homogeneous(map.masks[n])

MaskBody(tree, with_esdf, near, f, n) ==
  IF n = 1 \/ Descends(tree, with_esdf, n) THEN f[2 * n] \cup f[2 * n + 1]
  ELSE IF n \in near /\ ClassOf(Scales(tree)[n]) = "free" THEN {"occupied"}
  ELSE {ClassOf(Scales(tree)[n])}

LEMMA TopIs == 1 \in TreeIndex /\ 1 \in TreeNode /\ HeightOf(1) = H
<1>1. H \in 0..H /\ H # 0 /\ 1 \in Level(H) BY Powers, IndicesAre
<1> QED BY <1>1, HeightsAre

LEMMA MasksExist ==
  ASSUME NEW tree, NEW with_esdf, NEW near
  PROVE  ClassMasks(tree, with_esdf, near)
           = [n \in TreeIndex |-> MaskBody(tree, with_esdf, near, ClassMasks(tree, with_esdf, near), n)]
<1>0. H \in Nat BY Powers
<1> DEFINE D == TreeIndex
           V == SUBSET Class
           rank == [n \in D |-> HeightOf(n)]
           Body(f, n) == MaskBody(tree, with_esdf, near, f, n)
           G == [f \in [D -> V] |-> [n \in D |-> Body(f, n)]]
<1>1. rank \in [D -> 0..H] BY HeightsAre
<1>2. ASSUME NEW n \in D, n = 1 \/ Descends(tree, with_esdf, n)
      PROVE  2 * n \in D /\ 2 * n + 1 \in D /\ rank[2 * n] < rank[n] /\ rank[2 * n + 1] < rank[n]
  <2>1. n \in TreeNode BY <1>2, TopIs DEF Descends
  <2>2. /\ 2 * n + 0 \in D /\ 2 * n + 1 \in D /\ HeightOf(n) \in 1..H
        /\ HeightOf(2 * n + 0) = HeightOf(n) - 1 /\ HeightOf(2 * n + 1) = HeightOf(n) - 1
    BY <2>1, ChildrenAre
  <2>3. 2 * n + 0 = 2 * n
    <3>1. n \in Nat BY IndicesAre
    <3> QED BY <3>1
  <2> QED BY <2>2, <2>3
<1>3. ASSUME NEW f \in [D -> V], NEW n \in D PROVE Body(f, n) \in V
  <2>1. CASE n = 1 \/ Descends(tree, with_esdf, n)
    <3>1. f[2 * n] \in V /\ f[2 * n + 1] \in V
      <4> HIDE DEF rank
      <4> QED BY <2>1, <1>2
    <3> QED BY <2>1, <3>1 DEF MaskBody
  <2>2. CASE ~(n = 1 \/ Descends(tree, with_esdf, n))
    <3>1. ClassOf(Scales(tree)[n]) \in Class /\ "occupied" \in Class BY ClassesAreClasses DEF Class
    <3> QED BY <2>2, <3>1 DEF MaskBody
  <2> QED BY <2>1, <2>2
<1>4. G \in [[D -> V] -> [D -> V]]
  <2> HIDE DEF Body
  <2> QED BY <1>3
<1>5. [D -> V] # {} BY [n \in D |-> {}] \in [D -> V]
<1>6. \A f, g \in [D -> V] : \A x \in D :
        (\A y \in D : rank[y] < rank[x] => f[y] = g[y]) => G[f][x] = G[g][x]
  <2> SUFFICES ASSUME NEW f \in [D -> V], NEW g \in [D -> V], NEW x \in D,
                      \A y \in D : rank[y] < rank[x] => f[y] = g[y]
               PROVE  Body(f, x) = Body(g, x)
    OBVIOUS
  <2>1. CASE x = 1 \/ Descends(tree, with_esdf, x)
    <3>1. f[2 * x] = g[2 * x] /\ f[2 * x + 1] = g[2 * x + 1]
      <4> HIDE DEF rank
      <4> QED BY <2>1, <1>2
    <3> QED BY <2>1, <3>1 DEF MaskBody
  <2>2. CASE ~(x = 1 \/ Descends(tree, with_esdf, x)) BY <2>2 DEF MaskBody
  <2> QED BY <2>1, <2>2
<1>7. \E f \in [D -> V] : f = G[f]
  <2> HIDE DEF D, V, rank, G
  <2>1. IsRecursion(G, D, V, rank, H) BY <1>1, <1>4, <1>5, <1>6 DEF IsRecursion
  <2> QED BY <1>0, <2>1, FixedPoint
<1>8. \E f : f = [n \in TreeIndex |-> Body(f, n)] BY <1>7
<1> QED BY <1>8, Zenon DEF ClassMasks, MaskBody

\* What an update gets, and the classes of the cells then.
Updating(tree, with_esdf, near, cells) ==
  /\ SoundTree(tree) /\ with_esdf \in BOOLEAN /\ near \in SUBSET TreeCell
  /\ ~with_esdf => near = {}
  /\ cells = [c \in TreeCell |-> ClassOfCell(tree, near, c)]

\* The masks that it computes are right, and what it does not descend into has one class.
MasksRight(tree, with_esdf, near, cells) ==
  /\ cells \in [TreeCell -> Class]
  /\ \A n \in TreeIndex : ClassMasks(tree, with_esdf, near)[n] = Below(cells, n)
  /\ \A n \in TreeIndex \ {1} : ~Descends(tree, with_esdf, n) => \E x : Below(cells, n) = {x}

LEMMA MasksAre ==
  ASSUME NEW tree, NEW with_esdf, NEW near, NEW cells, Updating(tree, with_esdf, near, cells)
  PROVE  MasksRight(tree, with_esdf, near, cells)
<1>0. H \in Nat BY Powers
<1>a. /\ SoundTree(tree) /\ with_esdf \in BOOLEAN /\ near \in SUBSET TreeCell
      /\ ~with_esdf => near = {}
      /\ cells = [c \in TreeCell |-> ClassOfCell(tree, near, c)]
  BY DEF Updating
<1>1. cells \in [TreeCell -> Class] BY <1>a, ClassesAreClasses
<1>2. PICK scales \in [TreeIndex -> Int] : scales = Scales(tree) BY <1>a, ScalesAre DEF SoundTree
<1>3. ASSUME NEW c \in TreeCell PROVE cells[c] = IF c \in near /\ ClassOf(scales[c]) = "free"
                                                 THEN "occupied" ELSE ClassOf(scales[c])
  <2>1. CellsOf(tree) = [d \in TreeCell |-> scales[d]] BY <1>2 DEF CellsOf
  <2>2. CellsOf(tree)[c] = scales[c] BY <2>1
  <2> QED BY <1>a, <2>2 DEF ClassOfCell
\* What has no node in the tree, and is not descended into, has one class.
<1>4. ASSUME NEW n \in TreeIndex, n # 1, ~Descends(tree, with_esdf, n)
      PROVE  Below(cells, n) = IF n \in near /\ ClassOf(scales[n]) = "free"
                               THEN {"occupied"} ELSE {ClassOf(scales[n])}
  <2>1. CASE n \in TreeCell BY <1>1, <1>3, <2>1, BelowIs
  <2>2. CASE n \notin TreeCell
    <3>1. n \in TreeNode /\ n \notin near BY <1>a, <2>2 DEF TreeIndex
    <3>2. n \notin tree.nodes /\ ~(with_esdf /\ ClassOf(scales[n]) = "free")
      BY <1>2, <1>4, <3>1 DEF Descends
    <3>3. ASSUME NEW c \in TreeCell, InSubtree(c, n) PROVE cells[c] = ClassOf(scales[n])
      <4>1. PICK h \in 0..H : h = HeightOf(n) BY HeightsAre
      <4>2. At(c, h) = n BY <3>3, <4>1, CellsBelow
      <4>3. 0 \in 0..h BY <1>0, <4>1
      <4>4. scales[At(c, 0)] = scales[n] BY <1>a, <1>2, <3>2, <4>2, <4>3, ScalesBelowMissing
      <4>5. At(c, 0) = c
        <5>1. PICK m \in Int : m = c BY IndicesAre DEF TreeIndex
        <5>2. m \div 1 = m BY <5>1
        <5> QED BY <5>1, <5>2, Powers DEF At
      <4>6. ~(c \in near /\ ClassOf(scales[n]) = "free") BY <1>a, <3>2
      <4> QED BY <1>3, <4>4, <4>5, <4>6
    <3>4. Below(cells, n) # {} BY <1>1, BelowIs
    <3>5. Below(cells, n) = {ClassOf(scales[n])} BY <3>3, <3>4 DEF Below
    <3> QED BY <3>1, <3>5
  <2> QED BY <2>1, <2>2
<1> DEFINE mask == ClassMasks(tree, with_esdf, near)
<1>5. \A n \in TreeIndex : mask[n] = MaskBody(tree, with_esdf, near, mask, n)
  <2>1. mask = [n \in TreeIndex |-> MaskBody(tree, with_esdf, near, mask, n)] BY MasksExist
  <2> HIDE DEF mask
  <2> QED BY <2>1
<1> HIDE DEF mask
<1> DEFINE T == {k \in Nat : \A n \in TreeIndex : HeightOf(n) < k => mask[n] = Below(cells, n)}
<1>6. 0 \in T
  <2>1. \A n \in TreeIndex : ~(HeightOf(n) < 0) BY HeightsAre
  <2> QED BY <2>1
<1>7. ASSUME NEW k \in Nat, k \in T PROVE k + 1 \in T
  <2> SUFFICES ASSUME NEW n \in TreeIndex, HeightOf(n) < k + 1 PROVE mask[n] = Below(cells, n)
    OBVIOUS
  <2>1. CASE n = 1 \/ Descends(tree, with_esdf, n)
    <3>1. n \in TreeNode BY <2>1, TopIs DEF Descends
    <3>2. /\ 2 * n + 0 \in TreeIndex /\ 2 * n + 1 \in TreeIndex /\ HeightOf(n) \in 1..H
          /\ HeightOf(2 * n + 0) = HeightOf(n) - 1 /\ HeightOf(2 * n + 1) = HeightOf(n) - 1
      BY <3>1, ChildrenAre
    <3>3. 2 * n + 0 = 2 * n
      <4>1. n \in Nat BY IndicesAre
      <4> QED BY <4>1
    <3>4. HeightOf(2 * n + 0) < k /\ HeightOf(2 * n + 1) < k BY <3>2
    <3>5. mask[2 * n] = Below(cells, 2 * n) /\ mask[2 * n + 1] = Below(cells, 2 * n + 1)
      BY <1>7, <3>2, <3>3, <3>4
    <3>6. mask[n] = mask[2 * n] \cup mask[2 * n + 1] BY <1>5, <2>1 DEF MaskBody
    <3> QED BY <1>1, <3>1, <3>5, <3>6, BelowIs
  <2>2. CASE ~(n = 1 \/ Descends(tree, with_esdf, n))
    <3>1. mask[n] = IF n \in near /\ ClassOf(scales[n]) = "free" THEN {"occupied"}
                    ELSE {ClassOf(scales[n])}
      BY <1>2, <1>5, <2>2 DEF MaskBody
    <3> QED BY <1>4, <2>2, <3>1
  <2> QED BY <2>1, <2>2
<1> HIDE DEF T
<1>8. Nat \subseteq T BY <1>6, <1>7, NatInductionSet
<1>9. \A n \in TreeIndex : mask[n] = Below(cells, n)
  <2>1. H + 1 \in T BY <1>0, <1>8
  <2>2. \A n \in TreeIndex : HeightOf(n) < H + 1 BY <1>0, HeightsAre
  <2> QED BY <2>1, <2>2 DEF T
<1>10. ASSUME NEW n \in TreeIndex, n # 1, ~Descends(tree, with_esdf, n) PROVE \E x : Below(cells, n) = {x}
  <2>1. Below(cells, n) = {"occupied"} \/ Below(cells, n) = {ClassOf(scales[n])} BY <1>4, <1>10
  <2> QED BY <2>1
<1> QED BY <1>1, <1>9, <1>10 DEF mask, MasksRight

\* What is above an index is above what is below it.
LEMMA UpFromNested ==
  ASSUME NEW n \in TreeIndex
  PROVE  /\ \A m \in UpFrom(n) : /\ m \in TreeIndex /\ UpFrom(m) \subseteq UpFrom(n)
                                 /\ m # n => HeightOf(n) < HeightOf(m)
                                 /\ m # n \/ n \in TreeNode => m \in TreeNode
         /\ n # 1 => /\ n \div 2 \in TreeNode /\ n \notin UpFrom(n \div 2)
                     /\ UpFrom(n) = {n} \cup UpFrom(n \div 2)
<1>0. H \in Nat BY Powers
<1>1. PICK c \in TreeCell, h \in 0..H : /\ c = Code(n) /\ h = HeightOf(n) /\ At(c, h) = n
                                        /\ UpFrom(n) = {At(c, g) : g \in h..H}
  BY UpFromIndex, CodeIs
<1>2. ASSUME NEW m \in UpFrom(n)
      PROVE  /\ m \in TreeIndex /\ UpFrom(m) \subseteq UpFrom(n)
             /\ m # n => HeightOf(n) < HeightOf(m)
             /\ m # n \/ n \in TreeNode => m \in TreeNode
  <2>1. PICK g \in h..H : m = At(c, g) BY <1>1
  <2>2. g \in 0..H /\ \A f \in g..H : f \in h..H BY <1>0, <1>1
  <2>3. m \in TreeIndex /\ HeightOf(m) = g BY <2>1, <2>2, AtIs
  <2>4. UpFrom(m) = {At(c, f) : f \in g..H} BY <2>1, <2>2, UpFromIs
  <2>5. m # n => h < g BY <1>0, <1>1, <2>1
  <2>6. n \in TreeNode => h # 0 BY <1>1, HeightsAre
  <2>7. m # n \/ n \in TreeNode => g # 0 BY <1>0, <1>1, <2>5, <2>6
  <2>8. m # n \/ n \in TreeNode => m \in TreeNode BY <2>3, <2>7, HeightsAre
  <2>9. UpFrom(m) \subseteq UpFrom(n) BY <1>1, <2>2, <2>4
  <2> QED BY <1>1, <2>3, <2>5, <2>8, <2>9
<1>3. ASSUME n # 1
      PROVE  /\ n \div 2 \in TreeNode /\ n \notin UpFrom(n \div 2)
             /\ UpFrom(n) = {n} \cup UpFrom(n \div 2)
  <2>1. n \div 2 \in TreeNode /\ h + 1 \in 1..H /\ At(c, h + 1) = n \div 2 BY <1>1, <1>3, ParentIs
  <2>2. h + 1 \in 0..H BY <1>0, <2>1
  <2>3. UpFrom(n \div 2) = {At(c, g) : g \in (h + 1)..H} BY <2>1, <2>2, UpFromIs
  <2>4. h..H = {h} \cup (h + 1)..H BY <1>0, <2>1
  <2>5. UpFrom(n) = {n} \cup UpFrom(n \div 2)
    <3>1. UpFrom(n) = {At(c, g) : g \in {h} \cup (h + 1)..H} BY <1>1, <2>4
    <3> QED BY <1>1, <2>3, <3>1
  <2>6. n \notin UpFrom(n \div 2)
    <3>1. SUFFICES ASSUME NEW g \in (h + 1)..H, At(c, g) = n PROVE FALSE BY <2>3
    <3>2. g \in 0..H /\ g # h BY <1>0, <2>2
    <3>3. HeightOf(At(c, g)) = g BY <3>2, AtIs
    <3> QED BY <1>1, <3>1, <3>2, <3>3
  <2> QED BY <2>1, <2>5, <2>6
<1> QED BY <1>2, <1>3

\* An update leaves no wrong masks but for those it says it has not visited.
LEMMA ReclassifiedIs ==
  ASSUME NEW tree, NEW with_esdf, NEW near, NEW cells, Updating(tree, with_esdf, near, cells),
         NEW old, old.masks \in [TreeIndex \ {1} -> SUBSET Class]
  PROVE  SoundClasses(Reclassified(tree, with_esdf, near, old), cells)
<1>0. H \in Nat BY Powers
<1> DEFINE mask == ClassMasks(tree, with_esdf, near)
           Kept(n) == IF Descends(tree, with_esdf, n) THEN ~Homogeneous(mask[n]) ELSE n \in old.nodes
           nodes == {n \in TreeNode : \A a \in UpFrom(n) \ {1} : Kept(a)}
           Visited(n) == \A a \in UpFrom(n) \ {1, n} : Descends(tree, with_esdf, a)
           masks == [n \in TreeIndex \ {1} |-> IF n \div 2 \notin nodes THEN {}
                                               ELSE IF Visited(n) THEN mask[n] ELSE old.masks[n]]
<1>1. /\ cells \in [TreeCell -> Class] /\ \A n \in TreeIndex : mask[n] = Below(cells, n)
      /\ \A n \in TreeIndex \ {1} : ~Descends(tree, with_esdf, n) => \E x : Below(cells, n) = {x}
  <2>1. MasksRight(tree, with_esdf, near, cells) BY MasksAre
  <2> QED BY <2>1 DEF MasksRight
<1>2. Reclassified(tree, with_esdf, near, old) = [nodes |-> nodes, masks |-> masks]
  BY DEF Reclassified
<1>3. \A n \in TreeIndex : Below(cells, n) \in SUBSET Class BY <1>1, BelowIs
<1> HIDE DEF mask
<1>4. nodes \subseteq TreeNode OBVIOUS
<1>5. 1 \in nodes
  <2>1. UpFrom(1) = {1}
    <3>1. UpFrom(1) = {At(Code(1), g) : g \in H..H} /\ Code(1) \in TreeCell BY TopIs, UpFromIndex
    <3>2. H..H = {H} BY <1>0
    <3> QED BY <3>1, <3>2, AtTop
  <2> QED BY <2>1, TopIs
<1>6. ASSUME NEW n \in nodes PROVE UpFrom(n) \subseteq nodes
  <2>1. n \in TreeNode /\ n \in TreeIndex /\ \A a \in UpFrom(n) \ {1} : Kept(a) BY DEF TreeIndex
  <2> HIDE DEF Kept
  <2>2. ASSUME NEW m \in UpFrom(n) PROVE m \in TreeNode /\ UpFrom(m) \subseteq UpFrom(n)
    BY <2>1, UpFromNested
  <2> QED BY <2>1, <2>2
<1>7. masks \in [TreeIndex \ {1} -> SUBSET Class]
  <2> HIDE DEF nodes, Visited
  <2>1. ASSUME NEW n \in TreeIndex \ {1} PROVE mask[n] \in SUBSET Class /\ old.masks[n] \in SUBSET Class
    BY <1>1, <1>3
  <2> QED BY <2>1
<1>8. \A n \in TreeIndex \ {1} : n \div 2 \in nodes /\ Visited(n) => masks[n] = Below(cells, n)
  <2> HIDE DEF nodes, Visited
  <2> QED BY <1>1
<1>9. \A n \in nodes : n # 1 => Kept(n)
  <2> SUFFICES ASSUME NEW n \in nodes, n # 1 PROVE Kept(n) OBVIOUS
  <2>1. n \in TreeIndex /\ \A a \in UpFrom(n) \ {1} : Kept(a) BY DEF TreeIndex
  <2>2. n \in UpFrom(n) BY <2>1, UpFromIndex
  <2> HIDE DEF Kept
  <2> QED BY <2>1, <2>2
<1>10. ASSUME NEW n \in TreeNode, n \notin nodes, n # 1, n \div 2 \in nodes PROVE ~Kept(n)
  <2>1. n \in TreeIndex BY DEF TreeIndex
  <2>2. UpFrom(n) = {n} \cup UpFrom(n \div 2) BY <1>10, <2>1, UpFromNested
  <2>3. \A a \in UpFrom(n \div 2) \ {1} : Kept(a) BY <1>10
  <2> HIDE DEF Kept
  <2> QED BY <1>10, <2>2, <2>3
<1> HIDE DEF nodes, masks
<1>11. ASSUME NEW n \in TreeIndex \ {1}, n \div 2 \in nodes,
              \A a \in UpFrom(n) \ {1, n} : ~Homogeneous(masks[a])
       PROVE  Visited(n)
  <2>0. /\ n # 1 /\ UpFrom(n) = {n} \cup UpFrom(n \div 2) /\ n \notin UpFrom(n \div 2)
        /\ n \div 2 \in TreeIndex
    BY UpFromNested, ParentIs
  <2>1. ASSUME NEW a \in UpFrom(n) \ {1, n}, \A b \in UpFrom(a) \ {1, a} : Descends(tree, with_esdf, b)
        PROVE  Descends(tree, with_esdf, a)
    <3>1. a \in UpFrom(n \div 2) BY <2>0
    <3>2. a \in nodes BY <1>6, <1>11, <3>1
    <3>3. a \in TreeIndex \ {1} /\ a \in TreeNode BY <1>4, <3>2 DEF TreeIndex
    <3>4. a \div 2 \in nodes
      <4>1. UpFrom(a) = {a} \cup UpFrom(a \div 2) /\ a \div 2 \in TreeIndex BY <3>3, UpFromNested, ParentIs
      <4>2. a \div 2 \in UpFrom(a) BY <4>1, UpFromIndex
      <4> QED BY <1>6, <3>2, <4>2
    <3>5. Visited(a) BY <2>1
    <3>6. masks[a] = Below(cells, a)
      <4> HIDE DEF Visited
      <4> QED BY <1>8, <3>3, <3>4, <3>5
    <3>7. ~Homogeneous(Below(cells, a)) BY <1>11, <3>6
    <3>8. Below(cells, a) \in SUBSET Class BY <1>3, <3>3
    <3>9. ~\E x : Below(cells, a) = {x} BY <3>7, <3>8, HomogeneousIs
    <3> QED BY <1>1, <3>3, <3>9
  <2> DEFINE T == {k \in Nat : \A a \in UpFrom(n) \ {1, n} : H - HeightOf(a) < k => Descends(tree, with_esdf, a)}
  <2>2. \A a \in UpFrom(n) : a \in TreeIndex /\ HeightOf(a) \in 0..H BY UpFromNested, HeightsAre
  <2>3. 0 \in T
    <3>1. \A h \in 0..H : ~(H - h < 0) BY <1>0
    <3> QED BY <2>2, <3>1
  <2>4. ASSUME NEW k \in Nat, k \in T PROVE k + 1 \in T
    <3> SUFFICES ASSUME NEW a \in UpFrom(n) \ {1, n}, H - HeightOf(a) < k + 1
                 PROVE  Descends(tree, with_esdf, a)
      OBVIOUS
    <3>1. a \in TreeIndex /\ HeightOf(a) \in 0..H /\ HeightOf(n) < HeightOf(a) BY <2>2, UpFromNested
    <3>2. ASSUME NEW b \in UpFrom(a) \ {1, a} PROVE Descends(tree, with_esdf, b)
      <4>1. b \in UpFrom(n) /\ b \in TreeIndex /\ HeightOf(a) < HeightOf(b) BY <3>1, UpFromNested
      <4>2. PICK i, j, l \in 0..H : i = HeightOf(n) /\ j = HeightOf(a) /\ l = HeightOf(b)
        BY <3>1, <4>1, HeightsAre
      <4>3. b # n BY <3>1, <4>1, <4>2
      <4>4. H - l < k BY <1>0, <4>1, <4>2
      <4> QED BY <2>4, <4>1, <4>2, <4>3, <4>4
    <3> QED BY <2>1, <3>2
  <2> HIDE DEF T
  <2>5. Nat \subseteq T BY <2>3, <2>4, NatInductionSet
  <2>6. H + 1 \in T BY <1>0, <2>5
  <2>7. \A h \in 0..H : H - h < H + 1 BY <1>0
  <2> QED BY <2>2, <2>6, <2>7 DEF T
<1>12. ASSUME NEW n \in TreeIndex \ {1}, n \div 2 \in nodes,
              \A a \in UpFrom(n) \ {1, n} : ~Homogeneous(masks[a])
       PROVE  /\ masks[n] = Below(cells, n)
              /\ n \in TreeNode \ nodes => Homogeneous(masks[n])
  <2>1. Visited(n) BY <1>11, <1>12
  <2>2. masks[n] = Below(cells, n)
    <3> HIDE DEF Visited
    <3> QED BY <1>8, <1>12, <2>1
  <2>3. ASSUME n \in TreeNode \ nodes PROVE Homogeneous(Below(cells, n))
    <3>1. ~Kept(n) BY <1>10, <1>12, <2>3
    <3>2. Below(cells, n) \in SUBSET Class BY <1>3
    <3>3. CASE Descends(tree, with_esdf, n)
      <4>1. Homogeneous(mask[n]) BY <3>1, <3>3
      <4> QED BY <1>1, <4>1
    <3>4. CASE ~Descends(tree, with_esdf, n) BY <1>1, <3>2, <3>4, HomogeneousIs
    <3> QED BY <3>3, <3>4
  <2> QED BY <2>2, <2>3
<1> HIDE DEF Visited, Kept
<1> QED BY <1>1, <1>2, <1>4, <1>5, <1>6, <1>7, <1>12 DEF SoundClasses

\* What a query learns of its index is right unless there are leftover nodes above it.
SingleAbove(map, n) == \E a \in UpFrom(n) \ {1} : a \in map.nodes /\ Homogeneous(map.masks[a])

Visible(map, n, m) ==
  /\ n \in TreeIndex /\ ~SingleAbove(map, n)
  /\ m \in TreeIndex /\ m # 1 /\ m \div 2 \in map.nodes /\ m \div 2 \in UpFrom(n)

OneClass(cells, m) == \E x : Below(cells, m) = {x}

LEMMA MasksOfIndices ==
  ASSUME NEW map, NEW cells, SoundClasses(map, cells), NEW n, NEW m, Visible(map, n, m)
  PROVE  /\ map.masks[m] = Below(cells, m)
         /\ m \in TreeNode => m \in map.nodes \/ OneClass(cells, m)
<1>0. /\ n \in TreeIndex /\ ~SingleAbove(map, n)
      /\ m \in TreeIndex /\ m # 1 /\ m \div 2 \in map.nodes /\ m \div 2 \in UpFrom(n)
  BY DEF Visible
<1>1. UpFrom(m) = {m} \cup UpFrom(m \div 2) /\ UpFrom(m \div 2) \subseteq UpFrom(n) BY <1>0, UpFromNested
<1>2. m \in TreeIndex \ {1} BY <1>0
<1>3. ASSUME NEW a \in UpFrom(m) \ {1, m} PROVE ~Homogeneous(map.masks[a])
  <2>1. a \in UpFrom(m \div 2) BY <1>1
  <2>2. a \in map.nodes BY <1>0, <2>1 DEF SoundClasses
  <2> QED BY <1>0, <1>1, <2>1, <2>2 DEF SingleAbove
<1>4. map.masks[m] = Below(cells, m) BY <1>0, <1>2, <1>3 DEF SoundClasses
<1>5. ASSUME m \in TreeNode \ map.nodes PROVE \E x : Below(cells, m) = {x}
  <2>0. m \in TreeNode \ map.nodes => Homogeneous(map.masks[m])
    BY <1>0, <1>2, <1>3, SMT DEF SoundClasses
  <2>1. Homogeneous(map.masks[m]) BY <1>5, <2>0
  <2>2. Below(cells, m) \in SUBSET Class
    <3>1. cells \in [TreeCell -> Class] BY DEF SoundClasses
    <3> QED BY <1>0, <3>1, BelowIs
  <2> QED BY <1>4, <2>1, <2>2, HomogeneousIs
<1> QED BY <1>4, <1>5 DEF OneClass

LEMMA RegionIs ==
  ASSUME NEW nodes, NEW s \in Caches, OnPath(s, nodes), s.height # 0
  PROVE  /\ Region(s) = At(s.code, s.height - 1) /\ Region(s) \in TreeIndex /\ Region(s) # 1
         /\ Region(s) \div 2 \in nodes /\ s.height - 1 \in 0..H
<1>0. H \in Nat BY Powers
<1>1. PICK h \in 1..H : h = s.height BY <1>0 DEF Caches
<1>2. PICK c \in TreeCell : c = s.code BY DEF OnPath
<1>3. h \in h..H /\ h - 1 \in 0..H BY <1>0
<1>4. s.stack[h] = At(c, h) /\ At(c, h) \in nodes BY <1>1, <1>2, <1>3 DEF OnPath
<1>5. Region(s) = 2 * At(c, h) + ChildAt(c, h) BY <1>1, <1>2, <1>4 DEF Region
<1>6. Region(s) = At(c, h - 1) /\ At(c, h - 1) # 1 /\ At(c, h - 1) \div 2 = At(c, h)
  BY <1>5, StepDown
<1>7. At(c, h - 1) \in TreeIndex BY <1>3, AtIs
<1> QED BY <1>1, <1>2, <1>3, <1>4, <1>6, <1>7

\* The loop of has() and isFully() stops for one of these reasons.
Decided(map, mask, g, s) ==
  \/ IsAll(map.masks[Region(s)], mask) \/ ~HasAny(map.masks[Region(s)], mask)
  \/ s.height - 1 = g \/ Region(s) \notin map.nodes

LEMMA RegionStepIs ==
  ASSUME NEW map, NEW mask, NEW g \in 0..H, NEW s \in Caches, OnPath(s, map.nodes), g < s.height
  PROVE  LET t == RegionStep(map, g, mask, s)
         IN  /\ t \in Caches /\ OnPath(t, map.nodes) /\ Deeper(s, t) /\ g < t.height
             /\ t = s \/ t.height < s.height
             /\ t = s => Decided(map, mask, g, s)
<1>0. H \in Nat BY Powers
<1>1. PICK h \in 1..H : h = s.height BY <1>0 DEF Caches
<1>2. Region(s) = At(s.code, s.height - 1) /\ s.height # 0 BY <1>1, RegionIs
<1>3. PICK t : t = RegionStep(map, g, mask, s) OBVIOUS
<1>4. CASE Decided(map, mask, g, s)
  <2>1. t = s BY <1>3, <1>4 DEF RegionStep, Decided
  <2>2. Deeper(s, s) BY <1>1 DEF Deeper
  <2> QED BY <1>3, <1>4, <2>1, <2>2
<1>5. CASE ~Decided(map, mask, g, s)
  <2>1. Region(s) \in map.nodes /\ s.height - 1 # g BY <1>5 DEF Decided
  <2>2. t = Down(s) BY <1>2, <1>3, <1>5 DEF RegionStep, Decided, Down
  <2>3. CanGoDown(s, map.nodes) BY <1>2, <2>1 DEF CanGoDown
  <2>4. t \in Caches /\ OnPath(t, map.nodes) /\ Deeper(s, t) /\ t.height = h - 1
    BY <1>1, <2>2, <2>3, DownIs
  <2>5. t # s /\ t.height < s.height /\ g < t.height BY <1>0, <1>1, <2>1, <2>4
  <2> QED BY <1>3, <2>4, <2>5
<1> QED BY <1>4, <1>5

RegionWalkable(s, nodes, g) == g \in 0..H /\ s \in Caches /\ OnPath(s, nodes) /\ g < s.height

LEMMA RegionWalkIs ==
  ASSUME NEW map, NEW mask, NEW g, NEW s, RegionWalkable(s, map.nodes, g)
  PROVE  LET t == RegionWalk(map, g, mask, s)
         IN  /\ t \in Caches /\ OnPath(t, map.nodes) /\ Deeper(s, t) /\ g < t.height
             /\ Decided(map, mask, g, t)
<1>0. H \in Nat /\ TreeHeight = H BY Powers DEF H
<1>a. g \in 0..H /\ s \in Caches /\ OnPath(s, map.nodes) /\ g < s.height BY DEF RegionWalkable
<1> DEFINE V == {t \in Caches : OnPath(t, map.nodes) /\ Deeper(s, t) /\ g < t.height}
           step == [t \in V |-> RegionStep(map, g, mask, t)]
           rank == [t \in V |-> t.height]
<1>1. s \in V BY <1>a DEF Deeper, Caches
<1>2. ASSUME NEW t \in V
      PROVE  /\ RegionStep(map, g, mask, t) \in V
             /\ RegionStep(map, g, mask, t) = t \/ RegionStep(map, g, mask, t).height < t.height
             /\ RegionStep(map, g, mask, t) = t => Decided(map, mask, g, t)
  <2>1. t \in Caches /\ OnPath(t, map.nodes) /\ Deeper(s, t) /\ g < t.height OBVIOUS
  <2>2. PICK u : u = RegionStep(map, g, mask, t) OBVIOUS
  <2>3. /\ u \in Caches /\ OnPath(u, map.nodes) /\ Deeper(t, u) /\ g < u.height
        /\ u = t \/ u.height < t.height
        /\ u = t => Decided(map, mask, g, t)
    BY <1>a, <2>1, <2>2, RegionStepIs
  <2>4. s.height \in Int /\ t.height \in Int /\ u.height \in Int BY <1>a, <2>1, <2>3 DEF Caches
  <2>5. Deeper(s, u) BY <2>1, <2>3, <2>4 DEF Deeper
  <2> QED BY <2>2, <2>3, <2>5
<1>3. step \in [V -> V]
  <2> HIDE DEF V
  <2> QED BY <1>2
<1>4. rank \in [V -> 0..H]
  <2>1. \A t \in V : t.height \in 0..H BY DEF Caches
  <2> HIDE DEF V
  <2> QED BY <2>1
<1>5. \A t \in V : step[t] = t \/ rank[step[t]] < rank[t]
  <2> HIDE DEF V
  <2> QED BY <1>2
<1> HIDE DEF V
<1>6. PICK f \in [0..H -> V] : f = [k \in 0..H |-> IF k = 0 THEN s ELSE step[f[k - 1]]]
  <2> HIDE DEF step
  <2>1. CanWalk(H, V, s, step) BY <1>0, <1>1, <1>3 DEF CanWalk
  <2> QED BY <2>1, WalkExists
<1>7. f = [k \in 0..H |-> IF k = 0 THEN s ELSE RegionStep(map, g, mask, f[k - 1])]
  <2>1. ASSUME NEW k \in 0..H, k # 0 PROVE step[f[k - 1]] = RegionStep(map, g, mask, f[k - 1])
    <3>1. k - 1 \in 0..H BY <1>0, <2>1
    <3> QED BY <3>1
  <2> HIDE DEF step
  <2> QED BY <1>6, <2>1
<1>8. PICK walk : /\ walk = [k \in 0..H |-> IF k = 0 THEN s ELSE RegionStep(map, g, mask, walk[k - 1])]
                  /\ RegionWalk(map, g, mask, s) = walk[H]
  <2>1. \E walk : walk = [k \in 0..TreeHeight |->
                            IF k = 0 THEN s ELSE RegionStep(map, g, mask, walk[k - 1])]
    BY <1>0, <1>7
  <2> DEFINE walk == CHOOSE walk : walk = [k \in 0..TreeHeight |->
                            IF k = 0 THEN s ELSE RegionStep(map, g, mask, walk[k - 1])]
  <2>2. walk = [k \in 0..TreeHeight |-> IF k = 0 THEN s ELSE RegionStep(map, g, mask, walk[k - 1])]
    BY <2>1, Zenon
  <2>3. RegionWalk(map, g, mask, s) = walk[TreeHeight] BY Zenon DEF RegionWalk
  <2> HIDE DEF walk
  <2> QED BY <1>0, <2>2, <2>3
<1>9. IsWalk(walk, H, V, step, rank)
  <2>1. walk[0] = s BY <1>0, <1>8
  <2>2. ASSUME NEW k \in 1..H, walk[k - 1] \in V PROVE walk[k] = step[walk[k - 1]]
    <3>1. k \in 0..H /\ k # 0 BY <1>0
    <3>2. walk[k] = RegionStep(map, g, mask, walk[k - 1]) BY <1>8, <3>1
    <3> QED BY <2>2, <3>2
  <2> HIDE DEF step, rank
  <2> QED BY <1>1, <1>3, <1>4, <1>5, <2>1, <2>2 DEF IsWalk
<1>10. walk[H] \in V /\ step[walk[H]] = walk[H]
  <2> HIDE DEF step, rank
  <2> QED BY <1>0, <1>9, WalkEnds
<1>11. PICK t \in V : t = walk[H] BY <1>10
<1>12. RegionStep(map, g, mask, t) = t BY <1>10, <1>11
<1>13. Decided(map, mask, g, t) BY <1>2, <1>12
<1>14. t \in Caches /\ OnPath(t, map.nodes) /\ Deeper(s, t) /\ g < t.height BY DEF V
<1> QED BY <1>8, <1>11, <1>13, <1>14

\* What has() and isFully() find is as good as the classes of the cells.
Agrees(region, classes, mask) ==
  /\ HasAny(region, mask) <=> HasAny(classes, mask)
  /\ IsAll(region, mask) <=> IsAll(classes, mask)

LEMMA RegionFoundIs ==
  ASSUME NEW map, NEW cells, SoundClasses(map, cells), NEW s, NEW n, Resumable(s, map.nodes, n),
         NEW mask
  PROVE  LET f == RegionFound(s, map, n, mask)
         IN  /\ f.cache \in Caches /\ OnPath(f.cache, map.nodes)
             /\ f.cache.block = s.block /\ f.cache.loaded = s.loaded
             /\ ~SingleAbove(map, n) => Agrees(f.region, Below(cells, n), mask)
<1>0. H \in Nat BY Powers
<1>1. n \in TreeIndex /\ s.code = Code(n) BY DEF Resumable
<1>2. PICK c \in TreeCell, g \in 0..H : c = Code(n) /\ g = HeightOf(n) /\ At(c, g) = n
  BY <1>1, CodeIs, HeightsAre
<1>3. cells \in [TreeCell -> Class] BY DEF SoundClasses
<1>4. PICK u : u = Resumed(s, n) OBVIOUS
<1>5. /\ u \in Caches /\ OnPath(u, map.nodes) /\ g <= u.height
      /\ u.block = s.block /\ u.code = c /\ u.loaded = s.loaded
  BY <1>1, <1>2, <1>4, ResumedIs
<1>6. PICK f : f = RegionFound(s, map, n, mask) OBVIOUS
<1>7. CASE u.height = g
  <2>1. u.stack[g] = n /\ n \in map.nodes
    <3>1. g \in u.height..H BY <1>7
    <3> QED BY <1>2, <1>5, <3>1 DEF OnPath
  <2>2. f = [cache |-> u, region |-> map.masks[2 * n] \cup map.masks[2 * n + 1]]
    BY <1>2, <1>4, <1>6, <1>7, <2>1 DEF RegionFound
  <2>3. ASSUME ~SingleAbove(map, n) PROVE f.region = Below(cells, n)
    <3>1. n \in TreeNode BY <2>1 DEF SoundClasses
    <3>2. /\ 2 * n + 0 \in TreeIndex /\ 2 * n + 1 \in TreeIndex /\ 2 * n + 0 # 1 /\ 2 * n + 1 # 1
          /\ (2 * n + 0) \div 2 = n /\ (2 * n + 1) \div 2 = n
      BY <3>1, ChildrenAre
    <3>3. 2 * n + 0 = 2 * n
      <4>1. n \in Int BY <1>1, IndicesAre
      <4> QED BY <4>1
    <3>4. n \in UpFrom(n) BY <1>1, UpFromIndex
    <3>5. map.masks[2 * n + 0] = Below(cells, 2 * n + 0) /\ map.masks[2 * n + 1] = Below(cells, 2 * n + 1)
      <4>1. Visible(map, n, 2 * n + 0) /\ Visible(map, n, 2 * n + 1)
        BY <1>1, <2>1, <2>3, <3>2, <3>4 DEF Visible
      <4> QED BY <4>1, MasksOfIndices
    <3>6. Below(cells, n) = Below(cells, 2 * n) \cup Below(cells, 2 * n + 1)
      BY <1>1, <1>3, <3>1, BelowIs
    <3> QED BY <2>2, <3>3, <3>5, <3>6
  <2>4. ~SingleAbove(map, n) => Agrees(f.region, Below(cells, n), mask) BY <2>3 DEF Agrees
  <2>5. f.cache = u BY <2>2
  <2> QED BY <1>5, <1>6, <2>4, <2>5
<1>8. CASE u.height # g
  <2>1. g < u.height
    <3>1. u.height \in 0..H BY <1>5 DEF Caches
    <3> QED BY <1>5, <1>8, <3>1
  <2>2. RegionWalkable(u, map.nodes, g) BY <1>2, <1>5, <2>1 DEF RegionWalkable
  <2>3. PICK t : t = RegionWalk(map, g, mask, u) OBVIOUS
  <2>4. /\ t \in Caches /\ OnPath(t, map.nodes) /\ Deeper(u, t) /\ g < t.height
        /\ Decided(map, mask, g, t)
    BY <2>2, <2>3, RegionWalkIs
  <2>5. f = [cache |-> t, region |-> map.masks[Region(t)]]
    BY <1>2, <1>4, <1>6, <1>8, <2>3 DEF RegionFound
  <2>6. PICK h \in 1..H : h = t.height /\ g < h
    <3>1. t.height \in 0..H BY <2>4 DEF Caches
    <3>2. t.height # 0 BY <2>4, <3>1
    <3> QED BY <1>0, <2>4, <3>1, <3>2
  <2>7. t.code = c BY <1>5, <2>4 DEF Deeper
  <2>8. /\ Region(t) = At(c, h - 1) /\ Region(t) \in TreeIndex /\ Region(t) # 1
        /\ Region(t) \div 2 \in map.nodes
    BY <2>4, <2>6, <2>7, RegionIs
  <2>9. PICK m \in TreeIndex : m = Region(t) BY <2>8
  <2>10. m \in UpFrom(n) /\ m \div 2 \in UpFrom(n)
    <3>1. h - 1 \in g..H BY <1>0, <2>6
    <3>2. UpFrom(n) = {At(c, e) : e \in g..H} BY <1>1, <1>2, UpFromIndex
    <3>3. m \in UpFrom(n) BY <2>8, <2>9, <3>1, <3>2
    <3>4. m \div 2 \in UpFrom(m)
      <4>1. UpFrom(m) = {m} \cup UpFrom(m \div 2) /\ m \div 2 \in TreeIndex
        BY <2>8, <2>9, UpFromNested, ParentIs
      <4> QED BY <4>1, UpFromIndex
    <3> QED BY <1>1, <3>3, <3>4, UpFromNested
  <2>11. ASSUME ~SingleAbove(map, n) PROVE Agrees(f.region, Below(cells, n), mask)
    <3>0. m # 1 /\ m \div 2 \in map.nodes /\ m \div 2 \in UpFrom(n) BY <2>8, <2>9, <2>10
    <3>1. /\ map.masks[m] = Below(cells, m)
          /\ m \in TreeNode => m \in map.nodes \/ OneClass(cells, m)
      <4>1. Visible(map, n, m) BY <1>1, <2>11, <3>0 DEF Visible
      <4> QED BY <4>1, MasksOfIndices
    <3>2. Below(cells, n) \subseteq Below(cells, m) /\ Below(cells, n) # {}
      BY <1>1, <1>3, <2>10, BelowIs
    <3>3. f.region = Below(cells, m) BY <2>5, <2>9, <3>1
    <3>4. \/ IsAll(Below(cells, m), mask) \/ ~HasAny(Below(cells, m), mask)
          \/ h - 1 = g \/ m \notin map.nodes
      BY <2>4, <2>6, <2>9, <3>1 DEF Decided
    <3>5. CASE IsAll(Below(cells, m), mask) \/ ~HasAny(Below(cells, m), mask)
      BY <3>2, <3>3, <3>5 DEF Agrees, IsAll, HasAny
    <3>6. CASE h - 1 = g
      <4>1. m = n BY <1>2, <2>8, <2>9, <3>6
      <4> QED BY <3>3, <4>1 DEF Agrees
    <3>7. CASE h - 1 # g /\ m \notin map.nodes
      <4>1. h - 1 # 0 /\ h - 1 \in 0..H BY <1>0, <2>6, <3>7
      <4>2. HeightOf(m) = h - 1 BY <2>8, <2>9, <4>1, AtIs
      <4>3. m \in TreeNode BY <4>1, <4>2, HeightsAre
      <4>4. PICK x : Below(cells, m) = {x} BY <3>1, <3>7, <4>3 DEF OneClass
      <4>5. Below(cells, n) = Below(cells, m) BY <3>2, <4>4
      <4> QED BY <3>3, <4>5 DEF Agrees
    <3> QED BY <3>4, <3>5, <3>6, <3>7
  <2>12. f.cache = t /\ t.block = s.block /\ t.loaded = s.loaded
    <3>1. f.cache = t BY <2>5
    <3>2. t.block = u.block /\ t.loaded = u.loaded BY <2>4 DEF Deeper
    <3> QED BY <1>5, <3>1, <3>2
  <2> QED BY <1>6, <2>4, <2>11, <2>12
<1> QED BY <1>7, <1>8

\* The regions that forEachLeafMatching visits, and those that it passes through.
OpenTo(map, mask, n) ==
  /\ n \in map.nodes
  /\ n # 1 => HasAny(map.masks[n], mask) /\ ~IsAll(map.masks[n], mask)

LEMMA MatchingLeavesAre ==
  ASSUME NEW map, NEW mask
  PROVE  MatchingLeaves(map, mask)
           = {n \in TreeIndex \ {1} : /\ \A a \in UpFrom(n) \ {n} : OpenTo(map, mask, a)
                                      /\ HasAny(map.masks[n], mask)
                                      /\ IsAll(map.masks[n], mask) \/ n \in TreeCell}
BY DEF MatchingLeaves, OpenTo

\* Where a visit gets to, the masks are those of the cells.
Reached(map, mask, n) == n \in TreeIndex \ {1} /\ \A a \in UpFrom(n) \ {n} : OpenTo(map, mask, a)

LEMMA VisitedMasks ==
  ASSUME NEW map, NEW cells, SoundClasses(map, cells), NEW mask, NEW n, Reached(map, mask, n)
  PROVE  /\ map.masks[n] = Below(cells, n)
         /\ n \in TreeNode => n \in map.nodes \/ OneClass(cells, n)
<1>0. n \in TreeIndex /\ n # 1 /\ \A a \in UpFrom(n) \ {n} : OpenTo(map, mask, a) BY DEF Reached
<1>1. n \div 2 \in TreeIndex /\ UpFrom(n) = {n} \cup UpFrom(n \div 2) /\ n \notin UpFrom(n \div 2)
  BY <1>0, UpFromNested, ParentIs
<1>2. n \div 2 \in UpFrom(n) \ {n} BY <1>1, UpFromIndex
<1>3. n \div 2 \in map.nodes BY <1>0, <1>2 DEF OpenTo
<1>4. ASSUME NEW a \in UpFrom(n) \ {1, n} PROVE ~Homogeneous(map.masks[a])
  <2>1. HasAny(map.masks[a], mask) /\ ~IsAll(map.masks[a], mask) BY <1>0, <1>4 DEF OpenTo
  <2>2. map.masks[a] \in SUBSET Class
    <3>1. a \in TreeIndex \ {1} BY <1>0, UpFromNested
    <3> QED BY <3>1 DEF SoundClasses
  <2>3. ~\E x : map.masks[a] = {x} BY <2>1 DEF HasAny, IsAll
  <2> QED BY <2>2, <2>3, HomogeneousIs
<1>5. ~SingleAbove(map, n \div 2) BY <1>1, <1>4 DEF SingleAbove
<1>6. Visible(map, n \div 2, n) BY <1>0, <1>1, <1>3, <1>5, UpFromIndex DEF Visible
<1> QED BY <1>6, MasksOfIndices

LEMMA LeavesAre ==
  ASSUME NEW map, NEW cells, SoundClasses(map, cells), NEW mask
  PROVE  {c \in TreeCell : UpFrom(c) \cap MatchingLeaves(map, mask) # {}}
           = {c \in TreeCell : cells[c] \in mask}
<1>0. H \in Nat /\ cells \in [TreeCell -> Class] BY Powers DEF SoundClasses
<1>1. ASSUME NEW c \in TreeCell, NEW n \in UpFrom(c), n \in MatchingLeaves(map, mask)
      PROVE  cells[c] \in mask
  <2>1. /\ n \in TreeIndex \ {1} /\ \A a \in UpFrom(n) \ {n} : OpenTo(map, mask, a)
        /\ HasAny(map.masks[n], mask) /\ (IsAll(map.masks[n], mask) \/ n \in TreeCell)
    BY <1>1, MatchingLeavesAre
  <2>2. map.masks[n] = Below(cells, n)
    <3>1. Reached(map, mask, n) BY <2>1 DEF Reached
    <3> QED BY <3>1, VisitedMasks
  <2>3. cells[c] \in Below(cells, n) BY DEF Below, InSubtree
  <2>4. CASE IsAll(map.masks[n], mask) BY <2>2, <2>3, <2>4 DEF IsAll
  <2>5. CASE n \in TreeCell
    <3>1. n = c
      <4>1. c \in TreeIndex BY DEF TreeIndex
      <4>2. n # c => n \in TreeNode BY <4>1, UpFromNested
      <4>3. n \notin TreeNode BY <2>1, <2>5, HeightsAre
      <4> QED BY <4>2, <4>3
    <3>2. Below(cells, n) = {cells[c]} BY <1>0, <2>1, <2>5, <3>1, BelowIs
    <3> QED BY <2>1, <2>2, <3>2 DEF HasAny
  <2> QED BY <2>1, <2>4, <2>5
<1>2. ASSUME NEW c \in TreeCell, cells[c] \in mask
      PROVE  \E n \in UpFrom(c) : n \in MatchingLeaves(map, mask)
  <2> DEFINE S == {k \in Nat : k <= H /\ ~OpenTo(map, mask, At(c, H - k))}
  <2>1. H \in S
    <3>1. H - H = 0 /\ 0 \in 0..H BY <1>0
    <3>2. At(c, 0) \in TreeIndex /\ HeightOf(At(c, 0)) = 0 BY <3>1, AtIs
    <3>3. At(c, 0) \notin map.nodes BY <3>2, HeightsAre DEF SoundClasses
    <3> QED BY <1>0, <3>1, <3>3 DEF OpenTo
  <2>2. PICK k \in S : \A j \in S : k <= j
    <3>1. S \in SUBSET Nat /\ S # {} BY <2>1
    <3> HIDE DEF S
    <3> QED BY <3>1, LeastNumber
  <2>3. PICK h \in 0..H : h = H - k BY <1>0
  <2>4. ~OpenTo(map, mask, At(c, h)) BY <2>3
  <2>5. ASSUME NEW g \in (h + 1)..H PROVE OpenTo(map, mask, At(c, g))
    <3>1. H - g \in Nat /\ H - g <= H /\ H - (H - g) = g /\ ~(k <= H - g) BY <1>0, <2>3
    <3>2. H - g \notin S
      <4> HIDE DEF S
      <4> QED BY <2>2, <3>1
    <3> QED BY <3>1, <3>2
  <2>6. PICK n \in TreeIndex : n = At(c, h) BY AtIs
  <2>7. UpFrom(n) = {At(c, g) : g \in h..H} /\ n \in UpFrom(c)
    <3>1. UpFrom(n) = {At(c, g) : g \in h..H} BY <2>6, UpFromIs
    <3>2. At(c, HeightOf(n)) = n BY <2>6, AtIs
    <3>3. InSubtree(c, n) BY <3>2, CellsBelow
    <3> QED BY <3>1, <3>3 DEF InSubtree
  <2>8. \A a \in UpFrom(n) \ {n} : OpenTo(map, mask, a)
    <3>1. SUFFICES ASSUME NEW g \in h..H, At(c, g) # n PROVE OpenTo(map, mask, At(c, g)) BY <2>7
    <3>2. g \in (h + 1)..H BY <1>0, <2>6, <3>1
    <3> QED BY <2>5, <3>2
  <2>9. n # 1
    <3>1. OpenTo(map, mask, 1) BY DEF OpenTo, SoundClasses
    <3> QED BY <2>4, <2>6, <3>1
  <2>10. /\ map.masks[n] = Below(cells, n)
         /\ n \in TreeNode => n \in map.nodes \/ OneClass(cells, n)
    <3>1. Reached(map, mask, n) BY <2>8, <2>9 DEF Reached
    <3> QED BY <3>1, VisitedMasks
  <2>11. cells[c] \in Below(cells, n) BY <2>7 DEF Below, InSubtree
  <2>12. HasAny(map.masks[n], mask) BY <1>2, <2>10, <2>11 DEF HasAny
  <2>13. IsAll(map.masks[n], mask) \/ n \in TreeCell
    <3>1. n \notin map.nodes \/ IsAll(map.masks[n], mask) BY <2>4, <2>6, <2>12 DEF OpenTo
    <3>2. ASSUME OneClass(cells, n) PROVE IsAll(map.masks[n], mask)
      <4>1. PICK x : Below(cells, n) = {x} BY <3>2 DEF OneClass
      <4> QED BY <1>2, <2>10, <2>11, <4>1 DEF IsAll
    <3>3. n \in TreeNode \/ n \in TreeCell BY DEF TreeIndex
    <3> QED BY <2>10, <3>1, <3>2, <3>3
  <2>14. n \in MatchingLeaves(map, mask) BY <2>8, <2>9, <2>12, <2>13, MatchingLeavesAre
  <2> QED BY <2>7, <2>14
<1> QED BY <1>1, <1>2

-----------------------------------------------------------------------------
(* Queries of the classified map *)

NodesOf(maps) == [b \in DOMAIN maps |-> maps[b].nodes]

\* Each block of the classified map goes with the classes of its cells.
ClassesAre(maps, cells) ==
  /\ DOMAIN maps = DOMAIN cells /\ DOMAIN maps \subseteq Block
  /\ \A b \in DOMAIN maps : SoundClasses(maps[b], cells[b])

LEMMA NodesOfClasses ==
  ASSUME NEW maps, NEW cells, ClassesAre(maps, cells)
  PROVE  GoodNodes(NodesOf(maps)) /\ DOMAIN NodesOf(maps) = DOMAIN maps
<1>1. ASSUME NEW b \in DOMAIN maps
      PROVE  /\ maps[b].nodes \subseteq TreeIndex /\ 1 \in maps[b].nodes
             /\ \A n \in maps[b].nodes : UpFrom(n) \subseteq maps[b].nodes
  <2>1. SoundClasses(maps[b], cells[b]) BY DEF ClassesAre
  <2>2. TreeNode \subseteq TreeIndex BY DEF TreeIndex
  <2> QED BY <2>1, <2>2 DEF SoundClasses
<1>2. DOMAIN maps \subseteq Block BY DEF ClassesAre
<1> QED BY <1>1, <1>2 DEF GoodNodes, NodesOf

LEMMA FreshClassesAre == FreshClasses.masks \in [TreeIndex \ {1} -> SUBSET Class]
BY DEF FreshClasses

\* update().
LEMMA UpdateIs ==
  ASSUME Update, ClassesAre(classified, cells_are)
  PROVE  /\ ClassesAre(classified', cells_are') /\ Cached(cache', NodesOf(classified'))
         /\ answer'.op = "none"
<1>1. PICK map \in OccupancyMaps, with_esdf \in BOOLEAN, near \in NearCells :
        /\ ~with_esdf => near = {}
        /\ classified' =
             [b \in DOMAIN map |->
                Reclassified(map[b], with_esdf, near,
                             IF b \in DOMAIN classified THEN classified[b] ELSE FreshClasses)]
        /\ cells_are' = [b \in DOMAIN map |-> [c \in TreeCell |-> ClassOfCell(map[b], near, c)]]
  BY DEF Update
<1>2. PICK maps : maps = [b \in DOMAIN map |->
                Reclassified(map[b], with_esdf, near,
                             IF b \in DOMAIN classified THEN classified[b] ELSE FreshClasses)]
  OBVIOUS
<1>3. PICK cells : cells = [b \in DOMAIN map |-> [c \in TreeCell |-> ClassOfCell(map[b], near, c)]]
  OBVIOUS
<1>4. DOMAIN map \subseteq Block /\ \A b \in DOMAIN map : map[b] \in Trees BY DEF OccupancyMaps
<1>5. near \in SUBSET TreeCell BY QueryAssumption
<1>6. ASSUME NEW b \in DOMAIN map PROVE SoundClasses(maps[b], cells[b])
  <2>1. PICK old : old = IF b \in DOMAIN classified THEN classified[b] ELSE FreshClasses OBVIOUS
  <2>2. old.masks \in [TreeIndex \ {1} -> SUBSET Class]
    <3>1. b \in DOMAIN classified => classified[b].masks \in [TreeIndex \ {1} -> SUBSET Class]
      BY DEF ClassesAre, SoundClasses
    <3> QED BY <2>1, <3>1, FreshClassesAre
  <2>3. cells[b] = [c \in TreeCell |-> ClassOfCell(map[b], near, c)] BY <1>3
  <2>4. SoundTree(map[b]) BY <1>4, TreesAreSound
  <2>5. Updating(map[b], with_esdf, near, cells[b]) BY <1>1, <1>5, <2>3, <2>4 DEF Updating
  <2>6. maps[b] = Reclassified(map[b], with_esdf, near, old) BY <1>2, <2>1
  <2>7. SoundClasses(Reclassified(map[b], with_esdf, near, old), cells[b])
    BY <2>2, <2>5, ReclassifiedIs, Zenon
  <2> QED BY <2>6, <2>7
<1>7. DOMAIN maps = DOMAIN map /\ DOMAIN cells = DOMAIN map BY <1>2, <1>3
<1>8. ClassesAre(maps, cells) BY <1>4, <1>6, <1>7 DEF ClassesAre
<1>9. Cached(EmptyCache, NodesOf(maps)) BY <1>8, NodesOfClasses, EmptyIsCached
<1>10. classified' = maps /\ cells_are' = cells BY <1>1, <1>2, <1>3
<1>11. cache' = EmptyCache /\ answer' = NoAnswer BY DEF Update, Forget
<1>12. NoAnswer.op = "none" BY DEF NoAnswer
<1> QED BY <1>8, <1>9, <1>10, <1>11, <1>12

\* What a query of a block that there is should return.
ClassAnswer(map, cells, a) ==
  IF a.op = "has" THEN a.result = HasAny(Below(cells, a.index), a.mask)
  ELSE IF a.op = "fully" THEN a.result = IsAll(Below(cells, a.index), a.mask)
  ELSE /\ a.result[1] = a.index \/ a.result[1] \in UpFrom(a.index) \ map.nodes
       /\ a.result[2] = Below(cells, a.result[1])

AnswerOfClasses(maps, cells, a) ==
  /\ a.op \in {"has", "fully", "class"}
  /\ IF a.block \notin DOMAIN maps
     THEN IF a.op = "class" THEN a.result = <<>> ELSE a.result = FALSE
     ELSE SingleAbove(maps[a.block], a.index) \/ ClassAnswer(maps[a.block], cells[a.block], a)

LEMMA AgreesIs ==
  ASSUME NEW region, NEW classes, NEW mask, Agrees(region, classes, mask)
  PROVE  /\ HasAny(region, mask) = HasAny(classes, mask)
         /\ IsAll(region, mask) = IsAll(classes, mask)
BY DEF Agrees, HasAny, IsAll

\* The block that a query has opened.
Asking(b, n, s) ==
  /\ b \in Block /\ n \in TreeIndex /\ s = Opened(b, n, DOMAIN classified)
  /\ ClassesAre(classified, cells_are) /\ Cached(cache, NodesOf(classified))

LEMMA AskingIs ==
  ASSUME NEW b, NEW n, NEW s, Asking(b, n, s)
  PROVE  /\ s \in Caches /\ s.block = b
         /\ s.loaded => b \in DOMAIN classified /\ Resumable(s, classified[b].nodes, n)
         /\ b \in DOMAIN classified => s.loaded
<1>1. /\ b \in Block /\ n \in TreeIndex /\ s = Opened(b, n, DOMAIN classified)
      /\ ClassesAre(classified, cells_are) /\ Cached(cache, NodesOf(classified))
  BY DEF Asking
<1>2. PICK nodes : nodes = NodesOf(classified) OBVIOUS
<1>3. GoodNodes(nodes) /\ DOMAIN nodes = DOMAIN classified BY <1>1, <1>2, NodesOfClasses
<1>4. /\ s \in Caches /\ s.block = b /\ s.code = Code(n)
      /\ s.loaded => b \in DOMAIN nodes /\ Starts(s, nodes[b])
      /\ b \in DOMAIN nodes => s.loaded
  <2>1. Cached(cache, nodes) BY <1>1, <1>2
  <2>2. s = Opened(b, n, DOMAIN nodes) BY <1>1, <1>3
  <2> QED BY <1>1, <1>3, <2>1, <2>2, OpenedIs
<1>5. b \in DOMAIN nodes => nodes[b] = classified[b].nodes /\ 1 \in nodes[b]
  BY <1>2, <1>3 DEF NodesOf, GoodNodes
<1>6. cache \in Caches BY <1>1 DEF Cached
<1> QED BY <1>1, <1>3, <1>4, <1>5, <1>6 DEF Resumable

\* The cache after a query, for each of them.
Closing(b, s) ==
  /\ ClassesAre(classified, cells_are) /\ s \in Caches /\ s.block = b
  /\ s.loaded => b \in DOMAIN classified /\ OnPath(s, classified[b].nodes)
  /\ b \in DOMAIN classified => s.loaded

LEMMA StaysCached == ASSUME NEW b, NEW s, Closing(b, s) PROVE Cached(s, NodesOf(classified))
<1>1. DOMAIN NodesOf(classified) = DOMAIN classified BY NodesOfClasses DEF Closing
<1>2. b \in DOMAIN classified => NodesOf(classified)[b] = classified[b].nodes BY DEF NodesOf
<1> QED BY <1>1, <1>2 DEF Cached, Closing

\* has() and isFully().
LEMMA HasIs ==
  ASSUME NEW b \in Block, NEW n \in TreeIndex, NEW mask, Has(b, n, mask) \/ IsFully(b, n, mask),
         ClassesAre(classified, cells_are), Cached(cache, NodesOf(classified))
  PROVE  Cached(cache', NodesOf(classified)) /\ AnswerOfClasses(classified, cells_are, answer')
<1>1. PICK s : s = Opened(b, n, DOMAIN classified) OBVIOUS
<1>2. /\ s \in Caches /\ s.block = b
      /\ s.loaded => b \in DOMAIN classified /\ Resumable(s, classified[b].nodes, n)
      /\ b \in DOMAIN classified => s.loaded
  <2>1. Asking(b, n, s) BY <1>1 DEF Asking
  <2> QED BY <2>1, AskingIs
<1>3. PICK op \in {"has", "fully"} : /\ op = "has" => Has(b, n, mask)
                                     /\ op = "fully" => IsFully(b, n, mask)
  OBVIOUS
<1>5. Has(b, n, mask) =>
        IF ~s.loaded THEN cache' = s /\ Asked("has", b, n, mask, FALSE)
        ELSE LET found == RegionFound(s, classified[b], n, mask)
             IN  cache' = found.cache /\ Asked("has", b, n, mask, HasAny(found.region, mask))
  BY <1>1 DEF Has
<1>6. IsFully(b, n, mask) =>
        IF ~s.loaded THEN cache' = s /\ Asked("fully", b, n, mask, FALSE)
        ELSE LET found == RegionFound(s, classified[b], n, mask)
             IN  cache' = found.cache /\ Asked("fully", b, n, mask, IsAll(found.region, mask))
  BY <1>1 DEF IsFully
<1>7. CASE ~s.loaded
  <2>1. cache' = s /\ answer' = [op |-> op, block |-> b, index |-> n, mask |-> mask, result |-> FALSE]
    <3>1. op = "has" => cache' = s /\ Asked("has", b, n, mask, FALSE) BY <1>3, <1>5, <1>7
    <3>2. op = "fully" => cache' = s /\ Asked("fully", b, n, mask, FALSE) BY <1>3, <1>6, <1>7
    <3>3. cache' = s /\ Asked(op, b, n, mask, FALSE) BY <3>1, <3>2
    <3> QED BY <3>3 DEF Asked
  <2>2. Closing(b, s) BY <1>2, <1>7 DEF Closing
  <2>3. b \notin DOMAIN classified BY <1>2, <1>7
  <2>4. AnswerOfClasses(classified, cells_are,
          [op |-> op, block |-> b, index |-> n, mask |-> mask, result |-> FALSE])
    BY <2>3 DEF AnswerOfClasses
  <2> QED BY <2>1, <2>2, <2>4, StaysCached
<1>8. CASE s.loaded
  <2>1. b \in DOMAIN classified BY <1>2, <1>8
  <2>2. PICK map, cells : map = classified[b] /\ cells = cells_are[b] OBVIOUS
  <2>3. SoundClasses(map, cells) BY <2>1, <2>2 DEF ClassesAre
  <2>4. PICK f : f = RegionFound(s, map, n, mask) OBVIOUS
  <2>5. /\ f.cache \in Caches /\ OnPath(f.cache, map.nodes)
        /\ f.cache.block = s.block /\ f.cache.loaded = s.loaded
        /\ ~SingleAbove(map, n) => Agrees(f.region, Below(cells, n), mask)
    <3>1. Resumable(s, map.nodes, n) BY <1>2, <1>8, <2>2
    <3> QED BY <2>3, <2>4, <3>1, RegionFoundIs
  <2>6. Closing(b, f.cache) BY <1>2, <1>8, <2>1, <2>2, <2>5 DEF Closing
  <2>7. CASE op = "has"
    <3>1. cache' = f.cache /\ answer' = [op |-> "has", block |-> b, index |-> n, mask |-> mask,
                                         result |-> HasAny(f.region, mask)]
      <4>1. cache' = f.cache /\ Asked("has", b, n, mask, HasAny(f.region, mask))
        BY <1>3, <1>5, <1>8, <2>2, <2>4, <2>7
      <4> QED BY <4>1, Zenon DEF Asked
    <3>2. ~SingleAbove(map, n) => HasAny(f.region, mask) = HasAny(Below(cells, n), mask)
      BY <2>5, AgreesIs
    <3>3. PICK a : a = [op |-> "has", block |-> b, index |-> n, mask |-> mask,
                        result |-> HasAny(f.region, mask)]
      OBVIOUS
    <3>4. /\ a.op = "has" /\ a.block = b /\ a.index = n /\ a.mask = mask
          /\ a.result = HasAny(f.region, mask)
      BY <3>3
    <3>5. ~SingleAbove(map, n) => a.result = HasAny(Below(cells, n), mask) BY <3>2, <3>4, Zenon
    <3>6. SingleAbove(map, n) \/ ClassAnswer(map, cells, a) BY <3>4, <3>5 DEF ClassAnswer
    <3>7. AnswerOfClasses(classified, cells_are, a) BY <2>1, <2>2, <3>4, <3>6 DEF AnswerOfClasses
    <3>8. answer' = a BY <3>1, <3>3
    <3> QED BY <2>6, <3>1, <3>7, <3>8, StaysCached
  <2>8. CASE op = "fully"
    <3>1. cache' = f.cache /\ answer' = [op |-> "fully", block |-> b, index |-> n, mask |-> mask,
                                         result |-> IsAll(f.region, mask)]
      <4>1. cache' = f.cache /\ Asked("fully", b, n, mask, IsAll(f.region, mask))
        BY <1>3, <1>6, <1>8, <2>2, <2>4, <2>8
      <4> QED BY <4>1, Zenon DEF Asked
    <3>2. ~SingleAbove(map, n) => IsAll(f.region, mask) = IsAll(Below(cells, n), mask)
      BY <2>5, AgreesIs
    <3>3. PICK a : a = [op |-> "fully", block |-> b, index |-> n, mask |-> mask,
                        result |-> IsAll(f.region, mask)]
      OBVIOUS
    <3>4. /\ a.op = "fully" /\ a.block = b /\ a.index = n /\ a.mask = mask
          /\ a.result = IsAll(f.region, mask)
      BY <3>3
    <3>5. ~SingleAbove(map, n) => a.result = IsAll(Below(cells, n), mask) BY <3>2, <3>4, Zenon
    <3>6. SingleAbove(map, n) \/ ClassAnswer(map, cells, a) BY <3>4, <3>5 DEF ClassAnswer
    <3>7. AnswerOfClasses(classified, cells_are, a) BY <2>1, <2>2, <3>4, <3>6 DEF AnswerOfClasses
    <3>8. answer' = a BY <3>1, <3>3
    <3> QED BY <2>6, <3>1, <3>7, <3>8, StaysCached
  <2> QED BY <2>7, <2>8
<1> QED BY <1>7, <1>8

\* getValueOrAncestor, from the parent of the index.
LEMMA BelowParent ==
  ASSUME NEW n \in TreeIndex, n # 1, NEW h \in (HeightOf(n) + 1)..H
  PROVE  /\ h \in 1..H /\ At(Code(n \div 2), h) = At(Code(n), h)
         /\ HeightOf(n \div 2) = HeightOf(n) + 1 /\ n \div 2 \in TreeIndex
         /\ Code(n) \in TreeCell /\ At(Code(n), HeightOf(n)) = n
         /\ At(Code(n), h - 1) \in UpFrom(n) /\ At(Code(n), h) \in UpFrom(n)
<1>0. H \in Nat BY Powers
<1>1. PICK g \in 0..H : g = HeightOf(n) /\ g + 1 \in 1..H
  <2>1. HeightOf(n) \in 0..H /\ HeightOf(n) + 1 \in 1..H BY ParentIs, HeightsAre
  <2> QED BY <2>1
<1>2. PICK p \in TreeIndex : p = n \div 2 /\ HeightOf(p) = g + 1 BY <1>1, ParentIs
<1>3. h \in 1..H /\ h \in 0..H /\ g + 1 <= h /\ g + 1 \in 0..H /\ h - 1 \in g..H /\ h \in g..H
  BY <1>0, <1>1
<1>4. Code(n) \in TreeCell /\ At(Code(n), g) = n /\ At(Code(n), g + 1) = p
  BY <1>1, <1>2, CodeIs, ParentIs
<1>5. Code(p) \in TreeCell /\ At(Code(p), g + 1) = p BY <1>2, CodeIs
<1>6. At(Code(p), h) = At(Code(n), h) BY <1>3, <1>4, <1>5, SameAbove
<1>7. UpFrom(n) = {At(Code(n), f) : f \in g..H} BY <1>1, UpFromIndex
<1> QED BY <1>1, <1>2, <1>3, <1>4, <1>6, <1>7

LEMMA GetValueIs ==
  ASSUME NEW b \in Block, NEW n \in TreeIndex, GetValue(b, n),
         ClassesAre(classified, cells_are), Cached(cache, NodesOf(classified))
  PROVE  Cached(cache', NodesOf(classified)) /\ AnswerOfClasses(classified, cells_are, answer')
<1>0. H \in Nat BY Powers
<1>1. n # 1 BY DEF GetValue
<1>2. PICK p \in TreeIndex : p = n \div 2 BY <1>1, ParentIs
<1>3. PICK s : s = Opened(b, p, DOMAIN classified) OBVIOUS
<1>4. /\ s \in Caches /\ s.block = b
      /\ s.loaded => b \in DOMAIN classified /\ Resumable(s, classified[b].nodes, p)
      /\ b \in DOMAIN classified => s.loaded
  <2>1. Asking(b, p, s) BY <1>3 DEF Asking
  <2> QED BY <2>1, AskingIs
<1>5. PICK t : t = NodeFound(s, IF s.loaded THEN classified[b].nodes ELSE {}, p) OBVIOUS
<1>6. PICK m : m = 2 * Found(t) + ChildAt(Code(n), t.height) OBVIOUS
<1>7. /\ cache' = t
      /\ Asked("class", b, n, {}, IF t.loaded THEN <<m, classified[b].masks[m]>> ELSE <<>>)
  BY <1>2, <1>3, <1>5, <1>6 DEF GetValue
<1>8. CASE ~s.loaded
  <2>1. t = s BY <1>5, <1>8 DEF NodeFound
  <2>2. cache' = s /\ answer' = [op |-> "class", block |-> b, index |-> n, mask |-> {}, result |-> <<>>]
    BY <1>7, <1>8, <2>1 DEF Asked
  <2>3. Closing(b, s) BY <1>4, <1>8 DEF Closing
  <2>4. b \notin DOMAIN classified BY <1>4, <1>8
  <2>5. AnswerOfClasses(classified, cells_are,
          [op |-> "class", block |-> b, index |-> n, mask |-> {}, result |-> <<>>])
    BY <2>4 DEF AnswerOfClasses
  <2> QED BY <2>2, <2>3, <2>5, StaysCached
<1>9. CASE s.loaded
  <2>1. b \in DOMAIN classified BY <1>4, <1>9
  <2>2. PICK map, cells : map = classified[b] /\ cells = cells_are[b] OBVIOUS
  <2>3. SoundClasses(map, cells) BY <2>1, <2>2 DEF ClassesAre
  <2>4. t = NodeFound(s, map.nodes, p) BY <1>5, <1>9, <2>2
  <2>5. s.code = Code(p) /\ Resumable(s, map.nodes, p) BY <1>4, <1>9, <2>2 DEF Resumable
  <2>6. /\ t \in Caches /\ OnPath(t, map.nodes) /\ HeightOf(p) <= t.height
        /\ t.block = b /\ t.code = Code(p) /\ t.loaded
        /\ t.height = HeightOf(p) \/ At(Code(p), t.height - 1) \notin map.nodes
    BY <1>4, <1>9, <2>4, <2>5, FoundIs
  <2>7. Closing(b, t) BY <2>1, <2>2, <2>6 DEF Closing
  <2>8. PICK g \in 0..H : g = HeightOf(n) /\ HeightOf(p) = g + 1 BY <1>1, <1>2, HeightsAre, ParentIs
  <2>9. PICK h \in (g + 1)..H : h = t.height
    <3>1. t.height \in 0..H BY <2>6 DEF Caches
    <3> QED BY <1>0, <2>6, <2>8, <3>1
  <2>10. /\ h \in 1..H /\ At(Code(p), h) = At(Code(n), h)
         /\ Code(n) \in TreeCell /\ At(Code(n), g) = n
         /\ At(Code(n), h - 1) \in UpFrom(n) /\ At(Code(n), h) \in UpFrom(n)
    BY <1>1, <1>2, <2>8, <2>9, BelowParent
  <2>11. Found(t) = At(Code(n), h) /\ At(Code(n), h) \in map.nodes
    <3>1. h \in t.height..H BY <2>9, <2>10
    <3>2. t.stack[h] = At(Code(p), h) /\ At(Code(p), h) \in map.nodes BY <2>6, <3>1 DEF OnPath
    <3> QED BY <2>6, <2>9, <2>10, <3>2 DEF Found
  <2>12. /\ m = At(Code(n), h - 1) /\ m # 1 /\ m \div 2 = At(Code(n), h)
         /\ m \in UpFrom(n) /\ m \in TreeIndex
    <3>1. m = 2 * At(Code(n), h) + ChildAt(Code(n), h) BY <1>6, <2>9, <2>11
    <3>2. m = At(Code(n), h - 1) /\ m # 1 /\ m \div 2 = At(Code(n), h) BY <2>10, <3>1, StepDown
    <3>3. h - 1 \in 0..H BY <1>0, <2>10
    <3>4. m \in TreeIndex BY <2>10, <3>2, <3>3, AtIs
    <3> QED BY <2>10, <3>2, <3>4
  <2>13. m = n \/ m \in UpFrom(n) \ map.nodes
    <3>1. CASE h = g + 1
      <4>1. h - 1 = g BY <2>8, <3>1
      <4> QED BY <2>10, <2>12, <4>1
    <3>2. CASE h # g + 1
      <4>1. At(Code(p), h - 1) \notin map.nodes BY <2>6, <2>8, <2>9, <3>2
      <4>2. h - 1 \in (g + 1)..H BY <1>0, <2>8, <2>9, <3>2
      <4>3. At(Code(p), h - 1) = At(Code(n), h - 1) BY <1>1, <1>2, <2>8, <4>2, BelowParent
      <4> QED BY <2>12, <4>1, <4>3
    <3> QED BY <3>1, <3>2
  <2>14. ~SingleAbove(map, n) => map.masks[m] = Below(cells, m)
    <3>1. SUFFICES ASSUME ~SingleAbove(map, n) PROVE map.masks[m] = Below(cells, m) OBVIOUS
    <3>2. Visible(map, n, m) BY <2>10, <2>11, <2>12, <3>1 DEF Visible
    <3> QED BY <2>3, <3>2, MasksOfIndices
  <2>15. PICK a : a = [op |-> "class", block |-> b, index |-> n, mask |-> {},
                       result |-> <<m, map.masks[m]>>]
    OBVIOUS
  <2>16. cache' = t /\ answer' = a BY <1>7, <2>2, <2>6, <2>15 DEF Asked
  <2>17. /\ a.op = "class" /\ a.block = b /\ a.index = n
         /\ a.result[1] = m /\ a.result[2] = map.masks[m]
    BY <2>15
  <2>18. SingleAbove(map, n) \/ ClassAnswer(map, cells, a) BY <2>13, <2>14, <2>17 DEF ClassAnswer
  <2>19. AnswerOfClasses(classified, cells_are, a)
    BY <2>1, <2>2, <2>17, <2>18 DEF AnswerOfClasses
  <2> QED BY <2>7, <2>16, <2>19, StaysCached
<1> QED BY <1>8, <1>9

LEMMA AskClassesIs ==
  ASSUME AskClasses, ClassesAre(classified, cells_are), Cached(cache, NodesOf(classified))
  PROVE  Cached(cache', NodesOf(classified)) /\ AnswerOfClasses(classified, cells_are, answer')
<1>1. PICK b \in Block, n \in TreeIndex :
        \/ \E mask \in QueryMask : Has(b, n, mask) \/ IsFully(b, n, mask)
        \/ GetValue(b, n)
  BY DEF AskClasses
<1>2. CASE GetValue(b, n) BY <1>2, GetValueIs
<1>3. ASSUME NEW mask \in QueryMask, Has(b, n, mask) \/ IsFully(b, n, mask)
      PROVE  Cached(cache', NodesOf(classified)) /\ AnswerOfClasses(classified, cells_are, answer')
  BY <1>3, HasIs
<1> QED BY <1>1, <1>2, <1>3

-----------------------------------------------------------------------------
(* Queries for values *)

\* One level down, to a node or 0 and with the value there.
CanLower(s, x, y) == s \in Caches /\ s.height # 0 /\ x \in Int /\ y \in Int
Lower(s, x, y) == [s EXCEPT !.height = @ - 1, !.stack[s.height - 1] = x, !.values[s.height - 1] = y]

LEMMA LowerIs ==
  ASSUME NEW s, NEW x, NEW y, CanLower(s, x, y)
  PROVE  LET t == Lower(s, x, y)
         IN  /\ t \in Caches /\ Deeper(s, t) /\ t.height = s.height - 1
             /\ \A f \in 0..H : t.stack[f] = IF f = s.height - 1 THEN x ELSE s.stack[f]
             /\ \A f \in 0..H : t.values[f] = IF f = s.height - 1 THEN y ELSE s.values[f]
<1>0. H \in Nat BY Powers
<1>1. PICK h \in 1..H : h = s.height
  <2>1. s.height \in 0..H /\ s.height # 0 BY DEF CanLower, Caches
  <2> QED BY <1>0, <2>1
<1>2. PICK b \in Block \cup {"none"}, l \in BOOLEAN, c \in Nat,
           old \in [0..H -> Int], before \in [0..H -> Int] :
        s = [block |-> b, loaded |-> l, height |-> h, code |-> c, stack |-> old, values |-> before]
  BY <1>1 DEF CanLower, Caches
<1>3. x \in Int /\ y \in Int BY DEF CanLower
<1>4. PICK stack \in [0..H -> Int] : stack = [old EXCEPT ![h - 1] = x] BY <1>3
<1>5. PICK values \in [0..H -> Int] : values = [before EXCEPT ![h - 1] = y] BY <1>3
<1>6. PICK t : t = [block |-> b, loaded |-> l, height |-> h - 1, code |-> c, stack |-> stack,
                    values |-> values]
  OBVIOUS
<1>7. Lower(s, x, y) = t
  <2>1. s.height - 1 = h - 1 BY <1>1
  <2>2. PICK u : u = [s EXCEPT !.height = h - 1] OBVIOUS
  <2>3. PICK v : v = [u EXCEPT !.stack[h - 1] = x] OBVIOUS
  <2>4. Lower(s, x, y) = [v EXCEPT !.values[h - 1] = y] BY <2>1, <2>2, <2>3 DEF Lower
  <2>5. u = [block |-> b, loaded |-> l, height |-> h - 1, code |-> c, stack |-> old, values |-> before]
    BY <1>2, <2>2
  <2>6. u.stack = old BY <2>5
  <2>7. v = [u EXCEPT !.stack = stack] BY <1>4, <2>3, <2>6
  <2>8. v = [block |-> b, loaded |-> l, height |-> h - 1, code |-> c, stack |-> stack,
             values |-> before]
    BY <2>5, <2>7
  <2>9. v.values = before BY <2>8
  <2>10. [v EXCEPT !.values[h - 1] = y] = [v EXCEPT !.values = values] BY <1>5, <2>9
  <2>11. [v EXCEPT !.values = values] = t BY <1>6, <2>8
  <2> QED BY <2>4, <2>10, <2>11
<1>8. h - 1 \in 0..H /\ h - 1 <= h BY <1>0
<1>9. t \in Caches BY <1>6, <1>8 DEF Caches
<1>10. Deeper(s, t) BY <1>2, <1>6, <1>8 DEF Deeper
<1>11. \A f \in 0..H : stack[f] = IF f = h - 1 THEN x ELSE old[f] BY <1>4
<1>12. \A f \in 0..H : values[f] = IF f = h - 1 THEN y ELSE before[f] BY <1>5
<1>13. /\ s.height = h /\ s.stack = old /\ s.values = before
       /\ t.height = h - 1 /\ t.stack = stack /\ t.values = values
  BY <1>2, <1>6
<1> QED BY <1>7, <1>9, <1>10, <1>11, <1>12, <1>13

\* A pointer to a node is null when there is no node.
Pointer(tree, n) == IF n \in tree.nodes THEN n ELSE 0

\* From its height upwards a cache has the values on the way to the cell of its
\* code, and the nodes, of which only the lowest may be missing.
ValuePath(tree, s) ==
  /\ s.code \in TreeCell
  /\ \A h \in s.height..H : /\ s.values[h] = Scales(tree)[At(s.code, h)]
                            /\ s.stack[h] = Pointer(tree, At(s.code, h))
  /\ \A h \in (s.height + 1)..H : At(s.code, h) \in tree.nodes

ValueWalkable(tree, s, g) ==
  SoundTree(tree) /\ g \in 0..H /\ s \in Caches /\ ValuePath(tree, s) /\ g <= s.height

LEMMA ValueStepIs ==
  ASSUME NEW tree, NEW g, NEW s, ValueWalkable(tree, s, g)
  PROVE  LET t == ValueStep(tree, g, s)
         IN  /\ t \in Caches /\ ValuePath(tree, t) /\ Deeper(s, t) /\ g <= t.height
             /\ t = s \/ t.height < s.height
             /\ t = s => s.height = g \/ At(s.code, s.height) \notin tree.nodes
<1>0. H \in Nat BY Powers
<1>a. SoundTree(tree) /\ g \in 0..H /\ s \in Caches /\ ValuePath(tree, s) /\ g <= s.height
  BY DEF ValueWalkable
<1>1. PICK c \in TreeCell, h \in 0..H : c = s.code /\ h = s.height BY <1>a DEF ValuePath, Caches
<1>2. h \in h..H BY <1>0
<1>3. s.stack[h] = Pointer(tree, At(c, h)) /\ s.values[h] = Scales(tree)[At(c, h)]
  BY <1>a, <1>1, <1>2 DEF ValuePath
<1>4. At(c, h) # 0 BY <1>1, AtIs, IndicesAre
<1>5. Deeper(s, s) BY <1>1 DEF Deeper
<1>6. CASE h = g \/ At(c, h) \notin tree.nodes
  <2>1. s.stack[s.height] = 0 \/ s.height = g BY <1>1, <1>3, <1>6 DEF Pointer
  <2>2. ValueStep(tree, g, s) = s BY <2>1 DEF ValueStep
  <2> QED BY <1>a, <1>1, <1>5, <1>6, <2>2
<1>7. CASE h # g /\ At(c, h) \in tree.nodes
  <2>0. h \in 1..H /\ h - 1 \in 0..H /\ g <= h - 1 /\ h - 1 < h BY <1>0, <1>a, <1>1, <1>7
  <2>1. s.stack[h] = At(c, h) BY <1>3, <1>7 DEF Pointer
  <2>2. PICK x : x = ChildIn(tree.nodes, At(c, h), c, h) OBVIOUS
  <2>3. x = Pointer(tree, At(c, h - 1)) /\ x \in Int
    <3>1. x = Pointer(tree, At(c, h - 1)) BY <2>0, <2>2, ChildIs DEF Pointer
    <3>2. At(c, h - 1) \in Int BY <2>0, AtIs, IndicesAre
    <3> QED BY <3>1, <3>2 DEF Pointer
  <2>4. PICK half : half = Half(tree, At(c, h)) OBVIOUS
  <2>5. PICK y : y = s.values[h] + (IF ChildAt(c, h) = 0 THEN -half ELSE half) OBVIOUS
  <2>6. y = Scales(tree)[At(c, h - 1)] /\ y \in Int
    <3>1. /\ Scales(tree)[At(c, h)] \in Int /\ half \in Int
          /\ Scales(tree)[At(c, h - 1)]
               = Scales(tree)[At(c, h)] + (IF ChildAt(c, h) = 0 THEN -half ELSE half)
      BY <1>a, <2>0, <2>4, ScaleBelow
    <3>2. PICK top \in Int : top = Scales(tree)[At(c, h)] BY <3>1
    <3>3. y = top + (IF ChildAt(c, h) = 0 THEN -half ELSE half) BY <1>3, <2>5, <3>2
    <3>4. y \in Int BY <3>1, <3>3
    <3> QED BY <3>1, <3>2, <3>3, <3>4
  <2>7. ValueStep(tree, g, s) = Lower(s, x, y)
    <3>1. s.stack[s.height] = At(c, h) /\ s.height # g BY <1>1, <1>7, <2>1
    <3>2. s.values[s.height] + (IF ChildAt(s.code, s.height) = 0 THEN -Half(tree, At(c, h))
                                ELSE Half(tree, At(c, h))) = y
      BY <1>1, <2>4, <2>5
    <3>3. ChildIn(tree.nodes, At(c, h), s.code, s.height) = x BY <1>1, <2>2
    <3> QED BY <1>4, <3>1, <3>2, <3>3 DEF ValueStep, Lower
  <2>8. PICK t : t = Lower(s, x, y) OBVIOUS
  <2>9. /\ t \in Caches /\ Deeper(s, t) /\ t.height = h - 1
        /\ \A f \in 0..H : t.stack[f] = IF f = h - 1 THEN x ELSE s.stack[f]
        /\ \A f \in 0..H : t.values[f] = IF f = h - 1 THEN y ELSE s.values[f]
    <3>1. CanLower(s, x, y) BY <1>a, <1>1, <2>0, <2>3, <2>6 DEF CanLower
    <3> QED BY <1>1, <2>8, <3>1, LowerIs
  <2>10. t.code = c BY <1>1, <2>9 DEF Deeper
  <2>11. ASSUME NEW f \in (h - 1)..H
         PROVE  t.values[f] = Scales(tree)[At(c, f)] /\ t.stack[f] = Pointer(tree, At(c, f))
    <3>1. f \in 0..H BY <2>0
    <3>2. CASE f = h - 1 BY <2>3, <2>6, <2>9, <3>1, <3>2
    <3>3. CASE f # h - 1
      <4>1. f \in h..H BY <2>0, <3>3
      <4> QED BY <1>a, <1>1, <2>9, <3>1, <3>3, <4>1 DEF ValuePath
    <3> QED BY <3>2, <3>3
  <2>12. ASSUME NEW f \in ((h - 1) + 1)..H PROVE At(c, f) \in tree.nodes
    <3>1. f = h \/ f \in (h + 1)..H BY <2>0
    <3> QED BY <1>a, <1>1, <1>7, <3>1 DEF ValuePath
  <2>13. ValuePath(tree, t) BY <2>9, <2>10, <2>11, <2>12 DEF ValuePath
  <2>14. t # s /\ t.height < s.height /\ g <= t.height BY <1>1, <2>0, <2>9
  <2> QED BY <2>7, <2>8, <2>9, <2>13, <2>14
<1> QED BY <1>6, <1>7

LEMMA ValueWalkIs ==
  ASSUME NEW tree, NEW g, NEW s, ValueWalkable(tree, s, g)
  PROVE  LET t == ValueWalk(tree, g, s)
         IN  /\ t \in Caches /\ ValuePath(tree, t) /\ Deeper(s, t) /\ g <= t.height
             /\ t.height = g \/ At(s.code, t.height) \notin tree.nodes
<1>0. H \in Nat /\ TreeHeight = H BY Powers DEF H
<1>a. SoundTree(tree) /\ g \in 0..H /\ s \in Caches /\ ValuePath(tree, s) /\ g <= s.height
  BY DEF ValueWalkable
<1> DEFINE V == {t \in Caches : ValuePath(tree, t) /\ Deeper(s, t) /\ g <= t.height}
           step == [t \in V |-> ValueStep(tree, g, t)]
           rank == [t \in V |-> t.height]
<1>1. s \in V BY <1>a DEF Deeper, Caches
<1>2. ASSUME NEW t \in V PROVE /\ ValueStep(tree, g, t) \in V
                               /\ ValueStep(tree, g, t) = t \/ ValueStep(tree, g, t).height < t.height
                               /\ ValueStep(tree, g, t) = t =>
                                    t.height = g \/ At(t.code, t.height) \notin tree.nodes
  <2>1. t \in Caches /\ ValuePath(tree, t) /\ Deeper(s, t) /\ g <= t.height OBVIOUS
  <2>2. PICK u : u = ValueStep(tree, g, t) OBVIOUS
  <2>3. /\ u \in Caches /\ ValuePath(tree, u) /\ Deeper(t, u) /\ g <= u.height
        /\ u = t \/ u.height < t.height
        /\ u = t => t.height = g \/ At(t.code, t.height) \notin tree.nodes
    <3>1. ValueWalkable(tree, t, g) BY <1>a, <2>1 DEF ValueWalkable
    <3> QED BY <2>2, <3>1, ValueStepIs
  <2>4. s.height \in Int /\ t.height \in Int /\ u.height \in Int BY <1>a, <2>1, <2>3 DEF Caches
  <2>5. Deeper(s, u) BY <2>1, <2>3, <2>4 DEF Deeper
  <2> QED BY <2>2, <2>3, <2>5
<1>3. step \in [V -> V]
  <2> HIDE DEF V
  <2> QED BY <1>2
<1>4. rank \in [V -> 0..H]
  <2>1. \A t \in V : t.height \in 0..H BY DEF Caches
  <2> HIDE DEF V
  <2> QED BY <2>1
<1>5. \A t \in V : step[t] = t \/ rank[step[t]] < rank[t]
  <2> HIDE DEF V
  <2> QED BY <1>2
<1> HIDE DEF V
<1>6. PICK f \in [0..H -> V] : f = [k \in 0..H |-> IF k = 0 THEN s ELSE step[f[k - 1]]]
  <2> HIDE DEF step
  <2>1. CanWalk(H, V, s, step) BY <1>0, <1>1, <1>3 DEF CanWalk
  <2> QED BY <2>1, WalkExists
<1>7. f = [k \in 0..H |-> IF k = 0 THEN s ELSE ValueStep(tree, g, f[k - 1])]
  <2>1. ASSUME NEW k \in 0..H, k # 0 PROVE step[f[k - 1]] = ValueStep(tree, g, f[k - 1])
    <3>1. k - 1 \in 0..H BY <1>0, <2>1
    <3> QED BY <3>1
  <2> HIDE DEF step
  <2> QED BY <1>6, <2>1
<1>8. PICK walk : /\ walk = [k \in 0..H |-> IF k = 0 THEN s ELSE ValueStep(tree, g, walk[k - 1])]
                  /\ ValueWalk(tree, g, s) = walk[H]
  <2>1. \E walk : walk = [k \in 0..TreeHeight |-> IF k = 0 THEN s ELSE ValueStep(tree, g, walk[k - 1])]
    BY <1>0, <1>7
  <2> DEFINE walk == CHOOSE walk : walk = [k \in 0..TreeHeight |->
                                            IF k = 0 THEN s ELSE ValueStep(tree, g, walk[k - 1])]
  <2>2. walk = [k \in 0..TreeHeight |-> IF k = 0 THEN s ELSE ValueStep(tree, g, walk[k - 1])]
    BY <2>1, Zenon
  <2>3. ValueWalk(tree, g, s) = walk[TreeHeight] BY Zenon DEF ValueWalk
  <2> HIDE DEF walk
  <2> QED BY <1>0, <2>2, <2>3
<1>9. IsWalk(walk, H, V, step, rank)
  <2>1. walk[0] = s BY <1>0, <1>8
  <2>2. ASSUME NEW k \in 1..H, walk[k - 1] \in V PROVE walk[k] = step[walk[k - 1]]
    <3>1. k \in 0..H /\ k # 0 BY <1>0
    <3>2. walk[k] = ValueStep(tree, g, walk[k - 1]) BY <1>8, <3>1
    <3> QED BY <2>2, <3>2
  <2> HIDE DEF step, rank
  <2> QED BY <1>1, <1>3, <1>4, <1>5, <2>1, <2>2 DEF IsWalk
<1>10. walk[H] \in V /\ step[walk[H]] = walk[H]
  <2> HIDE DEF step, rank
  <2> QED BY <1>0, <1>9, WalkEnds
<1>11. PICK t \in V : t = walk[H] BY <1>10
<1>12. ValueStep(tree, g, t) = t BY <1>10, <1>11
<1>13. t.height = g \/ At(t.code, t.height) \notin tree.nodes BY <1>2, <1>12
<1>14. t \in Caches /\ ValuePath(tree, t) /\ Deeper(s, t) /\ g <= t.height BY DEF V
<1> QED BY <1>8, <1>11, <1>13, <1>14 DEF Deeper

\* What is remembered of the block in which a value has been asked for last.
ValueCached(trees, s) ==
  /\ s \in Caches
  /\ s.block \in Block => IF s.block \in DOMAIN trees
                          THEN s.stack[H] # 0 /\ ValuePath(trees[s.block], s)
                          ELSE s.stack[H] = 0

ValueAnswer(trees, a) ==
  /\ a.op = "value"
  /\ a.result = IF a.block \in DOMAIN trees THEN Scales(trees[a.block])[a.index] ELSE 0

\* The top of a path is the root.
LEMMA PathFromRoot ==
  ASSUME NEW tree, SoundTree(tree), NEW s \in Caches, ValuePath(tree, s)
  PROVE  s.stack[H] = 1
<1>0. H \in Nat BY Powers
<1>1. s.height \in 0..H /\ s.code \in TreeCell BY DEF Caches, ValuePath
<1>2. H \in s.height..H BY <1>0, <1>1
<1>3. s.stack[H] = Pointer(tree, At(s.code, H)) BY <1>2 DEF ValuePath
<1>4. At(s.code, H) = 1 /\ 1 \in tree.nodes BY <1>1, AtTop DEF SoundTree
<1> QED BY <1>3, <1>4 DEF Pointer

\* The value at the end of a walk is that of its index.
ValueFound(tree, n, t) ==
  /\ SoundTree(tree) /\ n \in TreeIndex /\ t \in Caches /\ ValuePath(tree, t)
  /\ t.code = Code(n) /\ HeightOf(n) <= t.height
  /\ t.height = HeightOf(n) \/ At(t.code, t.height) \notin tree.nodes

LEMMA FoundValue ==
  ASSUME NEW tree, NEW n, NEW t, ValueFound(tree, n, t)
  PROVE  t.values[t.height] = Scales(tree)[n]
<1>0. H \in Nat BY Powers
<1>a. /\ SoundTree(tree) /\ n \in TreeIndex /\ t \in Caches /\ ValuePath(tree, t)
      /\ t.code = Code(n) /\ HeightOf(n) <= t.height
      /\ t.height = HeightOf(n) \/ At(t.code, t.height) \notin tree.nodes
  BY DEF ValueFound
<1>1. PICK c \in TreeCell, g \in 0..H, h \in 0..H :
        c = Code(n) /\ g = HeightOf(n) /\ h = t.height /\ At(c, g) = n
  BY <1>a, CodeIs, HeightsAre DEF Caches
<1>2. h \in h..H BY <1>0
<1>3. t.values[h] = Scales(tree)[At(c, h)] BY <1>a, <1>1, <1>2 DEF ValuePath
<1>4. CASE h = g BY <1>1, <1>3, <1>4
<1>5. CASE At(c, h) \notin tree.nodes
  <2>1. g \in 0..h BY <1>a, <1>1
  <2>2. Scales(tree)[At(c, g)] = Scales(tree)[At(c, h)] BY <1>a, <1>5, <2>1, ScalesBelowMissing
  <2> QED BY <1>1, <1>3, <2>2
<1> QED BY <1>a, <1>1, <1>4, <1>5

LEMMA StaysTyped ==
  ASSUME NEW f \in [0..H -> Int], NEW h, NEW v \in Int PROVE [f EXCEPT ![h] = v] \in [0..H -> Int]
OBVIOUS

\* Where a query for a value in a block that there is starts.
ValueStart(b, n) ==
  LET now == [cache EXCEPT !.block = b, !.code = Code(n)]
  IN  IF b = cache.block
      THEN [now EXCEPT !.height = LastCommonAncestor(Code(n), HeightOf(n), cache.code, cache.height)]
      ELSE [now EXCEPT !.stack[TreeHeight] = 1, !.values[TreeHeight] = occupancy[b].scale,
                       !.height = TreeHeight]

Starting(b, n) ==
  /\ b \in DOMAIN occupancy /\ b \in Block /\ n \in TreeIndex
  /\ SoundTree(occupancy[b]) /\ ValueCached(occupancy, cache)

LEMMA ValueStartIs ==
  ASSUME NEW b, NEW n, Starting(b, n)
  PROVE  LET s == ValueStart(b, n)
         IN  /\ s \in Caches /\ ValuePath(occupancy[b], s) /\ HeightOf(n) <= s.height
             /\ s.block = b /\ s.code = Code(n)
<1>0. H \in Nat /\ TreeHeight = H /\ H \in 0..H BY Powers DEF H
<1>a. /\ b \in DOMAIN occupancy /\ b \in Block /\ n \in TreeIndex
      /\ SoundTree(occupancy[b]) /\ ValueCached(occupancy, cache)
  BY DEF Starting
<1>1. PICK tree : tree = occupancy[b] OBVIOUS
<1>2. PICK c \in TreeCell, g \in 0..H : c = Code(n) /\ g = HeightOf(n) /\ c \in Nat
  BY <1>a, CodeIs, HeightsAre, IndicesAre DEF TreeIndex
<1>3. PICK d \in Block \cup {"none"}, l \in BOOLEAN, i \in 0..H, e \in Nat,
           stack \in [0..H -> Int], values \in [0..H -> Int] :
        cache = [block |-> d, loaded |-> l, height |-> i, code |-> e, stack |-> stack,
                 values |-> values]
  BY <1>a DEF ValueCached, Caches
<1>4. PICK s : s = ValueStart(b, n) OBVIOUS
<1>5. CASE b = d
  <2>1. ValuePath(tree, cache) BY <1>a, <1>1, <1>3, <1>5 DEF ValueCached
  <2>2. e \in TreeCell BY <1>3, <2>1 DEF ValuePath
  <2>3. PICK h : h = LastCommonAncestor(c, g, e, i) OBVIOUS
  <2>4. h \in 0..H /\ g <= h /\ i <= h /\ At(c, h) = At(e, h)
    <3> HIDE DEF H
    <3> QED BY <2>2, <2>3, AncestorIs
  <2>5. s = [block |-> b, loaded |-> l, height |-> h, code |-> c, stack |-> stack, values |-> values]
    <3>1. b = cache.block BY <1>3, <1>5
    <3>2. cache.code = e /\ cache.height = i BY <1>3
    <3>3. s = [[cache EXCEPT !.block = b, !.code = c] EXCEPT !.height = h]
      BY <1>2, <1>4, <2>3, <3>1, <3>2 DEF ValueStart
    <3> QED BY <1>3, <3>3
  <2>6. s \in Caches BY <1>a, <1>2, <2>4, <2>5 DEF Caches
  <2>7. ASSUME NEW f \in h..H
        PROVE  At(c, f) = At(e, f) /\ values[f] = Scales(tree)[At(c, f)]
               /\ stack[f] = Pointer(tree, At(c, f))
    <3>1. f \in i..H /\ f \in 0..H /\ h <= f BY <1>0, <2>4
    <3>2. At(c, f) = At(e, f) BY <2>2, <2>4, <3>1, SameAbove
    <3>3. values[f] = Scales(tree)[At(e, f)] /\ stack[f] = Pointer(tree, At(e, f))
      BY <1>3, <2>1, <3>1 DEF ValuePath
    <3> QED BY <3>2, <3>3
  <2>8. ASSUME NEW f \in (h + 1)..H PROVE At(c, f) \in tree.nodes
    <3>1. f \in (i + 1)..H /\ f \in h..H BY <1>0, <2>4
    <3>2. At(e, f) \in tree.nodes BY <1>3, <2>1, <3>1 DEF ValuePath
    <3> QED BY <2>7, <3>1, <3>2
  <2>9. ValuePath(tree, s) BY <2>5, <2>7, <2>8 DEF ValuePath
  <2> QED BY <1>1, <1>2, <1>4, <2>4, <2>5, <2>6, <2>9
<1>6. CASE b # d
  <2>1. tree.scale \in Int BY <1>a, <1>1 DEF SoundTree
  <2>2. PICK new \in [0..H -> Int] : new = [stack EXCEPT ![H] = 1]
    <3>1. PICK root \in Int : root = 1 OBVIOUS
    <3>2. [stack EXCEPT ![H] = root] \in [0..H -> Int] BY StaysTyped
    <3> QED BY <3>1, <3>2
  <2>3. PICK fresh \in [0..H -> Int] : fresh = [values EXCEPT ![H] = tree.scale]
    <3>1. PICK scale \in Int : scale = tree.scale BY <2>1
    <3>2. [values EXCEPT ![H] = scale] \in [0..H -> Int] BY StaysTyped
    <3> QED BY <3>1, <3>2
  <2>4. s = [block |-> b, loaded |-> l, height |-> H, code |-> c, stack |-> new, values |-> fresh]
    <3>1. b # cache.block BY <1>3, <1>6
    <3>2. PICK now : now = [cache EXCEPT !.block = b, !.code = c] OBVIOUS
    <3>3. now = [block |-> b, loaded |-> l, height |-> i, code |-> c, stack |-> stack,
                 values |-> values]
      BY <1>3, <3>2
    <3>4. s = [now EXCEPT !.stack[H] = 1, !.values[H] = tree.scale, !.height = H]
      BY <1>0, <1>1, <1>2, <1>4, <3>1, <3>2 DEF ValueStart
    <3>5. PICK u : u = [now EXCEPT !.stack[H] = 1] OBVIOUS
    <3>6. now.stack = stack BY <3>3
    <3>7. u = [now EXCEPT !.stack = new] BY <2>2, <3>5, <3>6
    <3>8. u = [block |-> b, loaded |-> l, height |-> i, code |-> c, stack |-> new,
               values |-> values]
      BY <3>3, <3>7
    <3>9. PICK v : v = [u EXCEPT !.values[H] = tree.scale] OBVIOUS
    <3>10. u.values = values BY <3>8
    <3>11. v = [u EXCEPT !.values = fresh] BY <2>3, <3>9, <3>10
    <3>12. v = [block |-> b, loaded |-> l, height |-> i, code |-> c, stack |-> new,
                values |-> fresh]
      BY <3>8, <3>11
    <3>13. s = [v EXCEPT !.height = H] BY <3>4, <3>5, <3>9
    <3> QED BY <3>12, <3>13
  <2>5. s \in Caches BY <1>0, <1>a, <1>2, <2>4 DEF Caches
  <2>6. new[H] = 1 /\ fresh[H] = tree.scale BY <1>0, <2>2, <2>3
  <2>7. At(c, H) = 1 /\ 1 \in tree.nodes BY <1>a, <1>1, AtTop DEF SoundTree
  <2>8. Scales(tree)[1] = tree.scale
    <3>1. tree.scale \in Int /\ tree.details \in [TreeNode -> Int] BY <1>a, <1>1 DEF SoundTree
    <3> QED BY <3>1, ScalesAre
  <2>9. ValuePath(tree, s)
    <3>1. \A f \in H..H : f = H BY <1>0
    <3>2. \A f \in (H + 1)..H : FALSE BY <1>0
    <3> QED BY <2>4, <2>6, <2>7, <2>8, <3>1, <3>2 DEF ValuePath, Pointer
  <2> QED BY <1>1, <1>2, <1>4, <2>4, <2>5, <2>9
<1> QED BY <1>5, <1>6

\* Loading the node at the height of the last query again changes nothing.
LEMMA ReloadedIs ==
  ASSUME NEW tree, NEW s \in Caches, ValuePath(tree, s), cache \in Caches
  PROVE  Reloaded(tree, s) = s
<1>0. H \in Nat /\ TreeHeight = H BY Powers DEF H
<1>1. PICK c \in TreeCell, h \in 0..H : c = s.code /\ h = s.height BY DEF ValuePath, Caches
<1>2. CASE cache.height # TreeHeight /\ s.height = cache.height
  <2>1. h + 1 \in 1..H /\ h + 1 \in h..H /\ h \in h..H /\ h + 1 \in (h + 1)..H /\ (h + 1) - 1 = h
    BY <1>0, <1>1, <1>2
  <2>2. s.stack[h + 1] = At(c, h + 1) BY <1>1, <2>1 DEF ValuePath, Pointer
  <2>3. s.stack[h] = Pointer(tree, At(c, h)) BY <1>1, <2>1 DEF ValuePath
  <2>4. ChildIn(tree.nodes, s.stack[h + 1], c, h + 1) = s.stack[h]
    <3>1. ChildIn(tree.nodes, At(c, h + 1), c, h + 1)
            = IF At(c, (h + 1) - 1) \in tree.nodes THEN At(c, (h + 1) - 1) ELSE 0
      BY <2>1, ChildIs
    <3> QED BY <2>1, <2>2, <2>3, <3>1 DEF Pointer
  <2>5. PICK b \in Block \cup {"none"}, l \in BOOLEAN, e \in Nat,
             stack \in [0..H -> Int], values \in [0..H -> Int] :
          s = [block |-> b, loaded |-> l, height |-> h, code |-> e, stack |-> stack,
               values |-> values]
    BY <1>1 DEF Caches
  <2>6. Reloaded(tree, s) = [s EXCEPT !.stack[h] = s.stack[h]] BY <1>1, <1>2, <2>4 DEF Reloaded
  <2>7. [s EXCEPT !.stack[h] = s.stack[h]] = [s EXCEPT !.stack = [stack EXCEPT ![h] = stack[h]]]
    BY <2>5
  <2>8. [stack EXCEPT ![h] = stack[h]] = stack OBVIOUS
  <2>9. [s EXCEPT !.stack = stack] = s BY <2>5
  <2> QED BY <2>6, <2>7, <2>8, <2>9
<1>3. CASE ~(cache.height # TreeHeight /\ s.height = cache.height) BY <1>3 DEF Reloaded
<1> QED BY <1>2, <1>3

\* getCellValue.
LEMMA KnownValueIs ==
  ASSUME NEW b \in Block, NEW n \in TreeIndex, KnownValue(b, n),
         occupancy \in OccupancyMaps, ValueCached(occupancy, cache)
  PROVE  ValueCached(occupancy, cache') /\ ValueAnswer(occupancy, answer')
<1>0. H \in Nat /\ TreeHeight = H BY Powers DEF H
<1>1. PICK tree : tree = occupancy[b] OBVIOUS
<1>2. PICK g : g = HeightOf(n) OBVIOUS
<1>3. PICK s : s = ValueStart(b, n) OBVIOUS
<1>4. PICK t : t = IF s.height = g THEN s ELSE ValueWalk(tree, g, Reloaded(tree, s)) OBVIOUS
<1>5. b \in DOMAIN occupancy /\ SoundTree(tree)
  BY <1>1, TreesAreSound DEF KnownValue, OccupancyMaps
<1>6. cache' = t /\ Asked("value", b, n, {}, t.values[t.height])
  <2>1. LET end == IF ValueStart(b, n).height = HeightOf(n) THEN ValueStart(b, n)
                   ELSE ValueWalk(occupancy[b], HeightOf(n), Reloaded(occupancy[b], ValueStart(b, n)))
        IN  cache' = end /\ Asked("value", b, n, {}, end.values[end.height])
    BY Zenon DEF KnownValue, ValueStart
  <2> QED BY <1>1, <1>2, <1>3, <1>4, <2>1
<1>7. /\ s \in Caches /\ ValuePath(tree, s) /\ g <= s.height /\ s.block = b /\ s.code = Code(n)
  <2>1. Starting(b, n) BY <1>1, <1>5 DEF Starting
  <2> QED BY <1>1, <1>2, <1>3, <2>1, ValueStartIs
<1>8. cache \in Caches BY DEF ValueCached
<1>9. /\ t \in Caches /\ ValuePath(tree, t) /\ g <= t.height
      /\ t.height = g \/ At(t.code, t.height) \notin tree.nodes
      /\ t.block = b /\ t.code = Code(n)
  <2>1. CASE s.height = g BY <1>4, <1>7, <2>1
  <2>2. CASE s.height # g
    <3>1. t = ValueWalk(tree, g, s) BY <1>4, <1>7, <1>8, <2>2, ReloadedIs
    <3>2. ValueWalkable(tree, s, g) BY <1>2, <1>5, <1>7, HeightsAre DEF ValueWalkable
    <3>3. /\ t \in Caches /\ ValuePath(tree, t) /\ Deeper(s, t) /\ g <= t.height
          /\ t.height = g \/ At(s.code, t.height) \notin tree.nodes
      BY <3>1, <3>2, ValueWalkIs
    <3> QED BY <1>7, <3>3 DEF Deeper
  <2> QED BY <2>1, <2>2
<1>10. t.values[t.height] = Scales(tree)[n]
  <2>1. ValueFound(tree, n, t) BY <1>2, <1>5, <1>9 DEF ValueFound
  <2> QED BY <2>1, FoundValue
<1>11. ValueCached(occupancy, t)
  <2>1. t.stack[H] = 1 BY <1>5, <1>9, PathFromRoot
  <2> QED BY <1>1, <1>5, <1>9, <2>1 DEF ValueCached
<1>12. answer' = [op |-> "value", block |-> b, index |-> n, mask |-> {}, result |-> Scales(tree)[n]]
  BY <1>6, <1>10 DEF Asked
<1>13. ValueAnswer(occupancy,
         [op |-> "value", block |-> b, index |-> n, mask |-> {}, result |-> Scales(tree)[n]])
  BY <1>1, <1>5 DEF ValueAnswer
<1> QED BY <1>6, <1>11, <1>12, <1>13

LEMMA UnknownValueIs ==
  ASSUME NEW b \in Block, NEW n \in TreeIndex, UnknownValue(b, n), ValueCached(occupancy, cache)
  PROVE  ValueCached(occupancy, cache') /\ ValueAnswer(occupancy, answer')
<1>0. H \in Nat /\ TreeHeight = H /\ H \in 0..H BY Powers DEF H
<1>1. PICK c \in Nat : c = Code(n) BY CodeIs, IndicesAre DEF TreeIndex
<1>2. PICK d \in Block \cup {"none"}, l \in BOOLEAN, i \in 0..H, e \in Nat,
           stack \in [0..H -> Int], values \in [0..H -> Int] :
        cache = [block |-> d, loaded |-> l, height |-> i, code |-> e, stack |-> stack,
                 values |-> values]
  BY DEF ValueCached, Caches
<1>3. PICK now : now = [cache EXCEPT !.block = b, !.code = c] OBVIOUS
<1>4. now = [block |-> b, loaded |-> l, height |-> i, code |-> c, stack |-> stack,
             values |-> values]
  BY <1>2, <1>3
<1>5. \/ /\ b = cache.block /\ cache.stack[H] = 0 /\ cache' = now
         /\ Asked("value", b, n, {}, 0)
      \/ /\ b # cache.block /\ b \notin DOMAIN occupancy
         /\ cache' = [now EXCEPT !.stack[H] = 0, !.values[H] = 0, !.height = H]
         /\ Asked("value", b, n, {}, 0)
  BY <1>0, <1>1, <1>3 DEF UnknownValue
<1>6. b \notin DOMAIN occupancy
  <2>1. CASE b = cache.block /\ cache.stack[H] = 0 BY <2>1 DEF ValueCached
  <2> QED BY <1>5, <2>1
<1>7. ValueAnswer(occupancy, answer')
  <2>1. answer' = [op |-> "value", block |-> b, index |-> n, mask |-> {}, result |-> 0]
    BY <1>5 DEF Asked
  <2>2. ValueAnswer(occupancy, [op |-> "value", block |-> b, index |-> n, mask |-> {}, result |-> 0])
    BY <1>6 DEF ValueAnswer
  <2> QED BY <2>1, <2>2
<1>8. CASE b = cache.block /\ cache.stack[H] = 0 /\ cache' = now
  <2>1. stack[H] = 0 BY <1>2, <1>8
  <2>2. ValueCached(occupancy, now) BY <1>1, <1>4, <1>6, <2>1 DEF ValueCached, Caches
  <2> QED BY <1>7, <1>8, <2>2
<1>9. CASE cache' = [now EXCEPT !.stack[H] = 0, !.values[H] = 0, !.height = H]
  <2>0. PICK zero \in Int : zero = 0 OBVIOUS
  <2>b. /\ [stack EXCEPT ![H] = zero] \in [0..H -> Int]
        /\ [values EXCEPT ![H] = zero] \in [0..H -> Int]
    BY StaysTyped
  <2>1. PICK new \in [0..H -> Int] : new = [stack EXCEPT ![H] = 0] BY <2>0, <2>b
  <2>2. PICK fresh \in [0..H -> Int] : fresh = [values EXCEPT ![H] = 0] BY <2>0, <2>b
  <2>3. PICK t : t = [block |-> b, loaded |-> l, height |-> H, code |-> c, stack |-> new,
                      values |-> fresh]
    OBVIOUS
  <2>4. [now EXCEPT !.stack[H] = 0, !.values[H] = 0, !.height = H] = t
    <3>1. PICK u : u = [now EXCEPT !.stack[H] = 0] OBVIOUS
    <3>2. now.stack = stack BY <1>4
    <3>3. u = [now EXCEPT !.stack = new] BY <2>1, <3>1, <3>2
    <3>4. u = [block |-> b, loaded |-> l, height |-> i, code |-> c, stack |-> new,
               values |-> values]
      BY <1>4, <3>3
    <3>5. PICK v : v = [u EXCEPT !.values[H] = 0] OBVIOUS
    <3>6. u.values = values BY <3>4
    <3>7. v = [u EXCEPT !.values = fresh] BY <2>2, <3>5, <3>6
    <3>8. v = [block |-> b, loaded |-> l, height |-> i, code |-> c, stack |-> new,
               values |-> fresh]
      BY <3>4, <3>7
    <3>9. [v EXCEPT !.height = H] = t BY <2>3, <3>8
    <3> QED BY <3>1, <3>5, <3>9
  <2>5. new[H] = 0 BY <1>0, <2>1
  <2>6. ValueCached(occupancy, t) BY <1>0, <1>1, <1>6, <2>3, <2>5 DEF ValueCached, Caches
  <2> QED BY <1>7, <1>9, <2>4, <2>6
<1> QED BY <1>5, <1>8, <1>9

-----------------------------------------------------------------------------
(* Every answer of every query *)

QueriesInv ==
  /\ mode \in {"values", "nodes", "classes"}
  /\ occupancy \in OccupancyMaps /\ ClassesAre(classified, cells_are)
  /\ mode = "values" => /\ ValueCached(occupancy, cache)
                        /\ answer.op = "none" \/ ValueAnswer(occupancy, answer)
  /\ mode = "nodes" => /\ GoodNodes(allocated) /\ Cached(cache, allocated)
                       /\ answer.op = "none" \/ NodeAnswer(allocated, answer)
  /\ mode = "classes" => /\ Cached(cache, NodesOf(classified))
                         /\ answer.op = "none" \/ AnswerOfClasses(classified, cells_are, answer)

LEMMA NothingCached ==
  ASSUME NEW trees
  PROVE  ValueCached(trees, EmptyCache)
<1>0. H \in Nat /\ TreeHeight = H BY Powers DEF H
<1>1. EmptyCache = [block |-> "none", loaded |-> FALSE, height |-> H, code |-> 0,
                    stack |-> [h \in 0..H |-> 0], values |-> [h \in 0..H |-> 0]]
  BY <1>0 DEF EmptyCache
<1>2. EmptyCache \in Caches BY <1>0, <1>1 DEF Caches
<1>3. EmptyCache.block \notin Block BY <1>1, QueryAssumption
<1> QED BY <1>2, <1>3 DEF ValueCached

LEMMA QueriesInvInit == QueriesInit => QueriesInv
<1> SUFFICES ASSUME QueriesInit PROVE QueriesInv OBVIOUS
<1>1. DOMAIN <<>> = {} OBVIOUS
<1>2. occupancy \in OccupancyMaps
  <2>1. <<>> \in [{} -> Trees] OBVIOUS
  <2>2. {} \in SUBSET Block OBVIOUS
  <2>3. [{} -> Trees] \in {[B -> Trees] : B \in SUBSET Block} BY <2>2, Zenon
  <2>4. occupancy = <<>> BY DEF QueriesInit
  <2> QED BY <2>1, <2>3, <2>4 DEF OccupancyMaps
<1>3. ClassesAre(classified, cells_are) BY <1>1 DEF QueriesInit, ClassesAre
<1>4. ValueCached(occupancy, cache) BY NothingCached DEF QueriesInit
<1>5. GoodNodes(allocated) BY <1>1 DEF QueriesInit, GoodNodes
<1>6. Cached(cache, allocated) BY <1>5, EmptyIsCached DEF QueriesInit
<1>7. Cached(cache, NodesOf(classified)) BY <1>3, NodesOfClasses, EmptyIsCached DEF QueriesInit
<1>8. answer.op = "none" /\ mode \in {"values", "nodes", "classes"} BY DEF QueriesInit, NoAnswer
<1> QED BY <1>2, <1>3, <1>4, <1>5, <1>6, <1>7, <1>8 DEF QueriesInv

LEMMA QueriesInvStep == QueriesInv /\ [QueriesNext]_queryVars => QueriesInv'
<1> SUFFICES ASSUME QueriesInv, [QueriesNext]_queryVars PROVE QueriesInv' OBVIOUS
<1>0. occupancy \in OccupancyMaps /\ ClassesAre(classified, cells_are) BY DEF QueriesInv
<1>1. CASE GetCellValue
  <2>1. mode = "values" /\ UNCHANGED <<mode, occupancy, allocated, classified, cells_are>>
    BY <1>1 DEF GetCellValue
  <2>2. ValueCached(occupancy, cache) BY <2>1 DEF QueriesInv
  <2>3. PICK b \in Block, n \in TreeIndex : UnknownValue(b, n) \/ KnownValue(b, n)
    BY <1>1 DEF GetCellValue
  <2>4. ValueCached(occupancy, cache') /\ ValueAnswer(occupancy, answer')
    BY <1>0, <2>2, <2>3, UnknownValueIs, KnownValueIs
  <2> QED BY <1>0, <2>1, <2>4 DEF QueriesInv
<1>2. CASE ChangeMap
  <2>1. /\ mode = "values" /\ UNCHANGED <<mode, allocated, classified, cells_are>>
        /\ occupancy' \in OccupancyMaps /\ cache' = EmptyCache /\ answer' = NoAnswer
    BY <1>2 DEF ChangeMap, Forget
  <2>2. PICK trees : trees = occupancy' OBVIOUS
  <2>3. ValueCached(trees, EmptyCache) BY NothingCached
  <2>4. NoAnswer.op = "none" BY DEF NoAnswer
  <2> QED BY <1>0, <2>1, <2>2, <2>3, <2>4 DEF QueriesInv
<1>3. CASE GetNode
  <2>1. mode = "nodes" /\ UNCHANGED <<mode, occupancy, allocated, classified, cells_are>>
    BY <1>3 DEF GetNode
  <2>2. GoodNodes(allocated) /\ Cached(cache, allocated) BY <2>1 DEF QueriesInv
  <2>3. Cached(cache', allocated) /\ NodeAnswer(allocated, answer') BY <1>3, <2>2, GetNodeIs
  <2> QED BY <1>0, <2>1, <2>2, <2>3 DEF QueriesInv
<1>4. CASE GetOrAllocateNode
  <2>1. mode = "nodes" /\ UNCHANGED <<mode, occupancy, classified, cells_are>>
    BY <1>4 DEF GetOrAllocateNode
  <2>2. GoodNodes(allocated) /\ Cached(cache, allocated) BY <2>1 DEF QueriesInv
  <2>3. GoodNodes(allocated') /\ Cached(cache', allocated') /\ NodeAnswer(allocated', answer')
    BY <1>4, <2>2, GetOrAllocateIs
  <2> QED BY <1>0, <2>1, <2>3 DEF QueriesInv
<1>5. CASE Update
  <2>1. mode = "classes" /\ UNCHANGED <<mode, occupancy, allocated>> BY <1>5 DEF Update
  <2>2. /\ ClassesAre(classified', cells_are') /\ Cached(cache', NodesOf(classified'))
        /\ answer'.op = "none"
    BY <1>0, <1>5, UpdateIs
  <2> QED BY <1>0, <2>1, <2>2 DEF QueriesInv
<1>6. CASE AskClasses
  <2>1. mode = "classes" /\ UNCHANGED <<mode, occupancy, allocated, classified, cells_are>>
    BY <1>6 DEF AskClasses
  <2>2. Cached(cache, NodesOf(classified)) BY <2>1 DEF QueriesInv
  <2>3. Cached(cache', NodesOf(classified)) /\ AnswerOfClasses(classified, cells_are, answer')
    BY <1>0, <1>6, <2>2, AskClassesIs
  <2> QED BY <1>0, <2>1, <2>3 DEF QueriesInv
<1>7. CASE UNCHANGED queryVars BY <1>7 DEF queryVars, QueriesInv
<1> QED BY <1>1, <1>2, <1>3, <1>4, <1>5, <1>6, <1>7 DEF QueriesNext

LEMMA AnswersFromInv == QueriesInv => AnswersAreRight
<1> SUFFICES ASSUME QueriesInv, answer.op # "none" PROVE AnswersAreRight BY DEF AnswersAreRight
<1>1. CASE mode = "values"
  <2>1. ValueAnswer(occupancy, answer) BY <1>1 DEF QueriesInv
  <2> QED BY <2>1 DEF ValueAnswer, AnswersAreRight, ValueIsRight
<1>2. CASE mode = "nodes"
  <2>1. NodeAnswer(allocated, answer) BY <1>2 DEF QueriesInv
  <2> QED BY <2>1 DEF NodeAnswer, AnswersAreRight, NodeIsRight
<1>3. CASE mode = "classes"
  <2>1. AnswerOfClasses(classified, cells_are, answer) BY <1>3 DEF QueriesInv
  <2>2. ClassIsRight(answer) \/ UpFrom(answer.index) \cap Leftover(answer.block) # {}
    <3>1. CASE answer.block \notin DOMAIN classified
      BY <2>1, <3>1 DEF AnswerOfClasses, ClassIsRight
    <3>2. CASE answer.block \in DOMAIN classified
      <4>1. PICK b : b = answer.block OBVIOUS
      <4>2. SingleAbove(classified[b], answer.index) \/ ClassAnswer(classified[b], cells_are[b], answer)
        BY <2>1, <3>2, <4>1 DEF AnswerOfClasses
      <4>3. CASE SingleAbove(classified[b], answer.index)
        BY <4>1, <4>3 DEF SingleAbove, Leftover
      <4>4. CASE ClassAnswer(classified[b], cells_are[b], answer)
        BY <3>2, <4>1, <4>4 DEF ClassAnswer, ClassIsRight, ClassesBelow, Below
      <4> QED BY <4>2, <4>3, <4>4
    <3> QED BY <3>1, <3>2
  <2>3. answer.op \in {"has", "fully", "class"} BY <2>1 DEF AnswerOfClasses
  <2> QED BY <2>2, <2>3 DEF AnswersAreRight
<1> QED BY <1>1, <1>2, <1>3 DEF QueriesInv

LEMMA LeavesFromInv == QueriesInv => LeavesCoverMatches
<1> SUFFICES ASSUME QueriesInv, NEW b \in DOMAIN classified, NEW mask \in QueryMask
             PROVE  {c \in TreeCell : UpFrom(c) \cap MatchingLeaves(classified[b], mask) # {}}
                      = {c \in TreeCell : cells_are[b][c] \in mask}
  BY DEF LeavesCoverMatches
<1>1. SoundClasses(classified[b], cells_are[b]) BY DEF QueriesInv, ClassesAre
<1> QED BY <1>1, LeavesAre

\* Whatever is asked, allocated or updated before, what is remembered of the last
\* query never makes a query_accelerator or a classified map answer for another
\* place or an older map (query_accelerator.cc, classified_map.cc); of the
\* classified map only what is at or below its leftover nodes is left out.
THEOREM AnswersCorrect == QueriesSpec => []AnswersAreRight
<1>1. QueriesInit => QueriesInv BY QueriesInvInit
<1>2. QueriesInv /\ [QueriesNext]_queryVars => QueriesInv' BY QueriesInvStep
<1>3. QueriesInv => AnswersAreRight BY AnswersFromInv
<1> QED BY <1>1, <1>2, <1>3, PTL DEF QueriesSpec

\* After any sequence of updates, the leaves that forEachLeafMatching visits cover
\* exactly the cells whose class is in the mask (classified_map.cc).
THEOREM LeavesCorrect == QueriesSpec => []LeavesCoverMatches
<1>1. QueriesInit => QueriesInv BY QueriesInvInit
<1>2. QueriesInv /\ [QueriesNext]_queryVars => QueriesInv' BY QueriesInvStep
<1>3. QueriesInv => LeavesCoverMatches BY LeavesFromInv
<1> QED BY <1>1, <1>2, <1>3, PTL DEF QueriesSpec

-----------------------------------------------------------------------------
(* Messages and streams: trees of cells that can be halved exactly *)

ExactCells == {content \in [TreeCell -> Int] : \A c \in TreeCell : content[c] % Exp2(H) = 0}

\* The children of a node, and what lies over the cells.
LEMMA TwoChildren ==
  ASSUME NEW n \in TreeNode
  PROVE  /\ n \in TreeIndex /\ n \in Nat /\ HeightOf(n) \in 1..H
         /\ 2 * n \in TreeIndex /\ HeightOf(2 * n) = HeightOf(n) - 1
         /\ 2 * n + 1 \in TreeIndex /\ HeightOf(2 * n + 1) = HeightOf(n) - 1
<1>1. n \in TreeIndex /\ HeightOf(n) \in 1..H BY ChildrenAre
<1>2. n \in Nat BY <1>1, IndicesAre
<1>3. 2 * n + 0 \in TreeIndex /\ HeightOf(2 * n + 0) = HeightOf(n) - 1 BY ChildrenAre
<1>4. 2 * n + 1 \in TreeIndex /\ HeightOf(2 * n + 1) = HeightOf(n) - 1 BY ChildrenAre
<1>5. 2 * n + 0 = 2 * n BY <1>2
<1> QED BY <1>1, <1>2, <1>3, <1>4, <1>5

LEMMA AveragesExact ==
  ASSUME NEW content \in ExactCells
  PROVE  \A n \in TreeIndex : \E a \in Int : Average(content)[n] = Exp2(H - HeightOf(n)) * a
<1>0. H \in Nat BY Powers
<1>1. content \in [TreeCell -> Int] BY DEF ExactCells
<1>2. PICK A \in [TreeIndex -> Int] : A = Average(content) BY <1>1, AveragesAre
<1>3. \A n \in TreeIndex : A[n] = IF n \in TreeCell THEN content[n] ELSE (A[2 * n] + A[2 * n + 1]) \div 2
  BY <1>1, <1>2, AveragesAre
<1> DEFINE T == {h \in Nat : h <= H => \A n \in TreeIndex : HeightOf(n) = h =>
                                         \E a \in Int : A[n] = Exp2(H - h) * a}
<1>4. 0 \in T
  <2>1. ASSUME NEW n \in TreeIndex, HeightOf(n) = 0 PROVE \E a \in Int : A[n] = Exp2(H - 0) * a
    <3>1. n \in TreeCell BY <2>1, HeightsAre
    <3>2. A[n] = content[n] BY <1>3, <3>1
    <3>3. content[n] % Exp2(H) = 0 /\ content[n] \in Int BY <1>1, <3>1 DEF ExactCells
    <3>4. H - 0 = H /\ H \in 0..(H + 1) BY <1>0
    <3>5. Exp2(H) \in Nat \ {0} BY <3>4, Powers
    <3>6. PICK e \in Nat \ {0}, v \in Int : e = Exp2(H) /\ v = content[n] BY <3>3, <3>5
    <3>7. PICK a \in Int, r \in 0..(e - 1) : v = e * a + r /\ v % e = r BY DivisionIs
    <3>8. r = 0 BY <3>3, <3>6, <3>7
    <3>9. v = e * a
      <4>1. PICK x \in Int : x = e * a OBVIOUS
      <4> QED BY <4>1, <3>7, <3>8
    <3> QED BY <3>2, <3>4, <3>6, <3>9
  <2> QED BY <2>1
<1>5. ASSUME NEW h \in Nat, h \in T PROVE h + 1 \in T
  <2> SUFFICES ASSUME h + 1 <= H, NEW n \in TreeIndex, HeightOf(n) = h + 1
               PROVE  \E a \in Int : A[n] = Exp2(H - (h + 1)) * a
    OBVIOUS
  <2>1. n \in TreeNode /\ n \notin TreeCell BY HeightsAre
  <2>2. /\ 2 * n \in TreeIndex /\ 2 * n + 1 \in TreeIndex
        /\ HeightOf(2 * n) = h /\ HeightOf(2 * n + 1) = h
    BY <2>1, TwoChildren
  <2>3. PICK a, b \in Int : A[2 * n] = Exp2(H - h) * a /\ A[2 * n + 1] = Exp2(H - h) * b
    <3>1. h <= H BY <1>0
    <3>2. \A m \in TreeIndex : HeightOf(m) = h => \E a \in Int : A[m] = Exp2(H - h) * a BY <1>5, <3>1
    <3> HIDE DEF T
    <3> QED BY <2>2, <3>2
  <2>4. H - (h + 1) \in 0..H /\ H - h = (H - (h + 1)) + 1 /\ H - (h + 1) \in 0..(H + 1) BY <1>0
  <2>5. PICK e \in Nat : e = Exp2(H - (h + 1)) BY <2>4, Powers
  <2>6. Exp2(H - h) = 2 * e BY <2>4, <2>5, Powers
  <2>7. PICK x, y \in Int : x = e * a /\ y = e * b BY <2>5
  <2>8. (2 * e) * a = 2 * x /\ (2 * e) * b = 2 * y BY <2>5, <2>7
  <2>9. A[n] = (2 * x + 2 * y) \div 2 BY <1>3, <2>1, <2>3, <2>6, <2>8
  <2>10. (2 * x + 2 * y) \div 2 = x + y OBVIOUS
  <2>11. e * (a + b) = x + y BY <2>5, <2>7
  <2>12. a + b \in Int OBVIOUS
  <2> QED BY <2>5, <2>9, <2>10, <2>11, <2>12
<1> HIDE DEF T
<1>6. Nat \subseteq T BY <1>4, <1>5, NatInductionSet
<1>7. ASSUME NEW n \in TreeIndex PROVE \E a \in Int : A[n] = Exp2(H - HeightOf(n)) * a
  <2>1. PICK h \in 0..H : h = HeightOf(n) BY HeightsAre
  <2>2. h \in T /\ h <= H BY <1>0, <1>6
  <2> QED BY <2>1, <2>2 DEF T
<1> QED BY <1>2, <1>7

\* The average of a node and half its detail give those of its children.
LEMMA LiftingInverts ==
  ASSUME NEW content \in ExactCells, NEW n \in TreeNode
  PROVE  \E s, d \in Int : /\ Average(content)[n] = s
                           /\ Average(content)[2 * n] = s - d /\ Average(content)[2 * n + 1] = s + d
                           /\ (Average(content)[2 * n + 1] - Average(content)[2 * n]) \div 2 = d
<1>0. H \in Nat BY Powers
<1>1. content \in [TreeCell -> Int] BY DEF ExactCells
<1>2. PICK A \in [TreeIndex -> Int] : A = Average(content) BY <1>1, AveragesAre
<1>3. PICK h \in 1..H : h = HeightOf(n) BY TwoChildren
<1>4. /\ 2 * n \in TreeIndex /\ 2 * n + 1 \in TreeIndex /\ n \in TreeIndex /\ n \notin TreeCell
      /\ HeightOf(2 * n) = h - 1 /\ HeightOf(2 * n + 1) = h - 1
  BY <1>3, TwoChildren, HeightsAre
<1>5. PICK a, b \in Int : A[2 * n] = Exp2(H - (h - 1)) * a /\ A[2 * n + 1] = Exp2(H - (h - 1)) * b
  BY <1>2, <1>4, AveragesExact
<1>6. H - h \in 0..H /\ H - (h - 1) = (H - h) + 1 /\ H - h \in 0..(H + 1) BY <1>0
<1>7. PICK e \in Nat : e = Exp2(H - h) BY <1>6, Powers
<1>8. Exp2(H - (h - 1)) = 2 * e BY <1>6, <1>7, Powers
<1>9. PICK x, y \in Int : x = e * a /\ y = e * b BY <1>7
<1>10. (2 * e) * a = 2 * x /\ (2 * e) * b = 2 * y BY <1>7, <1>9
<1>11. A[2 * n] = 2 * x /\ A[2 * n + 1] = 2 * y BY <1>5, <1>8, <1>10
<1>12. A[n] = (A[2 * n] + A[2 * n + 1]) \div 2 BY <1>1, <1>2, <1>4, AveragesAre
<1>13. A[n] = x + y
  <2>1. (2 * x + 2 * y) \div 2 = x + y OBVIOUS
  <2> QED BY <1>11, <1>12, <2>1
<1>14. (A[2 * n + 1] - A[2 * n]) \div 2 = y - x
  <2>1. (2 * y - 2 * x) \div 2 = y - x OBVIOUS
  <2> QED BY <1>11, <2>1
<1>15. x + y \in Int /\ y - x \in Int /\ 2 * x = (x + y) - (y - x) /\ 2 * y = (x + y) + (y - x)
  OBVIOUS
<1> QED BY <1>2, <1>11, <1>13, <1>14, <1>15

\* The details that a tree of cells has.
LEMMA DetailsAre ==
  ASSUME NEW content \in [TreeCell -> Int], NEW nodes
  PROVE  LET tree == TreeOf(content, nodes)
         IN  /\ tree.scale = Average(content)[1] /\ tree.scale \in Int /\ tree.nodes = nodes
             /\ tree.details \in [TreeNode -> Int]
             /\ \A n \in TreeNode : tree.details[n] = Average(content)[2 * n + 1] - Average(content)[2 * n]
<1>1. PICK A \in [TreeIndex -> Int] : A = Average(content) BY AveragesAre
<1>2. 1 \in TreeIndex BY TopIs
<1> DEFINE details == [n \in TreeNode |-> A[2 * n + 1] - A[2 * n]]
<1>3. TreeOf(content, nodes) = [scale |-> A[1], details |-> details, nodes |-> nodes]
  BY <1>1 DEF TreeOf, Coefficients
<1>4. ASSUME NEW n \in TreeNode PROVE A[2 * n + 1] - A[2 * n] \in Int
  <2>1. 2 * n \in TreeIndex /\ 2 * n + 1 \in TreeIndex BY TwoChildren
  <2>2. A[2 * n] \in Int /\ A[2 * n + 1] \in Int BY <2>1
  <2> QED BY <2>2
<1>5. details \in [TreeNode -> Int] BY <1>4
<1>6. A[1] \in Int BY <1>2
<1> QED BY <1>1, <1>3, <1>5, <1>6

\* A tree of cells has these cells.
LEMMA ScalesAreAverages ==
  ASSUME NEW content \in ExactCells, NEW nodes
  PROVE  /\ \A n \in TreeIndex : Scales(TreeOf(content, nodes))[n] = Average(content)[n]
         /\ CellsOf(TreeOf(content, nodes)) = content
<1>0. H \in Nat BY Powers
<1>1. content \in [TreeCell -> Int] BY DEF ExactCells
<1>2. PICK tree : tree = TreeOf(content, nodes) OBVIOUS
<1>3. PICK A \in [TreeIndex -> Int] : A = Average(content) BY <1>1, AveragesAre
<1>4. /\ tree.scale = A[1] /\ tree.scale \in Int /\ tree.details \in [TreeNode -> Int]
      /\ \A n \in TreeNode : tree.details[n] = A[2 * n + 1] - A[2 * n]
  BY <1>1, <1>2, <1>3, DetailsAre
<1>5. PICK S \in [TreeIndex -> Int] : S = Scales(tree) BY <1>4, ScalesAre
<1>6. /\ S[1] = tree.scale
      /\ \A n \in TreeIndex \ {1} : S[n] = IF n % 2 = 0 THEN S[n \div 2] - Half(tree, n \div 2)
                                           ELSE S[n \div 2] + Half(tree, n \div 2)
  BY <1>4, <1>5, ScalesAre
<1> DEFINE T == {k \in Nat : k <= H => \A n \in TreeIndex : HeightOf(n) = H - k => S[n] = A[n]}
<1>7. 0 \in T
  <2>1. ASSUME NEW n \in TreeIndex, HeightOf(n) = H - 0 PROVE S[n] = A[n]
    <3>1. n = 1
      <4>1. n \in Level(H) BY <1>0, <2>1, HeightsAre
      <4> QED BY <4>1, IndicesAre
    <3> QED BY <3>1, <1>4, <1>6
  <2> QED BY <2>1
<1>8. ASSUME NEW k \in Nat, k \in T PROVE k + 1 \in T
  <2> SUFFICES ASSUME k + 1 <= H, NEW n \in TreeIndex, HeightOf(n) = H - (k + 1) PROVE S[n] = A[n]
    OBVIOUS
  <2>1. n # 1 BY <1>0, TopIs
  <2>2. /\ n \div 2 \in TreeNode /\ n \div 2 \in TreeIndex /\ HeightOf(n \div 2) = HeightOf(n) + 1
        /\ n % 2 \in {0, 1}
    BY <2>1, ParentIs
  <2>3. PICK p \in TreeNode : p = n \div 2 BY <2>2
  <2>4. HeightOf(p) = H - k /\ p \in TreeIndex BY <1>0, <2>2, <2>3
  <2>5. S[p] = A[p] BY <1>0, <1>8, <2>4
  <2>6. PICK s, d \in Int : A[p] = s /\ A[2 * p] = s - d /\ A[2 * p + 1] = s + d /\ (A[2 * p + 1] - A[2 * p]) \div 2 = d
    BY <1>3, LiftingInverts
  <2>7. Half(tree, p) = d BY <1>4, <2>6 DEF Half
  <2>8. (n % 2 = 0 => n = 2 * p) /\ (n % 2 = 1 => n = 2 * p + 1)
    <3>1. n \in Nat BY IndicesAre
    <3> QED BY <2>3, <3>1
  <2>9. p \in Nat BY TwoChildren
  <2>10. CASE n % 2 = 0
    <3>1. n = 2 * p BY <2>8, <2>10
    <3>2. S[n] = S[p] - Half(tree, p) BY <1>6, <2>1, <2>3, <2>10
    <3> QED BY <3>1, <3>2, <2>5, <2>6, <2>7
  <2>11. CASE n % 2 = 1
    <3>1. n = 2 * p + 1 BY <2>8, <2>11
    <3>2. S[n] = S[p] + Half(tree, p)
      <4>1. ~(n % 2 = 0) BY <2>11
      <4> QED BY <1>6, <2>1, <2>3, <4>1
    <3> QED BY <3>1, <3>2, <2>5, <2>6, <2>7
  <2> QED BY <2>2, <2>10, <2>11
<1> HIDE DEF T
<1>9. Nat \subseteq T BY <1>7, <1>8, NatInductionSet
<1>10. ASSUME NEW n \in TreeIndex PROVE S[n] = A[n]
  <2>1. HeightOf(n) \in 0..H BY HeightsAre
  <2>2. H - HeightOf(n) \in T /\ H - HeightOf(n) <= H /\ H - (H - HeightOf(n)) = HeightOf(n)
    BY <1>0, <1>9, <2>1
  <2> QED BY <2>2 DEF T
<1>11. ASSUME NEW c \in TreeCell PROVE S[c] = content[c]
  <2>1. c \in TreeIndex BY DEF TreeIndex
  <2>2. A[c] = content[c] BY <1>1, <1>3, <2>1, AveragesAre
  <2> QED BY <1>10, <2>1, <2>2
<1>12. CellsOf(tree) = content
  <2>1. CellsOf(tree) = [c \in TreeCell |-> S[c]] BY <1>5 DEF CellsOf
  <2>2. [c \in TreeCell |-> S[c]] = [c \in TreeCell |-> content[c]] BY <1>11
  <2> QED BY <1>1, <2>1, <2>2
<1> QED BY <1>2, <1>3, <1>5, <1>10, <1>12

\* Where all cells are equal, so are the averages.
LEMMA AverageOfEqual ==
  ASSUME NEW content \in ExactCells, NEW v \in Int, NEW n \in TreeIndex,
         \A c \in TreeCell : At(c, HeightOf(n)) = n => content[c] = v
  PROVE  Average(content)[n] = v
<1>0. H \in Nat BY Powers
<1>1. content \in [TreeCell -> Int] BY DEF ExactCells
<1>2. PICK A \in [TreeIndex -> Int] : A = Average(content) BY <1>1, AveragesAre
<1>3. \A m \in TreeIndex : A[m] = IF m \in TreeCell THEN content[m] ELSE (A[2 * m] + A[2 * m + 1]) \div 2
  BY <1>1, <1>2, AveragesAre
<1> DEFINE Equal(m) == \A c \in TreeCell : At(c, HeightOf(m)) = m => content[c] = v
           T == {h \in Nat : \A m \in TreeIndex : HeightOf(m) = h /\ Equal(m) => A[m] = v}
<1>4. 0 \in T
  <2>1. ASSUME NEW m \in TreeIndex, HeightOf(m) = 0, Equal(m) PROVE A[m] = v
    <3>1. m \in TreeCell BY <2>1, HeightsAre
    <3>2. At(m, 0) = m
      <4>1. InSubtree(m, m) BY UpFromIndex DEF InSubtree
      <4> QED BY <2>1, <3>1, <4>1, CellsBelow
    <3> QED BY <1>3, <2>1, <3>1, <3>2
  <2> QED BY <2>1
<1>5. ASSUME NEW h \in Nat, h \in T PROVE h + 1 \in T
  <2> SUFFICES ASSUME NEW m \in TreeIndex, HeightOf(m) = h + 1, Equal(m) PROVE A[m] = v OBVIOUS
  <2>1. m \in TreeNode /\ m \notin TreeCell BY HeightsAre
  <2>2. /\ 2 * m \in TreeIndex /\ 2 * m + 1 \in TreeIndex
        /\ HeightOf(2 * m) = h /\ HeightOf(2 * m + 1) = h
    BY <2>1, TwoChildren
  <2>3. ASSUME NEW k \in TreeIndex, k = 2 * m \/ k = 2 * m + 1 PROVE Equal(k)
    <3>1. ASSUME NEW c \in TreeCell, At(c, HeightOf(k)) = k PROVE content[c] = v
      <4>1. InSubtree(c, k) BY <3>1, CellsBelow
      <4>2. InSubtree(c, m) BY <2>1, <2>3, <4>1, CellsBelowParts
      <4>3. At(c, HeightOf(m)) = m BY <4>2, CellsBelow
      <4> QED BY <4>3
    <3> QED BY <3>1
  <2>4. A[2 * m] = v /\ A[2 * m + 1] = v
    <3> HIDE DEF Equal
    <3> QED BY <1>5, <2>2, <2>3
  <2>5. (v + v) \div 2 = v OBVIOUS
  <2> QED BY <1>3, <2>1, <2>4, <2>5
<1> HIDE DEF T
<1>6. Nat \subseteq T BY <1>4, <1>5, NatInductionSet
<1>7. HeightOf(n) \in T BY <1>6, HeightsAre
<1> QED BY <1>2, <1>7 DEF T

\* The trees of the maps, and what the integrators and edits make of them.
GoodTree(tree) == SoundTree(tree) /\ CellsOf(tree) \in ExactCells

\* Where a node is missing all cells are equal.
EqualBelow(content, nodes) ==
  \A c, d \in TreeCell : \A h \in 0..H :
    At(c, h) \notin nodes /\ At(d, h) = At(c, h) => content[d] = content[c]

LEMMA TreeOfIsGood ==
  ASSUME NEW content \in ExactCells, NEW nodes \in SUBSET TreeNode, 1 \in nodes, EqualBelow(content, nodes)
  PROVE  GoodTree(TreeOf(content, nodes)) /\ CellsOf(TreeOf(content, nodes)) = content
<1>0. H \in Nat BY Powers
<1>1. content \in [TreeCell -> Int] BY DEF ExactCells
<1>2. PICK tree : tree = TreeOf(content, nodes) OBVIOUS
<1>3. /\ tree.scale \in Int /\ tree.nodes = nodes /\ tree.details \in [TreeNode -> Int]
      /\ \A n \in TreeNode : tree.details[n] = Average(content)[2 * n + 1] - Average(content)[2 * n]
  BY <1>1, <1>2, DetailsAre
<1>4. ASSUME NEW c \in TreeCell, NEW h \in 0..H, At(c, h) \notin nodes, NEW g \in 1..h
      PROVE  tree.details[At(c, g)] = 0
  <2>1. g \in 0..H /\ g <= h /\ g # 0 /\ h \in 0..H BY <1>0
  <2>2. PICK n \in TreeNode : n = At(c, g) /\ HeightOf(n) = g BY <2>1, AtIs, HeightsAre
  <2>3. PICK v \in Int : v = content[c] BY <1>1
  <2>4. /\ 2 * n \in TreeIndex /\ 2 * n + 1 \in TreeIndex BY TwoChildren
  <2>5. ASSUME NEW k \in TreeIndex, k = 2 * n \/ k = 2 * n + 1 PROVE Average(content)[k] = v
    <3>1. ASSUME NEW d \in TreeCell, At(d, HeightOf(k)) = k PROVE content[d] = v
      <4>1. InSubtree(d, k) BY <3>1, CellsBelow
      <4>2. InSubtree(d, n) BY <2>5, <4>1, CellsBelowParts
      <4>3. n \in TreeIndex BY DEF TreeIndex
      <4>4. At(d, g) = n BY <2>2, <4>2, <4>3, CellsBelow
      <4>5. At(d, h) = At(c, h) BY <2>1, <2>2, <4>4, SameAbove
      <4> QED BY <1>4, <2>3, <4>5 DEF EqualBelow
    <3> QED BY <3>1, AverageOfEqual
  <2>6. Average(content)[2 * n + 1] = v /\ Average(content)[2 * n] = v BY <2>4, <2>5
  <2>7. v - v = 0 OBVIOUS
  <2> QED BY <1>3, <2>2, <2>6, <2>7
<1>5. CellsOf(tree) = content BY <1>2, ScalesAreAverages
<1>6. SoundTree(tree) BY <1>3, <1>4 DEF SoundTree
<1> QED BY <1>2, <1>5, <1>6 DEF GoodTree

LEMMA TreesAreGood == ASSUME NEW tree \in Trees PROVE GoodTree(tree)
<1>1. PICK content \in Content, nodes \in SUBSET TreeNode : tree = TreeOf(content, nodes)
  <2>1. \A c : Needed(c) \in SUBSET TreeNode BY DEF Needed
  <2> QED BY <2>1 DEF Trees
<1>2. content \in ExactCells
  <2>1. content \in [TreeCell -> Int] BY TreeAssumption
  <2>2. \A c \in TreeCell : content[c] % Exp2(H) = 0 
    <3>1. \A c \in TreeCell : content[c] % Exp2(TreeHeight) = 0 BY TreeAssumption
    <3> QED BY <3>1 DEF H
  <2> QED BY <2>1, <2>2 DEF ExactCells
<1>3. CellsOf(tree) = content BY <1>1, <1>2, ScalesAreAverages
<1> QED BY <1>2, <1>3, TreesAreSound DEF GoodTree

LEMMA EmptyIsGood == GoodTree(EmptyTree) /\ EmptyTree.nodes = {1}
<1>0. H \in Nat /\ H \in 0..(H + 1) BY Powers
<1>1. PICK zeros : zeros = [c \in TreeCell |-> 0] OBVIOUS
<1>2. zeros \in ExactCells
  <2>1. PICK e \in Nat \ {0} : e = Exp2(H) BY <1>0, Powers
  <2>2. 0 % e = 0
    <3>1. 0 \in 0..(e - 1) BY <2>1
    <3>2. (e * 0 + 0) % e = 0 BY <3>1, QuotientIs
    <3>3. e * 0 + 0 = 0 OBVIOUS
    <3> QED BY <3>2, <3>3
  <2> QED BY <1>1, <2>1, <2>2 DEF ExactCells
<1>3. ASSUME NEW n \in TreeIndex PROVE Average(zeros)[n] = 0 BY <1>1, <1>2, AverageOfEqual
<1>4. Average(zeros)[1] = 0 BY <1>3, TopIs
<1>5. [n \in TreeNode |-> Average(zeros)[2 * n + 1] - Average(zeros)[2 * n]] = [n \in TreeNode |-> 0]
  <2>1. ASSUME NEW n \in TreeNode PROVE Average(zeros)[2 * n + 1] - Average(zeros)[2 * n] = 0
    <3>1. 2 * n \in TreeIndex /\ 2 * n + 1 \in TreeIndex BY TwoChildren
    <3>2. Average(zeros)[2 * n] = 0 /\ Average(zeros)[2 * n + 1] = 0 BY <1>3, <3>1
    <3> QED BY <3>2
  <2> QED BY <2>1
<1>6. TreeOf(zeros, {1}) = EmptyTree BY <1>4, <1>5 DEF TreeOf, Coefficients, EmptyTree
<1>7. EqualBelow(zeros, {1}) BY <1>1 DEF EqualBelow
<1>8. {1} \in SUBSET TreeNode BY TopIs
<1> QED BY <1>2, <1>6, <1>7, <1>8, TreeOfIsGood DEF EmptyTree

-----------------------------------------------------------------------------
(* Limited trees *)

InLimits(tree) == \A c \in TreeCell : LowLogOdds <= CellsOf(tree)[c] /\ CellsOf(tree)[c] <= HighLogOdds

LEMMA ThresholdedIsGood ==
  ASSUME NEW tree, GoodTree(tree)
  PROVE  GoodTree(ThresholdedTree(tree)) /\ InLimits(ThresholdedTree(tree))
<1>0. LowLogOdds \in Int /\ HighLogOdds \in Int /\ LowLogOdds < HighLogOdds BY MessageAssumption
<1>1. PICK content \in ExactCells : content = CellsOf(tree) BY DEF GoodTree
<1>2. content \in [TreeCell -> Int] BY DEF ExactCells
<1> DEFINE Limit(v) == IF v < LowLogOdds THEN LowLogOdds ELSE IF HighLogOdds < v THEN HighLogOdds ELSE v
<1>3. PICK limited : limited = [c \in TreeCell |-> Limit(content[c])] OBVIOUS
<1>4. ThresholdedTree(tree) = TreeOf(limited, tree.nodes) BY <1>1, <1>3, Zenon DEF ThresholdedTree
<1>5. limited \in ExactCells
  <2>1. ASSUME NEW c \in TreeCell PROVE Limit(content[c]) \in Int /\ Limit(content[c]) % Exp2(H) = 0
    <3>1. content[c] \in Int BY <1>2
    <3>2. content[c] % Exp2(H) = 0 BY DEF ExactCells
    <3>3. LowLogOdds % Exp2(H) = 0 /\ HighLogOdds % Exp2(H) = 0 BY MessageAssumption, Zenon DEF H
    <3> QED BY <1>0, <3>1, <3>2, <3>3
  <2> HIDE DEF Limit
  <2> QED BY <1>3, <2>1 DEF ExactCells
<1>6. EqualBelow(limited, tree.nodes)
  <2>1. ASSUME NEW c \in TreeCell, NEW d \in TreeCell, NEW h \in 0..H,
               At(c, h) \notin tree.nodes, At(d, h) = At(c, h)
        PROVE  limited[d] = limited[c]
    <3>1. SoundTree(tree) BY DEF GoodTree
    <3>2. 0 \in 0..h BY Powers
    <3>3. /\ Scales(tree)[At(c, 0)] = Scales(tree)[At(c, h)]
          /\ Scales(tree)[At(d, 0)] = Scales(tree)[At(d, h)]
      BY <2>1, <3>1, <3>2, ScalesBelowMissing
    <3>4. At(c, 0) = c /\ At(d, 0) = d
      <4>1. c \in Nat /\ d \in Nat BY IndicesAre DEF TreeIndex
      <4>2. c \div 1 = c /\ d \div 1 = d BY <4>1
      <4> QED BY <4>2, Powers DEF At
    <3>5. content[c] = Scales(tree)[c] /\ content[d] = Scales(tree)[d] BY <1>1 DEF CellsOf
    <3>6. content[c] = content[d] BY <2>1, <3>3, <3>4, <3>5
    <3> HIDE DEF Limit
    <3> QED BY <1>3, <3>6
  <2> QED BY <2>1 DEF EqualBelow
<1>7. tree.nodes \in SUBSET TreeNode /\ 1 \in tree.nodes BY DEF GoodTree, SoundTree
<1>8. GoodTree(ThresholdedTree(tree)) /\ CellsOf(ThresholdedTree(tree)) = limited
  BY <1>4, <1>5, <1>6, <1>7, TreeOfIsGood
<1>9. ASSUME NEW c \in TreeCell PROVE LowLogOdds <= limited[c] /\ limited[c] <= HighLogOdds
  <2>1. content[c] \in Int BY <1>2
  <2>2. limited[c] = Limit(content[c]) BY <1>3
  <2> QED BY <1>0, <2>1, <2>2
<1> QED BY <1>8, <1>9 DEF InLimits

\* The value of a node is the mean of those of its children.
LEMMA ScaleOfChildren ==
  ASSUME NEW tree, SoundTree(tree), NEW n \in TreeNode
  PROVE  \E s, d \in Int : /\ Scales(tree)[n] = s
                           /\ Scales(tree)[2 * n] = s - d /\ Scales(tree)[2 * n + 1] = s + d
<1>1. tree.scale \in Int /\ tree.details \in [TreeNode -> Int] BY DEF SoundTree
<1>2. PICK S \in [TreeIndex -> Int] : S = Scales(tree) BY <1>1, ScalesAre
<1>3. \A k \in TreeIndex \ {1} : S[k] = IF k % 2 = 0 THEN S[k \div 2] - Half(tree, k \div 2)
                                        ELSE S[k \div 2] + Half(tree, k \div 2)
  BY <1>1, <1>2, ScalesAre
<1>4. n \in TreeIndex /\ n \in Nat BY TwoChildren
<1>5. PICK s \in Int : s = S[n] BY <1>4
<1>6. PICK d \in Int : d = Half(tree, n)
  <2>1. PICK e \in Int : e = tree.details[n] BY <1>1
  <2> QED BY <2>1 DEF Half
<1>7. /\ 2 * n + 0 \in TreeIndex \ {1} /\ (2 * n + 0) \div 2 = n /\ (2 * n + 0) % 2 = 0
      /\ 2 * n + 1 \in TreeIndex \ {1} /\ (2 * n + 1) \div 2 = n /\ (2 * n + 1) % 2 = 1
  BY ChildrenAre
<1>8. S[2 * n + 0] = s - d BY <1>3, <1>5, <1>6, <1>7
<1>9. S[2 * n + 1] = s + d
  <2>1. ~((2 * n + 1) % 2 = 0) BY <1>7
  <2> QED BY <1>3, <1>5, <1>6, <1>7, <2>1
<1>10. 2 * n + 0 = 2 * n BY <1>4
<1> QED BY <1>2, <1>5, <1>8, <1>9, <1>10

\* All values of a limited tree are within the limits.
LEMMA AllInLimits ==
  ASSUME NEW tree, SoundTree(tree), InLimits(tree), NEW n \in TreeIndex
  PROVE  Scales(tree)[n] \in Int /\ LowLogOdds <= Scales(tree)[n] /\ Scales(tree)[n] <= HighLogOdds
<1>0. LowLogOdds \in Int /\ HighLogOdds \in Int BY MessageAssumption
<1>1. PICK S \in [TreeIndex -> Int] : S = Scales(tree) BY ScalesAre DEF SoundTree
<1> DEFINE T == {h \in Nat : \A m \in TreeIndex : HeightOf(m) = h => LowLogOdds <= S[m] /\ S[m] <= HighLogOdds}
<1>2. 0 \in T
  <2>1. ASSUME NEW m \in TreeIndex, HeightOf(m) = 0 PROVE LowLogOdds <= S[m] /\ S[m] <= HighLogOdds
    <3>1. m \in TreeCell BY <2>1, HeightsAre
    <3>2. CellsOf(tree)[m] = S[m] BY <1>1, <3>1 DEF CellsOf
    <3> QED BY <3>1, <3>2 DEF InLimits
  <2> QED BY <2>1
<1>3. ASSUME NEW h \in Nat, h \in T PROVE h + 1 \in T
  <2> SUFFICES ASSUME NEW m \in TreeIndex, HeightOf(m) = h + 1
               PROVE  LowLogOdds <= S[m] /\ S[m] <= HighLogOdds
    OBVIOUS
  <2>1. m \in TreeNode BY HeightsAre
  <2>2. /\ 2 * m \in TreeIndex /\ 2 * m + 1 \in TreeIndex
        /\ HeightOf(2 * m) = h /\ HeightOf(2 * m + 1) = h
    BY <2>1, TwoChildren
  <2>3. /\ LowLogOdds <= S[2 * m] /\ S[2 * m] <= HighLogOdds
        /\ LowLogOdds <= S[2 * m + 1] /\ S[2 * m + 1] <= HighLogOdds
    <3>1. \A k \in TreeIndex : HeightOf(k) = h => LowLogOdds <= S[k] /\ S[k] <= HighLogOdds BY <1>3
    <3>2. LowLogOdds <= S[2 * m] /\ S[2 * m] <= HighLogOdds BY <2>2, <3>1
    <3>3. LowLogOdds <= S[2 * m + 1] /\ S[2 * m + 1] <= HighLogOdds BY <2>2, <3>1
    <3> QED BY <3>2, <3>3
  <2>4. PICK s, d \in Int : S[m] = s /\ S[2 * m] = s - d /\ S[2 * m + 1] = s + d
    <3>1. \E s, d \in Int : /\ Scales(tree)[m] = s
                            /\ Scales(tree)[2 * m] = s - d /\ Scales(tree)[2 * m + 1] = s + d
      BY <2>1, ScaleOfChildren
    <3> QED BY <1>1, <3>1, Zenon
  <2> QED BY <1>0, <2>3, <2>4
<1> HIDE DEF T
<1>4. Nat \subseteq T BY <1>2, <1>3, NatInductionSet
<1>5. HeightOf(n) \in T BY <1>4, HeightsAre
<1> QED BY <1>1, <1>5 DEF T

\* No cell below a node can be further from a limit than its distance from it,
\* doubled for each level in between.
LEMMA SpreadBelow ==
  ASSUME NEW tree, SoundTree(tree), InLimits(tree), NEW c \in TreeCell, NEW h \in 1..H, NEW k \in 0..h
  PROVE  LET top == Scales(tree)[At(c, h)]
             v == Scales(tree)[At(c, h - k)]
         IN  v - LowLogOdds <= Exp2(k) * (top - LowLogOdds) /\ HighLogOdds - v <= Exp2(k) * (HighLogOdds - top)
<1>0. H \in Nat /\ LowLogOdds \in Int /\ HighLogOdds \in Int /\ h \in 0..H
  BY MessageAssumption, Powers
<1>1. PICK S \in [TreeIndex -> Int] : S = Scales(tree) BY ScalesAre DEF SoundTree
<1>2. \A n \in TreeIndex : LowLogOdds <= S[n] /\ S[n] <= HighLogOdds BY <1>1, AllInLimits
<1>3. PICK x, y \in Nat : x = S[At(c, h)] - LowLogOdds /\ y = HighLogOdds - S[At(c, h)]
  <2>1. At(c, h) \in TreeIndex BY <1>0, AtIs
  <2>2. PICK t \in Int : t = S[At(c, h)] BY <2>1
  <2>3. LowLogOdds <= t /\ t <= HighLogOdds BY <1>2, <2>1, <2>2
  <2> QED BY <1>0, <2>2, <2>3
<1> DEFINE Near(v, e) == v - LowLogOdds <= e * x /\ HighLogOdds - v <= e * y
           T == {j \in Nat : j <= h => Near(S[At(c, h - j)], Exp2(j))}
<1>4. 0 \in T
  <2>1. h - 0 = h BY <1>0
  <2>2. At(c, h) \in TreeIndex BY <1>0, AtIs
  <2>3. PICK t \in Int : t = S[At(c, h)] BY <2>2
  <2>4. Exp2(0) = 1 BY Powers
  <2>5. Near(t, 1) BY <1>0, <1>3, <2>3
  <2> QED BY <2>1, <2>3, <2>4, <2>5
<1>5. ASSUME NEW j \in Nat, j \in T PROVE j + 1 \in T
  <2> SUFFICES ASSUME j + 1 <= h PROVE Near(S[At(c, h - (j + 1))], Exp2(j + 1)) OBVIOUS
  <2>1. PICK g \in 1..H : g = h - j /\ g - 1 = h - (j + 1) /\ g \in 0..H /\ g # 0
    <3>1. h - j \in 1..H /\ h - j \in 0..H /\ h - j # 0 /\ (h - j) - 1 = h - (j + 1) BY <1>0
    <3> QED BY <3>1
  <2>2. At(c, g) \in TreeNode BY <2>1, AtIs, HeightsAre
  <2>3. PICK n \in TreeNode, r \in {0, 1} : n = At(c, g) /\ At(c, g - 1) = 2 * n + r
    BY <2>2, StepDown
  <2>4. PICK s, d \in Int : S[n] = s /\ S[2 * n] = s - d /\ S[2 * n + 1] = s + d
    BY <1>1, ScaleOfChildren
  <2>5. 2 * n \in TreeIndex /\ 2 * n + 1 \in TreeIndex /\ n \in Nat BY TwoChildren
  <2>6. LowLogOdds <= s - d /\ s - d <= HighLogOdds /\ LowLogOdds <= s + d /\ s + d <= HighLogOdds
    BY <1>2, <2>4, <2>5
  <2>7. PICK v \in Int : v = S[At(c, g - 1)] /\ (v = s - d \/ v = s + d)
    <3>1. CASE r = 0
      <4>1. 2 * n + 0 = 2 * n BY <2>5
      <4> QED BY <2>3, <2>4, <3>1, <4>1
    <3>2. CASE r = 1 BY <2>3, <2>4, <3>2
    <3> QED BY <3>1, <3>2
  <2>8. j \in 0..H /\ j \in 0..(H + 1) /\ j <= h BY <1>0
  <2>9. PICK e \in Nat : e = Exp2(j) /\ Exp2(j + 1) = 2 * e BY <2>8, Powers
  <2>10. Near(s, e)
    <3>1. Near(S[At(c, h - j)], Exp2(j)) BY <1>5, <2>8
    <3> HIDE DEF Near
    <3> QED BY <2>1, <2>3, <2>4, <2>9, <3>1
  <2>11. PICK ex, ey \in Int : ex = e * x /\ ey = e * y OBVIOUS
  <2>12. (2 * e) * x = 2 * ex /\ (2 * e) * y = 2 * ey BY <2>11
  <2>13. s - LowLogOdds <= ex /\ HighLogOdds - s <= ey BY <2>10, <2>11
  <2>14. v - LowLogOdds <= 2 * ex /\ HighLogOdds - v <= 2 * ey BY <1>0, <2>6, <2>7, <2>13
  <2>15. Near(v, 2 * e) BY <2>12, <2>14
  <2> HIDE DEF Near
  <2> QED BY <2>1, <2>7, <2>9, <2>15
<1> HIDE DEF T
<1>6. Nat \subseteq T BY <1>4, <1>5, NatInductionSet
<1>7. k \in T /\ k <= h BY <1>0, <1>6
<1>8. Near(S[At(c, h - k)], Exp2(k)) BY <1>7 DEF T
<1> QED BY <1>1, <1>3, <1>8

\* What is left out below a saturated node is within the error.
LEMMA CutIsSmall ==
  ASSUME NEW tree, SoundTree(tree), InLimits(tree), NEW c \in TreeCell, NEW h \in 1..(H - 1),
         Saturated(Scales(tree)[At(c, h)])
  PROVE  Scales(tree)[At(c, h)] - Scales(tree)[c] \in -CutError..CutError
<1>0. /\ H \in Nat /\ LowLogOdds \in Int /\ HighLogOdds \in Int /\ CutNoise \in Nat
      /\ h \in 1..H /\ h \in 0..H /\ h \in 0..h /\ h \in 0..(H + 1) /\ H - 1 \in 0..(H + 1)
      /\ h <= H - 1 /\ h - h = 0
  BY MessageAssumption, Powers
<1>1. At(c, 0) = c
  <2>1. c \in Nat BY IndicesAre DEF TreeIndex
  <2>2. c \div 1 = c BY <2>1
  <2> QED BY <2>2, Powers DEF At
<1>2. c \in TreeIndex /\ At(c, h) \in TreeIndex BY <1>0, AtIs DEF TreeIndex
<1>3. PICK top, v \in Int : top = Scales(tree)[At(c, h)] /\ v = Scales(tree)[c]
  BY <1>2, AllInLimits
<1>4. LowLogOdds <= v /\ v <= HighLogOdds /\ LowLogOdds <= top /\ top <= HighLogOdds
  BY <1>2, <1>3, AllInLimits
<1>5. PICK e, f \in Nat \ {0} : e = Exp2(h) /\ f = Exp2(H - 1) /\ e <= f
  <2>1. Exp2(h) <= Exp2(H - 1) BY <1>0, PowersGrow
  <2> QED BY <1>0, <2>1, Powers
<1>6. v - LowLogOdds <= e * (top - LowLogOdds) /\ HighLogOdds - v <= e * (HighLogOdds - top)
  BY <1>0, <1>1, <1>3, <1>5, SpreadBelow
<1>7. CutError = f * CutNoise BY <1>5 DEF CutError, H
<1>8. ASSUME NEW z \in Nat, z <= CutNoise PROVE e * z <= f * CutNoise
  <2>1. z * e <= CutNoise * e BY <1>0, <1>8, ProductOrder
  <2>2. e * CutNoise <= f * CutNoise
    <3>1. CASE CutNoise = 0
      <4>1. e * 0 = 0 /\ f * 0 = 0 OBVIOUS
      <4> QED BY <3>1, <4>1
    <3>2. CASE CutNoise # 0
      <4>1. CutNoise \in Nat \ {0} BY <1>0, <3>2
      <4> QED BY <1>5, <4>1, ProductOrder
    <3> QED BY <3>1, <3>2
  <2>3. z * e = e * z /\ CutNoise * e = e * CutNoise BY <1>0
  <2>4. e * z \in Int /\ e * CutNoise \in Int /\ f * CutNoise \in Int BY <1>0
  <2> QED BY <2>1, <2>2, <2>3, <2>4
<1>9. PICK cut \in Int : cut = CutError /\ CutNoise <= cut
  <2>1. f * CutNoise \in Int BY <1>0
  <2>2. CutNoise <= f * CutNoise
    <3>1. 1 * CutNoise <= f * CutNoise
      <4>1. CASE CutNoise = 0
        <5>1. f * 0 = 0 /\ 1 * 0 = 0 OBVIOUS
        <5> QED BY <4>1, <5>1
      <4>2. CASE CutNoise # 0
        <5>1. CutNoise \in Nat \ {0} /\ 1 <= f BY <1>0, <4>2
        <5> QED BY <5>1, ProductOrder
      <4> QED BY <4>1, <4>2
    <3>2. 1 * CutNoise = CutNoise BY <1>0
    <3> QED BY <3>1, <3>2
  <2> QED BY <1>7, <2>1, <2>2
<1>10. CASE top < LowLogOdds + CutNoise
  <2>1. PICK z \in Nat : z = top - LowLogOdds BY <1>0, <1>4
  <2>2. z <= CutNoise BY <1>0, <1>10, <2>1
  <2>3. e * z <= cut BY <1>7, <1>8, <1>9, <2>2
  <2>4. PICK y \in Int : y = e * z OBVIOUS
  <2>5. v - LowLogOdds <= y BY <1>6, <2>1, <2>4
  <2>6. v - top <= cut /\ top - v <= cut BY <1>0, <1>4, <1>9, <2>1, <2>2, <2>3, <2>4, <2>5
  <2>7. top - v \in -cut..cut BY <2>6
  <2> QED BY <1>3, <1>9, <2>7
<1>11. CASE HighLogOdds - CutNoise < top
  <2>1. PICK z \in Nat : z = HighLogOdds - top BY <1>0, <1>4
  <2>2. z <= CutNoise BY <1>0, <1>11, <2>1
  <2>3. e * z <= cut BY <1>7, <1>8, <1>9, <2>2
  <2>4. PICK y \in Int : y = e * z OBVIOUS
  <2>5. HighLogOdds - v <= y BY <1>6, <2>1, <2>4
  <2>6. v - top <= cut /\ top - v <= cut BY <1>0, <1>4, <1>9, <2>1, <2>2, <2>3, <2>4, <2>5
  <2>7. top - v \in -cut..cut BY <2>6
  <2> QED BY <1>3, <1>9, <2>7
<1> QED BY <1>3, <1>10, <1>11 DEF Saturated

-----------------------------------------------------------------------------
(* The traversal of a tree with a stack *)

\* The nodes that are written: those that no saturated one is above.
Skipped(tree, n) == kind = "hashed_wavelet_octree" /\ Saturated(Scales(tree)[n])
Followed(tree) == {n \in TreeNode : \A a \in UpFrom(n) \ {1} : a \in tree.nodes /\ ~Skipped(tree, a)}

LEMMA FollowedAre ==
  ASSUME NEW tree, SoundTree(tree)
  PROVE  /\ 1 \in Followed(tree)
         /\ \A n \in Followed(tree) : UpFrom(n) \subseteq Followed(tree)
         /\ \A n \in Followed(tree) : n # 1 => n \in tree.nodes
         /\ \A n \in TreeNode : \A i \in {0, 1} :
              2 * n + i \in Followed(tree) <=> n \in Followed(tree) /\ i \in Followers(tree, Scales(tree), n)
<1>1. UpFrom(1) = {1}
  <2>1. ASSUME NEW a \in UpFrom(1), a # 1 PROVE FALSE
    <3>1. a \in TreeIndex /\ HeightOf(1) < HeightOf(a) /\ 1 \in TreeIndex BY <2>1, TopIs, UpFromNested
    <3>2. HeightOf(a) \in 0..H /\ HeightOf(1) = H BY <3>1, TopIs, HeightsAre
    <3> QED BY <3>1, <3>2, Powers
  <2> QED BY <2>1, TopIs, UpFromIndex
<1>2. 1 \in Followed(tree) BY <1>1, TopIs DEF Followed
<1>3. ASSUME NEW n \in Followed(tree), NEW a \in UpFrom(n) PROVE a \in Followed(tree)
  <2>1. n \in TreeNode /\ n \in TreeIndex BY DEF Followed, TreeIndex
  <2>2. a \in TreeNode /\ UpFrom(a) \subseteq UpFrom(n) BY <2>1, UpFromNested
  <2> QED BY <2>2 DEF Followed
<1>4. ASSUME NEW n \in Followed(tree), n # 1 PROVE n \in tree.nodes
  <2>1. n \in UpFrom(n) BY UpFromIndex DEF Followed, TreeIndex
  <2> QED BY <1>4, <2>1 DEF Followed
<1>5. ASSUME NEW n \in TreeNode, NEW i \in {0, 1}
      PROVE  2 * n + i \in Followed(tree) <=> n \in Followed(tree) /\ i \in Followers(tree, Scales(tree), n)
  <2>1. PICK m \in TreeIndex : m = 2 * n + i /\ m # 1 /\ m \div 2 = n BY ChildrenAre
  <2>2. UpFrom(m) = {m} \cup UpFrom(n) BY <2>1, UpFromNested
  <2>3. tree.nodes \subseteq TreeNode BY DEF SoundTree
  <2>4. i \in Followers(tree, Scales(tree), n) <=> m \in tree.nodes /\ ~Skipped(tree, m)
    BY <2>1 DEF Followers, Skipped
  <2>5. m \in Followed(tree) <=> n \in Followed(tree) /\ m \in tree.nodes /\ ~Skipped(tree, m)
    BY <2>1, <2>2, <2>3 DEF Followed
  <2> QED BY <2>1, <2>4, <2>5
<1> QED BY <1>2, <1>3, <1>4, <1>5

LEMMA FollowedChild ==
  ASSUME NEW tree, SoundTree(tree), NEW n \in TreeNode, NEW i, i = 0 \/ i = 1, NEW m, m = 2 * n + i,
         m \in Followed(tree)
  PROVE  n \in Followed(tree) /\ i \in Followers(tree, Scales(tree), n)
<1>1. i \in {0, 1} OBVIOUS
<1>2. 2 * n + i \in Followed(tree) => n \in Followed(tree) /\ i \in Followers(tree, Scales(tree), n)
  <2>1. \A k \in TreeNode : \A j \in {0, 1} :
        2 * k + j \in Followed(tree) <=> k \in Followed(tree) /\ j \in Followers(tree, Scales(tree), k)
    BY FollowedAre
  <2> HIDE DEF Followed
  <2> QED BY <1>1, <2>1, Zenon
<1> QED BY <1>2

\* Whatever is below a node is below one of its children.
LEMMA ChildOnTheWay ==
  ASSUME NEW m \in TreeIndex, NEW n \in UpFrom(m), m # n
  PROVE  n \in TreeNode /\ \E i \in {0, 1} : 2 * n + i \in UpFrom(m)
<1>0. H \in Nat BY Powers
<1>1. PICK c \in TreeCell : c = Code(m) BY UpFromIndex
<1>2. /\ HeightOf(m) \in 0..H /\ UpFrom(m) = {At(c, g) : g \in HeightOf(m)..H}
      /\ At(c, HeightOf(m)) = m
  BY <1>1, UpFromIndex, CodeIs
<1>3. PICK h \in HeightOf(m)..H : n = At(c, h) BY <1>2
<1>4. h # HeightOf(m) BY <1>2, <1>3
<1>5. h \in 1..H /\ h \in 0..H /\ h - 1 \in HeightOf(m)..H /\ h # 0 BY <1>0, <1>2, <1>3, <1>4
<1>6. At(c, h - 1) = 2 * At(c, h) + ChildAt(c, h) /\ ChildAt(c, h) \in {0, 1} BY <1>5, StepDown
<1>7. At(c, h - 1) \in UpFrom(m) BY <1>2, <1>5
<1>8. n \in TreeNode BY <1>3, <1>5, AtIs, HeightsAre
<1> QED BY <1>3, <1>6, <1>7, <1>8

\* What is pushed for a node: its children, each once.
LEMMA PushedIs ==
  ASSUME NEW n \in TreeNode, NEW children \in SUBSET {0, 1}, \A i \in children : 2 * n + i \in TreeNode
  PROVE  LET p == Pushed(n, children)
         IN  /\ p \in Seq(TreeNode)
             /\ \A i \in 1..Len(p) : \E j \in children : p[i] = 2 * n + j
             /\ \A j \in children : \E i \in 1..Len(p) : p[i] = 2 * n + j
             /\ \A i, k \in 1..Len(p) : i # k => p[i] # p[k]
<1>0. n \in Nat /\ 2 * n + 0 = 2 * n
  <2>1. n \in Nat BY TwoChildren
  <2> QED BY <2>1
<1>1. CASE 0 \in children /\ 1 \in children
  <2>1. Pushed(n, children) = <<2 * n + 1, 2 * n>>
    <3>1. ASSUME NEW a, NEW b PROVE <<a>> \o <<b>> = <<a, b>>
      <4>1. <<a>> \in Seq({a, b}) /\ <<b>> \in Seq({a, b}) /\ <<a, b>> \in Seq({a, b})
            /\ Len(<<a>>) = 1 /\ Len(<<b>>) = 1 /\ Len(<<a, b>>) = 2
        OBVIOUS
      <4>2. \A i \in 1..2 : (<<a>> \o <<b>>)[i] = <<a, b>>[i] OBVIOUS
      <4>3. <<a>> \o <<b>> \in Seq({a, b}) /\ Len(<<a>> \o <<b>>) = 2 OBVIOUS
      <4> QED BY <4>1, <4>2, <4>3, SeqEqual
    <3>2. Pushed(n, children) = <<2 * n + 1>> \o <<2 * n>> BY <1>1, Zenon DEF Pushed
    <3> QED BY <3>1, <3>2
  <2>2. 2 * n + 1 # 2 * n BY <1>0
  <2>3. 2 * n + 1 \in TreeNode /\ 2 * n \in TreeNode BY <1>0, <1>1
  <2> QED BY <1>0, <1>1, <2>1, <2>2, <2>3
<1>2. CASE 0 \in children /\ 1 \notin children
  <2>1. Pushed(n, children) = <<2 * n>> BY <1>2 DEF Pushed
  <2>2. 2 * n \in TreeNode BY <1>0, <1>2
  <2> QED BY <1>0, <1>2, <2>1, <2>2
<1>3. CASE 0 \notin children /\ 1 \in children
  <2>1. Pushed(n, children) = <<2 * n + 1>> BY <1>3 DEF Pushed
  <2> QED BY <1>0, <1>3, <2>1
<1>4. CASE 0 \notin children /\ 1 \notin children
  <2>1. Pushed(n, children) = <<>> BY <1>4 DEF Pushed
  <2>2. children = {} BY <1>4
  <2> QED BY <2>1, <2>2
<1> QED BY <1>1, <1>2, <1>3, <1>4

\* The stack after a node was taken from it.
Popped(s, children) == Front(s) \o Pushed(Last(s), children)

Poppable(s, children) ==
  /\ s \in Seq(TreeNode) /\ s # <<>> /\ children \in SUBSET {0, 1}
  /\ \A i \in children : 2 * Last(s) + i \in TreeNode

LEMMA PoppedIs ==
  ASSUME NEW s, NEW children, Poppable(s, children)
  PROVE  LET t == Popped(s, children)
             n == Last(s)
         IN  /\ t \in Seq(TreeNode) /\ n \in TreeNode /\ Len(s) \in 1..Len(s) /\ n = s[Len(s)]
             /\ \A i \in 1..(Len(s) - 1) : i \in 1..Len(t) /\ t[i] = s[i]
             /\ \A i \in 1..Len(t) : i \in 1..(Len(s) - 1) \/ \E j \in children : t[i] = 2 * n + j
             /\ \A j \in children : \E i \in 1..Len(t) : t[i] = 2 * n + j
             /\ \A i, k \in 1..Len(t) : i # k /\ i \notin 1..(Len(s) - 1) /\ k \notin 1..(Len(s) - 1)
                                          => t[i] # t[k]
<1>1. PICK L \in Nat \ {0} : L = Len(s) BY EmptySeq DEF Poppable
<1>2. \A i \in 1..L : s[i] \in TreeNode BY <1>1 DEF Poppable
<1>3. PICK n \in TreeNode : n = Last(s) /\ n = s[L] BY <1>1, <1>2 DEF Last
<1>4. PICK f : f = Front(s) OBVIOUS
<1>5. f \in Seq(TreeNode) /\ Len(f) = L - 1 /\ \A i \in 1..(L - 1) : f[i] = s[i]
  <2>1. f = SubSeq(s, 1, L - 1) BY <1>1, <1>4 DEF Front
  <2>2. \A i \in 1..(L - 1) : s[i] \in TreeNode BY <1>1, <1>2
  <2>3. f \in Seq(TreeNode) /\ Len(f) = IF 1 <= L - 1 THEN L - 1 - 1 + 1 ELSE 0
    BY <2>1, <2>2, SubSeqProperties
  <2>4. \A i \in 1..(L - 1) : f[i] = s[i] BY <2>1, <2>2, SubSeqProperties
  <2> QED BY <1>1, <2>3, <2>4
<1>6. PICK p : p = Pushed(n, children) OBVIOUS
<1>7. /\ p \in Seq(TreeNode)
      /\ \A i \in 1..Len(p) : \E j \in children : p[i] = 2 * n + j
      /\ \A j \in children : \E i \in 1..Len(p) : p[i] = 2 * n + j
      /\ \A i, k \in 1..Len(p) : i # k => p[i] # p[k]
  BY <1>3, <1>6, PushedIs, SMTT(30) DEF Poppable
<1>8. PICK t : t = f \o p /\ t = Popped(s, children) BY <1>3, <1>4, <1>6 DEF Popped
<1>9. PICK P \in Nat : P = Len(p) BY <1>7
<1>10. /\ t \in Seq(TreeNode) /\ Len(t) = (L - 1) + P
       /\ \A i \in 1..((L - 1) + P) : t[i] = IF i <= L - 1 THEN f[i] ELSE p[i - (L - 1)]
  <2>1. /\ f \o p \in Seq(TreeNode) /\ Len(f \o p) = Len(f) + Len(p)
        /\ \A i \in 1..(Len(f) + Len(p)) : (f \o p)[i] = IF i <= Len(f) THEN f[i] ELSE p[i - Len(f)]
    <3>1. f \in Seq(TreeNode) /\ p \in Seq(TreeNode) BY <1>5, <1>7
    <3> QED BY <3>1, ConcatProperties
  <2> QED BY <1>5, <1>8, <1>9, <2>1
<1>11. \A i \in 1..(L - 1) : i \in 1..Len(t) /\ t[i] = s[i] BY <1>5, <1>10
<1>12. ASSUME NEW i \in 1..Len(t), i \notin 1..(L - 1)
       PROVE  i - (L - 1) \in 1..P /\ t[i] = p[i - (L - 1)]
  BY <1>10, <1>12
<1>13. ASSUME NEW i \in 1..Len(t), i \notin 1..(L - 1) PROVE \E j \in children : t[i] = 2 * n + j
  BY <1>7, <1>9, <1>12, <1>13
<1>14. ASSUME NEW j \in children PROVE \E i \in 1..Len(t) : t[i] = 2 * n + j
  <2>1. PICK i \in 1..P : p[i] = 2 * n + j BY <1>7, <1>9
  <2>2. (L - 1) + i \in 1..Len(t) /\ ((L - 1) + i) - (L - 1) = i /\ (L - 1) + i \notin 1..(L - 1)
    BY <1>10
  <2> QED BY <1>12, <2>1, <2>2
<1>15. ASSUME NEW i \in 1..Len(t), NEW k \in 1..Len(t), i # k, i \notin 1..(L - 1), k \notin 1..(L - 1)
       PROVE  t[i] # t[k]
  <2>1. i - (L - 1) \in 1..P /\ k - (L - 1) \in 1..P /\ t[i] = p[i - (L - 1)] /\ t[k] = p[k - (L - 1)]
    BY <1>12, <1>15
  <2>2. i - (L - 1) # k - (L - 1) BY <1>10, <1>15
  <2> QED BY <1>7, <1>9, <2>1, <2>2
<1> QED BY <1>1, <1>3, <1>8, <1>10, <1>11, <1>13, <1>14, <1>15

\* No two nodes of the stack are below each other, and all of them are written.
WorkStack(tree, s) ==
  /\ s \in Seq(TreeNode)
  /\ \A i \in 1..Len(s) : s[i] \in Followed(tree)
  /\ \A i, j \in 1..Len(s) : i # j => s[i] \notin UpFrom(s[j])

\* What is still to be written.
Pending(tree, s) == {n \in Followed(tree) : \E i \in 1..Len(s) : s[i] \in UpFrom(n)}

NextStack(tree, s) == Popped(s, Followers(tree, Scales(tree), Last(s)))

LEMMA FollowersPush ==
  ASSUME NEW tree, SoundTree(tree), NEW s, WorkStack(tree, s), s # <<>>
  PROVE  /\ Poppable(s, Followers(tree, Scales(tree), Last(s)))
         /\ Last(s) = s[Len(s)] /\ Len(s) \in 1..Len(s) /\ Last(s) \in Followed(tree) /\ Last(s) \in TreeNode
<1>1. s \in Seq(TreeNode) BY DEF WorkStack
<1>2. PICK L \in Nat \ {0} : L = Len(s) BY <1>1, EmptySeq
<1>3. PICK n \in TreeNode : n = Last(s) /\ n = s[L] /\ n \in Followed(tree)
  BY <1>1, <1>2 DEF Last, WorkStack
<1>4. ASSUME NEW i \in Followers(tree, Scales(tree), n) PROVE i \in {0, 1} /\ 2 * n + i \in TreeNode
  BY DEF Followers, SoundTree
<1>5. L \in 1..L BY <1>2
<1> QED BY <1>1, <1>2, <1>3, <1>4, <1>5 DEF Poppable

LEMMA StackStep ==
  ASSUME NEW tree, SoundTree(tree), NEW s, WorkStack(tree, s), s # <<>>
  PROVE  /\ WorkStack(tree, NextStack(tree, s))
         /\ Pending(tree, NextStack(tree, s)) = Pending(tree, s) \ {Last(s)}
         /\ Last(s) \in Pending(tree, s)
<1>1. PICK children : children = Followers(tree, Scales(tree), Last(s)) OBVIOUS
<1>2. PICK n \in TreeNode : n = Last(s) /\ n = s[Len(s)] /\ n \in Followed(tree)
  BY FollowersPush
<1>3. Poppable(s, children) /\ Len(s) \in 1..Len(s) BY <1>1, FollowersPush
<1>4. PICK t : t = Popped(s, children) OBVIOUS
<1>5. /\ t \in Seq(TreeNode)
      /\ \A i \in 1..(Len(s) - 1) : i \in 1..Len(t) /\ t[i] = s[i]
      /\ \A i \in 1..Len(t) : i \in 1..(Len(s) - 1) \/ \E j \in children : t[i] = 2 * n + j
      /\ \A j \in children : \E i \in 1..Len(t) : t[i] = 2 * n + j
      /\ \A i, k \in 1..Len(t) : i # k /\ i \notin 1..(Len(s) - 1) /\ k \notin 1..(Len(s) - 1)
                                   => t[i] # t[k]
  BY <1>2, <1>3, <1>4, PoppedIs, SMTT(30)
<1>6. PICK L \in Nat \ {0} : L = Len(s)
  <2>1. s \in Seq(TreeNode) BY DEF WorkStack
  <2> QED BY <2>1, EmptySeq
<1>7. /\ \A i \in 1..L : s[i] \in Followed(tree) /\ s[i] \in TreeNode /\ s[i] \in TreeIndex
      /\ \A i, j \in 1..L : i # j => s[i] \notin UpFrom(s[j])
      /\ n = s[L] /\ L \in 1..L /\ n \in TreeIndex
  BY <1>2, <1>6 DEF WorkStack, Followed, TreeIndex
<1>8. ASSUME NEW j \in children
      PROVE  /\ 2 * n + j \in Followed(tree) /\ 2 * n + j \in TreeIndex
             /\ UpFrom(2 * n + j) = {2 * n + j} \cup UpFrom(n) /\ 2 * n + j \notin UpFrom(n)
  <2>1. j \in {0, 1} BY <1>3 DEF Poppable
  <2>2. 2 * n + j \in Followed(tree) BY <1>1, <1>2, <2>1, FollowedAre
  <2>3. PICK m \in TreeIndex : m = 2 * n + j /\ m # 1 /\ m \div 2 = n BY <2>1, ChildrenAre
  <2> QED BY <2>2, <2>3, UpFromNested
<1>9. n \in UpFrom(n) BY <1>7, UpFromIndex
<1>10. \A i \in 1..Len(t) : t[i] \in Followed(tree)
  <2>1. ASSUME NEW i \in 1..Len(t) PROVE t[i] \in Followed(tree)
    <3>1. CASE i \in 1..(L - 1)
      <4>1. i \in 1..L BY <3>1
      <4> QED BY <1>5, <1>6, <1>7, <3>1, <4>1
    <3>2. CASE i \notin 1..(L - 1) BY <1>5, <1>6, <1>8, <3>2
    <3> QED BY <3>1, <3>2
  <2> QED BY <2>1
<1>11. ASSUME NEW i \in 1..(L - 1)
       PROVE  /\ i \in 1..L /\ i # L /\ s[i] \in TreeIndex /\ s[i] \notin UpFrom(n) /\ n \notin UpFrom(s[i])
  <2>1. i \in 1..L /\ i # L BY <1>6
  <2> QED BY <1>7, <2>1
<1>12. ASSUME NEW i \in 1..(L - 1), NEW j \in children
       PROVE  s[i] \notin UpFrom(2 * n + j) /\ 2 * n + j \notin UpFrom(s[i])
  <2>1. n \notin UpFrom(s[i]) /\ s[i] \notin UpFrom(n) /\ s[i] \in TreeIndex BY <1>11
  <2>2. n \in UpFrom(2 * n + j) BY <1>8, <1>9
  <2>3. ASSUME 2 * n + j \in UpFrom(s[i]) PROVE FALSE
    <3>1. UpFrom(2 * n + j) \subseteq UpFrom(s[i]) BY <2>1, <2>3, UpFromNested
    <3> QED BY <2>1, <2>2, <3>1
  <2>4. s[i] \in UpFrom(s[i]) BY <2>1, UpFromIndex
  <2>5. s[i] # 2 * n + j BY <2>3, <2>4
  <2> QED BY <1>8, <2>1, <2>3, <2>5
<1>13. ASSUME NEW i \in 1..Len(t), NEW k \in 1..Len(t), i # k PROVE t[i] \notin UpFrom(t[k])
  <2>1. CASE i \in 1..(L - 1) /\ k \in 1..(L - 1)
    <3>1. t[i] = s[i] /\ t[k] = s[k] BY <1>5, <1>6, <2>1
    <3>2. i \in 1..L /\ k \in 1..L BY <1>11, <2>1
    <3> QED BY <1>7, <1>13, <3>1, <3>2
  <2>2. CASE i \in 1..(L - 1) /\ k \notin 1..(L - 1)
    <3>1. t[i] = s[i] BY <1>5, <1>6, <2>2
    <3>2. PICK j \in children : t[k] = 2 * n + j BY <1>5, <1>6, <2>2
    <3> QED BY <1>12, <2>2, <3>1, <3>2
  <2>3. CASE i \notin 1..(L - 1) /\ k \in 1..(L - 1)
    <3>1. t[k] = s[k] BY <1>5, <1>6, <2>3
    <3>2. PICK j \in children : t[i] = 2 * n + j BY <1>5, <1>6, <2>3
    <3> QED BY <1>12, <2>3, <3>1, <3>2
  <2>4. CASE i \notin 1..(L - 1) /\ k \notin 1..(L - 1)
    <3>1. PICK j \in children : t[i] = 2 * n + j BY <1>5, <1>6, <2>4
    <3>2. PICK g \in children : t[k] = 2 * n + g BY <1>5, <1>6, <2>4
    <3>3. t[i] # t[k] BY <1>5, <1>6, <1>13, <2>4
    <3> QED BY <1>8, <3>1, <3>2, <3>3
  <2> QED BY <2>1, <2>2, <2>3, <2>4
<1>14. WorkStack(tree, t) BY <1>5, <1>10, <1>13 DEF WorkStack
<1>15. Last(s) \in Pending(tree, s) BY <1>2, <1>3, <1>9 DEF Pending
<1>16. ASSUME NEW m \in Pending(tree, t) PROVE m \in Pending(tree, s) /\ m # n
  <2>1. PICK i \in 1..Len(t) : t[i] \in UpFrom(m) /\ m \in Followed(tree) BY DEF Pending
  <2>2. m \in TreeIndex BY <2>1 DEF Followed, TreeIndex
  <2>3. CASE i \in 1..(L - 1)
    <3>1. t[i] = s[i] /\ s[i] \notin UpFrom(n) /\ i \in 1..L BY <1>5, <1>6, <1>11, <2>3
    <3> QED BY <1>6, <2>1, <3>1 DEF Pending
  <2>4. CASE i \notin 1..(L - 1)
    <3>1. PICK j \in children : t[i] = 2 * n + j BY <1>5, <1>6, <2>4
    <3>2. UpFrom(2 * n + j) \subseteq UpFrom(m) BY <2>1, <2>2, <3>1, UpFromNested
    <3>3. n \in UpFrom(m) BY <1>8, <1>9, <3>2
    <3>4. m # n BY <1>8, <2>1, <3>1
    <3> QED BY <1>2, <1>3, <2>1, <3>3, <3>4 DEF Pending
  <2> QED BY <2>3, <2>4
<1>17. ASSUME NEW m \in Pending(tree, s), m # n PROVE m \in Pending(tree, t)
  <2>1. PICK i \in 1..L : s[i] \in UpFrom(m) /\ m \in Followed(tree) BY <1>6 DEF Pending
  <2>2. m \in TreeIndex BY <2>1 DEF Followed, TreeIndex
  <2>3. CASE i = L
    <3>1. PICK j \in {0, 1} : 2 * n + j \in UpFrom(m) BY <1>7, <1>17, <2>1, <2>2, <2>3, ChildOnTheWay
    <3>2. 2 * n + j \in Followed(tree) BY <2>1, <3>1, FollowedAre
    <3>3. j \in children
      <4>1. j \in Followers(tree, Scales(tree), n) BY <3>2, FollowedChild
      <4>2. children = Followers(tree, Scales(tree), n) BY <1>1, <1>2
      <4> QED BY <4>1, <4>2
    <3>4. PICK k \in 1..Len(t) : t[k] = 2 * n + j BY <1>5, <3>3
    <3> QED BY <2>1, <3>1, <3>4 DEF Pending
  <2>4. CASE i # L
    <3>1. i \in 1..(L - 1) BY <1>6, <2>4
    <3>2. i \in 1..Len(t) /\ t[i] = s[i] BY <1>5, <1>6, <3>1
    <3> QED BY <2>1, <3>2 DEF Pending
  <2> QED BY <2>3, <2>4
<1>18. Pending(tree, t) = Pending(tree, s) \ {n} BY <1>16, <1>17
<1> QED BY <1>1, <1>2, <1>4, <1>14, <1>15, <1>18 DEF NextStack

LEMMA FirstStack ==
  ASSUME NEW tree, SoundTree(tree)
  PROVE  WorkStack(tree, <<1>>) /\ Pending(tree, <<1>>) = Followed(tree) /\ Pending(tree, <<>>) = {}
<1>1. PICK s : s = <<1>> OBVIOUS
<1>2. s \in Seq(TreeNode) /\ Len(s) = 1 /\ s[1] = 1 BY <1>1, TopIs
<1>3. \A i \in 1..1 : i = 1 OBVIOUS
<1>4. 1 \in Followed(tree) BY FollowedAre
<1>5. WorkStack(tree, s) BY <1>2, <1>3, <1>4 DEF WorkStack
<1>6. ASSUME NEW n \in Followed(tree) PROVE 1 \in UpFrom(n)
  BY UpFromIndex DEF Followed, TreeIndex
<1>7. Pending(tree, s) = Followed(tree)
  <2>1. 1 \in 1..Len(s) BY <1>2
  <2> QED BY <1>2, <1>6, <2>1 DEF Pending
<1>8. Pending(tree, <<>>) = {}
  <2>1. Len(<<>>) = 0 BY EmptySeq
  <2>2. 1..Len(<<>>) = {} BY <2>1
  <2> QED BY <2>2 DEF Pending
<1> QED BY <1>1, <1>5, <1>7, <1>8

-----------------------------------------------------------------------------
(* Writing a tree *)

\* The loop of the writer, for n nodes.
WriterStart == [stack |-> <<1>>, out |-> <<>>]
WriterStep(tree, s) == IF s.stack = <<>> THEN s ELSE WriteNode(tree, Scales(tree), s)
WriterLoop(tree, f, n) == f = [k \in 0..n |-> IF k = 0 THEN WriterStart ELSE WriterStep(tree, f[k - 1])]

LEMMA WriterLoops ==
  ASSUME NEW tree, NEW n \in Nat
  PROVE  \E f : WriterLoop(tree, f, n)
<1> DEFINE T == {m \in Nat : \E f : WriterLoop(tree, f, m)}
<1>1. 0 \in T
  <2>1. PICK f : f = [k \in 0..0 |-> WriterStart] OBVIOUS
  <2>2. \A k \in 0..0 : k = 0 OBVIOUS
  <2>3. WriterLoop(tree, f, 0) BY <2>1, <2>2, Zenon DEF WriterLoop
  <2> QED BY <2>3
<1>2. ASSUME NEW m \in Nat, m \in T PROVE m + 1 \in T
  <2>1. PICK f : WriterLoop(tree, f, m) BY <1>2
  <2>2. PICK g : g = [k \in 0..(m + 1) |-> IF k = m + 1 THEN WriterStep(tree, f[m]) ELSE f[k]] OBVIOUS
  <2>3. ASSUME NEW k \in 0..(m + 1)
        PROVE  g[k] = IF k = 0 THEN WriterStart ELSE WriterStep(tree, g[k - 1])
    <3>1. CASE k = m + 1
      <4>1. m \in 0..(m + 1) /\ m # m + 1 /\ k # 0 /\ k - 1 = m BY <3>1
      <4> QED BY <2>2, <3>1, <4>1
    <3>2. CASE k # m + 1
      <4>1. k \in 0..m BY <3>2
      <4>2. f[k] = IF k = 0 THEN WriterStart ELSE WriterStep(tree, f[k - 1])
        BY <2>1, <4>1 DEF WriterLoop
      <4>3. CASE k = 0 BY <2>2, <3>2, <4>2, <4>3
      <4>4. CASE k # 0
        <5>1. k - 1 \in 0..(m + 1) /\ k - 1 # m + 1 BY <4>1, <4>4
        <5> QED BY <2>2, <3>2, <4>2, <4>4, <5>1
      <4> QED BY <4>3, <4>4
    <3> QED BY <3>1, <3>2
  <2>4. WriterLoop(tree, g, m + 1) BY <2>2, <2>3, Zenon DEF WriterLoop
  <2> QED BY <2>4
<1> HIDE DEF T
<1>3. n \in T BY <1>1, <1>2, NatInductionSet
<1> QED BY <1>3 DEF T

\* What is written for the node at the top of a stack.
Item(tree, s) == [detail |-> tree.details[Last(s)], children |-> Followers(tree, Scales(tree), Last(s))]
Items(tree) == {Item(tree, s) : s \in Seq(TreeNode)}

\* The stacks st of the writer, one for each of the K nodes that it writes.
Script(tree, K, st) ==
  /\ K \in Nat /\ st[0] = <<1>> /\ st[K] = <<>>
  /\ \A k \in 0..K : WorkStack(tree, st[k])
  /\ \A k \in 0..(K - 1) : st[k] # <<>> /\ st[k + 1] = NextStack(tree, st[k])
  /\ NodesWritten(tree) \in Seq(Items(tree)) /\ Len(NodesWritten(tree)) = K
  /\ \A k \in 0..(K - 1) : NodesWritten(tree)[k + 1] = Item(tree, st[k])

\* The loop after j rounds; it stopped after K of them.
Written(tree, f, j, K) ==
  /\ K \in 0..j /\ f[j] = f[K] /\ (K = j \/ f[K].stack = <<>>)
  /\ f[0].stack = <<1>>
  /\ \A k \in 0..K : WorkStack(tree, f[k].stack)
  /\ \A k \in 0..(K - 1) : f[k].stack # <<>> /\ f[k + 1].stack = NextStack(tree, f[k].stack)
  /\ f[K].out \in Seq(Items(tree)) /\ Len(f[K].out) = K
  /\ \A k \in 0..(K - 1) : f[K].out[k + 1] = Item(tree, f[k].stack)
  /\ IsFiniteSet(Pending(tree, f[K].stack))
  /\ Cardinality(Pending(tree, f[K].stack)) + K <= Cardinality(TreeNode)

LEMMA WrittenFirst ==
  ASSUME NEW tree, SoundTree(tree), NEW f, f[0] = WriterStart
  PROVE  Written(tree, f, 0, 0)
<1>1. f[0].stack = <<1>> /\ f[0].out = <<>> BY DEF WriterStart
<1>2. WorkStack(tree, <<1>>) /\ Pending(tree, <<1>>) = Followed(tree) BY FirstStack
<1>3. IsFiniteSet(TreeNode)
  <2>1. Exp2(H) \in Int BY Powers
  <2> QED BY <2>1, FS_Interval DEF TreeNode, H
<1>4. Followed(tree) \in SUBSET TreeNode BY DEF Followed
<1>5. IsFiniteSet(Followed(tree)) /\ Cardinality(Followed(tree)) <= Cardinality(TreeNode)
  BY <1>3, <1>4, FS_Subset
<1>6. Cardinality(Followed(tree)) \in Nat BY <1>5, FS_CardinalityType
<1>7. 0..(0 - 1) = {} /\ 0..0 = {0} /\ 0 \in 0..0 OBVIOUS
<1>8. <<>> \in Seq(Items(tree)) /\ Len(<<>>) = 0 OBVIOUS
<1>9. Cardinality(Followed(tree)) + 0 <= Cardinality(TreeNode) BY <1>5, <1>6
<1> QED BY <1>1, <1>2, <1>5, <1>7, <1>8, <1>9 DEF Written

LEMMA WrittenNext ==
  ASSUME NEW tree, SoundTree(tree), NEW f, NEW j \in Nat, NEW K, Written(tree, f, j, K),
         f[j + 1] = WriterStep(tree, f[j])
  PROVE  \E k : Written(tree, f, j + 1, k)
<1>0. K \in 0..j /\ K \in Nat /\ f[j] = f[K] /\ (K = j \/ f[K].stack = <<>>) BY DEF Written
<1>1. CASE f[K].stack = <<>>
  <2>1. f[j + 1] = f[K] BY <1>0, <1>1 DEF WriterStep
  <2>2. K \in 0..(j + 1) BY <1>0
  <2>3. Written(tree, f, j + 1, K) BY <1>1, <2>1, <2>2 DEF Written
  <2> QED BY <2>3
<1>2. CASE f[K].stack # <<>>
  <2>0. K = j BY <1>0, <1>2
  <2>1. PICK s : s = f[j].stack OBVIOUS
  <2>2. WorkStack(tree, s) /\ s # <<>> /\ s \in Seq(TreeNode)
    <3>1. K \in 0..K BY <1>0
    <3> QED BY <1>2, <2>0, <2>1, <3>1 DEF Written, WorkStack
  <2>3. PICK out : out = f[j].out OBVIOUS
  <2>4. out \in Seq(Items(tree)) /\ Len(out) = j /\ \A k \in 0..(j - 1) : out[k + 1] = Item(tree, f[k].stack)
    BY <2>0, <2>3 DEF Written
  <2>5. /\ WorkStack(tree, NextStack(tree, s))
        /\ Pending(tree, NextStack(tree, s)) = Pending(tree, s) \ {Last(s)}
        /\ Last(s) \in Pending(tree, s)
    BY <2>2, StackStep
  <2>6. f[j + 1] = [stack |-> NextStack(tree, s), out |-> Append(out, Item(tree, s))]
    <3>1. f[j + 1] = WriteNode(tree, Scales(tree), f[j]) BY <1>2, <2>0 DEF WriterStep
    <3>2. WriteNode(tree, Scales(tree), f[j]) = [stack |-> NextStack(tree, s), out |-> Append(out, Item(tree, s))]
      BY <2>1, <2>3, Zenon DEF WriteNode, NextStack, Popped, Item
    <3> QED BY <3>1, <3>2
  <2>7. f[j + 1].stack = NextStack(tree, s) /\ f[j + 1].out = Append(out, Item(tree, s)) BY <2>6
  <2>8. Item(tree, s) \in Items(tree) BY <2>2 DEF Items
  <2>9. /\ Append(out, Item(tree, s)) \in Seq(Items(tree)) /\ Len(Append(out, Item(tree, s))) = j + 1
        /\ \A k \in 1..j : Append(out, Item(tree, s))[k] = out[k]
        /\ Append(out, Item(tree, s))[j + 1] = Item(tree, s)
    BY <2>4, <2>8, AppendProperties
  <2>10. ASSUME NEW k \in 0..((j + 1) - 1) PROVE f[j + 1].out[k + 1] = Item(tree, f[k].stack)
    <3>1. CASE k = j BY <2>1, <2>7, <2>9, <3>1
    <3>2. CASE k # j
      <4>1. k \in 0..(j - 1) /\ k + 1 \in 1..j BY <3>2
      <4> QED BY <2>4, <2>7, <2>9, <4>1
    <3> QED BY <3>1, <3>2
  <2>11. ASSUME NEW k \in 0..((j + 1) - 1)
         PROVE  f[k].stack # <<>> /\ f[k + 1].stack = NextStack(tree, f[k].stack)
    <3>1. CASE k = j BY <2>1, <2>2, <2>7, <3>1
    <3>2. CASE k # j
      <4>1. k \in 0..(j - 1) BY <3>2
      <4> QED BY <2>0, <4>1 DEF Written
    <3> QED BY <3>1, <3>2
  <2>12. ASSUME NEW k \in 0..(j + 1) PROVE WorkStack(tree, f[k].stack)
    <3>1. CASE k = j + 1 BY <2>5, <2>7, <3>1
    <3>2. CASE k # j + 1
      <4>1. k \in 0..j BY <3>2
      <4> QED BY <2>0, <4>1 DEF Written
    <3> QED BY <3>1, <3>2
  <2>13. /\ IsFiniteSet(Pending(tree, NextStack(tree, s)))
         /\ Cardinality(Pending(tree, NextStack(tree, s))) + (j + 1) <= Cardinality(TreeNode)
    <3>1. IsFiniteSet(Pending(tree, s)) /\ Cardinality(Pending(tree, s)) + j <= Cardinality(TreeNode)
      BY <2>0, <2>1 DEF Written
    <3>2. /\ IsFiniteSet(Pending(tree, s) \ {Last(s)})
          /\ Cardinality(Pending(tree, s) \ {Last(s)}) = Cardinality(Pending(tree, s)) - 1
      BY <2>5, <3>1, FS_RemoveElement
    <3>3. Cardinality(Pending(tree, s)) \in Nat BY <3>1, FS_CardinalityType
    <3>4. (Cardinality(Pending(tree, s)) - 1) + (j + 1) = Cardinality(Pending(tree, s)) + j BY <3>3
    <3> QED BY <2>5, <3>1, <3>2, <3>4
  <2>14. f[0].stack = <<1>> BY DEF Written
  <2>15. j + 1 \in 0..(j + 1) OBVIOUS
  <2>16. Written(tree, f, j + 1, j + 1)
    BY <2>7, <2>9, <2>10, <2>11, <2>12, <2>13, <2>14, <2>15 DEF Written
  <2> QED BY <2>16
<1> QED BY <1>1, <1>2

LEMMA ScriptExists ==
  ASSUME NEW tree, SoundTree(tree)
  PROVE  \E K, st : Script(tree, K, st)
<1>1. PICK N \in Nat : N = Cardinality(TreeNode)
  <2>1. Exp2(H) \in Int BY Powers
  <2>2. IsFiniteSet(TreeNode) BY <2>1, FS_Interval DEF TreeNode, H
  <2> QED BY <2>2, FS_CardinalityType
<1>2. PICK f : WriterLoop(tree, f, N) /\ NodesWritten(tree) = f[N].out
  <2>1. \E f : WriterLoop(tree, f, Cardinality(TreeNode)) BY <1>1, WriterLoops
  <2>2. PICK f : f = CHOOSE g : WriterLoop(tree, g, Cardinality(TreeNode)) OBVIOUS
  <2>3. NodesWritten(tree) = f[Cardinality(TreeNode)].out
    BY <2>2, Zenon DEF NodesWritten, WriterLoop, WriterStep, WriterStart
  <2>4. WriterLoop(tree, f, Cardinality(TreeNode)) BY <2>1, <2>2, Zenon
  <2> QED BY <1>1, <2>3, <2>4
<1>3. \A k \in 0..N : f[k] = IF k = 0 THEN WriterStart ELSE WriterStep(tree, f[k - 1])
  BY <1>2, Zenon DEF WriterLoop
<1> DEFINE T == {j \in Nat : j <= N => \E K : Written(tree, f, j, K)}
<1>4. 0 \in T
  <2>1. f[0] = WriterStart BY <1>1, <1>3
  <2> QED BY <2>1, WrittenFirst
<1>5. ASSUME NEW j \in Nat, j \in T PROVE j + 1 \in T
  <2> SUFFICES ASSUME j + 1 <= N PROVE \E K : Written(tree, f, j + 1, K) OBVIOUS
  <2>1. PICK K : Written(tree, f, j, K) BY <1>1, <1>5
  <2>2. j + 1 \in 0..N /\ j + 1 # 0 /\ (j + 1) - 1 = j BY <1>1
  <2>3. f[j + 1] = WriterStep(tree, f[j]) BY <1>3, <2>2
  <2> QED BY <2>1, <2>3, WrittenNext
<1> HIDE DEF T
<1>6. N \in T BY <1>1, <1>4, <1>5, NatInductionSet
<1>7. PICK K : Written(tree, f, N, K) BY <1>1, <1>6 DEF T
<1>8. K \in 0..N /\ K \in Nat BY <1>1, <1>7 DEF Written
<1>9. f[K].stack = <<>>
  <2> SUFFICES ASSUME f[K].stack # <<>> PROVE FALSE OBVIOUS
  <2>1. K = N BY <1>7 DEF Written
  <2>2. IsFiniteSet(Pending(tree, f[K].stack)) /\ Cardinality(Pending(tree, f[K].stack)) + N <= N
    BY <1>1, <1>7, <2>1 DEF Written
  <2>3. K \in 0..K BY <1>8
  <2>4. WorkStack(tree, f[K].stack) BY <1>7, <2>3 DEF Written
  <2>5. Last(f[K].stack) \in Pending(tree, f[K].stack) BY <2>4, StackStep
  <2>6. Cardinality(Pending(tree, f[K].stack)) \in Nat BY <2>2, FS_CardinalityType
  <2>7. Cardinality(Pending(tree, f[K].stack)) = 0 BY <1>1, <2>2, <2>6
  <2>8. Pending(tree, f[K].stack) = {} BY <2>2, <2>7, FS_EmptySet
  <2> QED BY <2>5, <2>8
<1>10. PICK st : st = [k \in 0..K |-> f[k].stack] OBVIOUS
<1>11. ASSUME NEW k \in 0..K PROVE st[k] = f[k].stack /\ WorkStack(tree, st[k])
  BY <1>7, <1>10 DEF Written
<1>12. ASSUME NEW k \in 0..(K - 1)
       PROVE  /\ st[k] # <<>> /\ st[k + 1] = NextStack(tree, st[k])
              /\ f[K].out[k + 1] = Item(tree, st[k])
  <2>1. k \in 0..K /\ k + 1 \in 0..K BY <1>8
  <2> QED BY <1>7, <1>11, <2>1 DEF Written
<1>13. 0 \in 0..K /\ K \in 0..K BY <1>8
<1>14. NodesWritten(tree) = f[K].out /\ f[K].out \in Seq(Items(tree)) /\ Len(f[K].out) = K /\ f[0].stack = <<1>>
  BY <1>2, <1>7 DEF Written
<1>15. Script(tree, K, st) BY <1>8, <1>9, <1>11, <1>12, <1>13, <1>14 DEF Script
<1> QED BY <1>15

-----------------------------------------------------------------------------
(* Reading a tree *)

TreeRecord == [scale : Int, details : [TreeNode -> Int], nodes : SUBSET TreeNode]

\* The tree t that the reader has made of old when it has the stack s.
TreeRead(tree, old, s, t) ==
  /\ t \in TreeRecord /\ t.scale = old.scale
  /\ old.nodes \subseteq t.nodes /\ t.nodes \subseteq old.nodes \cup Followed(tree)
  /\ \A n \in Followed(tree) \ Pending(tree, s) : n \in t.nodes /\ t.details[n] = tree.details[n]
  /\ \A n \in TreeNode \ Followed(tree) : t.details[n] = old.details[n]
  /\ \A i \in 1..Len(s) : s[i] \in t.nodes

LEMMA ReadNodeIs ==
  ASSUME NEW tree, SoundTree(tree), NEW old, NEW s, WorkStack(tree, s), s # <<>>,
         NEW t, TreeRead(tree, old, s, t)
  PROVE  \E u : /\ ReadNode([stack |-> s, tree |-> t], Item(tree, s)) = [stack |-> NextStack(tree, s), tree |-> u]
                /\ TreeRead(tree, old, NextStack(tree, s), u)
<1>1. PICK children : children = Followers(tree, Scales(tree), Last(s)) OBVIOUS
<1>2. PICK n \in TreeNode : n = Last(s) /\ n = s[Len(s)] /\ n \in Followed(tree) BY FollowersPush
<1>3. Poppable(s, children) /\ Len(s) \in 1..Len(s) BY <1>1, FollowersPush
<1>4. children \in SUBSET {0, 1} BY <1>3 DEF Poppable
<1>5. PICK below : below = {2 * n + i : i \in children} OBVIOUS
<1>6. below \subseteq Followed(tree)
  <2>1. ASSUME NEW i \in children PROVE 2 * n + i \in Followed(tree)
    <3>1. i \in {0, 1} /\ i \in Followers(tree, Scales(tree), n) BY <1>1, <1>2, <1>4
    <3>2. \A k \in TreeNode : \A j \in {0, 1} :
            2 * k + j \in Followed(tree) <=> k \in Followed(tree) /\ j \in Followers(tree, Scales(tree), k)
      BY FollowedAre
    <3> QED BY <1>2, <3>1, <3>2, Zenon
  <2> QED BY <1>5, <2>1
<1>7. PICK u : u = [t EXCEPT !.details[n] = tree.details[n], !.nodes = @ \cup below] OBVIOUS
<1>8. t \in TreeRecord /\ t.details \in [TreeNode -> Int] /\ t.nodes \in SUBSET TreeNode
  BY DEF TreeRead, TreeRecord
<1>9. /\ u = [scale |-> t.scale, details |-> [t.details EXCEPT ![n] = tree.details[n]],
              nodes |-> t.nodes \cup below]
  BY <1>7, <1>8 DEF TreeRecord
<1>10. u.scale = t.scale /\ u.nodes = t.nodes \cup below
       /\ u.details = [t.details EXCEPT ![n] = tree.details[n]]
  BY <1>9
<1>11. u \in TreeRecord
  <2>1. PICK e \in Int : e = tree.details[n] BY DEF SoundTree
  <2>2. [t.details EXCEPT ![n] = e] \in [TreeNode -> Int] BY <1>8
  <2>3. t.nodes \cup below \in SUBSET TreeNode BY <1>6, <1>8 DEF Followed
  <2>4. t.scale \in Int BY <1>8 DEF TreeRecord
  <2> QED BY <1>9, <2>1, <2>2, <2>3, <2>4 DEF TreeRecord
<1>12. Pending(tree, NextStack(tree, s)) = Pending(tree, s) \ {n} BY <1>2, StackStep
<1>13. u.details[n] = tree.details[n] /\ \A m \in TreeNode \ {n} : u.details[m] = t.details[m]
  BY <1>8, <1>10
<1>14. n \in t.nodes BY <1>2, <1>3 DEF TreeRead
<1>15. ASSUME NEW m \in Followed(tree) \ Pending(tree, NextStack(tree, s))
       PROVE  m \in u.nodes /\ u.details[m] = tree.details[m]
  <2>1. CASE m = n BY <1>10, <1>13, <1>14, <2>1
  <2>2. CASE m # n
    <3>1. m \in Followed(tree) \ Pending(tree, s) BY <1>12, <1>15, <2>2
    <3>2. m \in t.nodes /\ t.details[m] = tree.details[m] BY <3>1 DEF TreeRead
    <3>3. m \in TreeNode BY <3>1 DEF Followed
    <3> QED BY <1>10, <1>13, <2>2, <3>2, <3>3
  <2> QED BY <2>1, <2>2
<1>16. ASSUME NEW m \in TreeNode \ Followed(tree) PROVE u.details[m] = old.details[m]
  BY <1>2, <1>13 DEF TreeRead
<1>17. ASSUME NEW i \in 1..Len(NextStack(tree, s)) PROVE NextStack(tree, s)[i] \in u.nodes
  <2>1. PICK p : p = NextStack(tree, s) /\ p = Popped(s, children) BY <1>1 DEF NextStack
  <2>2. \/ i \in 1..(Len(s) - 1) /\ p[i] = s[i]
        \/ \E j \in children : p[i] = 2 * n + j
    <3>1. /\ \A k \in 1..(Len(s) - 1) : p[k] = s[k]
          /\ \A k \in 1..Len(p) : k \in 1..(Len(s) - 1) \/ \E j \in children : p[k] = 2 * n + j
      BY <1>2, <1>3, <2>1, PoppedIs, SMTT(30)
    <3> QED BY <1>17, <2>1, <3>1
  <2>3. ASSUME i \in 1..(Len(s) - 1) PROVE i \in 1..Len(s)
    <3>1. s \in Seq(TreeNode) BY DEF WorkStack
    <3> QED BY <2>3, <3>1
  <2>4. \A k \in 1..Len(s) : s[k] \in t.nodes BY DEF TreeRead
  <2> QED BY <1>5, <1>10, <2>1, <2>2, <2>3, <2>4
<1>18. TreeRead(tree, old, NextStack(tree, s), u)
  <2>1. t.scale = old.scale /\ old.nodes \subseteq t.nodes /\ t.nodes \subseteq old.nodes \cup Followed(tree)
    BY DEF TreeRead
  <2>2. old.nodes \subseteq u.nodes /\ u.nodes \subseteq old.nodes \cup Followed(tree) BY <1>6, <1>10, <2>1
  <2> QED BY <1>10, <1>11, <1>15, <1>16, <1>17, <2>1, <2>2 DEF TreeRead
<1>19. ReadNode([stack |-> s, tree |-> t], Item(tree, s)) = [stack |-> NextStack(tree, s), tree |-> u]
  <2>1. PICK item : item = Item(tree, s) OBVIOUS
  <2>a. item = [detail |-> tree.details[n], children |-> children] BY <1>1, <1>2, <2>1 DEF Item
  <2>b. item.detail = tree.details[n] /\ item.children = children BY <2>a
  <2>2. PICK p : p = NextStack(tree, s) /\ p = Front(s) \o Pushed(n, children)
    BY <1>1, <1>2 DEF NextStack, Popped
  <2>3. PICK x : x = [stack |-> s, tree |-> t] OBVIOUS
  <2>c. x.stack = s /\ x.tree = t BY <2>3
  <2>4. ReadNode(x, item)
          = [stack |-> Front(s) \o Pushed(n, children),
             tree |-> [t EXCEPT !.details[n] = tree.details[n], !.nodes = @ \cup {2 * n + i : i \in children}]]
    BY <1>2, <2>b, <2>c, Zenon DEF ReadNode
  <2> QED BY <1>5, <1>7, <2>1, <2>2, <2>3, <2>4
<1> QED BY <1>18, <1>19

ReaderLoop(old, in, f, n) ==
  f = [k \in 0..n |-> IF k = 0 THEN [stack |-> <<1>>, tree |-> old] ELSE ReadNode(f[k - 1], in[k])]

LEMMA ReaderLoops ==
  ASSUME NEW old, NEW in, NEW n \in Nat
  PROVE  \E f : ReaderLoop(old, in, f, n)
<1> DEFINE T == {m \in Nat : \E f : ReaderLoop(old, in, f, m)}
           start == [stack |-> <<1>>, tree |-> old]
<1>1. 0 \in T
  <2>1. PICK f : f = [k \in 0..0 |-> start] OBVIOUS
  <2>2. \A k \in 0..0 : k = 0 OBVIOUS
  <2>3. ReaderLoop(old, in, f, 0) BY <2>1, <2>2, Zenon DEF ReaderLoop
  <2> QED BY <2>3
<1>2. ASSUME NEW m \in Nat, m \in T PROVE m + 1 \in T
  <2>1. PICK f : ReaderLoop(old, in, f, m) BY <1>2
  <2>2. PICK g : g = [k \in 0..(m + 1) |-> IF k = m + 1 THEN ReadNode(f[m], in[k]) ELSE f[k]] OBVIOUS
  <2> HIDE DEF start
  <2>3. ASSUME NEW k \in 0..(m + 1)
        PROVE  g[k] = IF k = 0 THEN start ELSE ReadNode(g[k - 1], in[k])
    <3>1. CASE k = m + 1
      <4>1. m \in 0..(m + 1) /\ m # m + 1 /\ k # 0 /\ k - 1 = m BY <3>1
      <4> QED BY <2>2, <3>1, <4>1
    <3>2. CASE k # m + 1
      <4>1. k \in 0..m BY <3>2
      <4>2. f[k] = IF k = 0 THEN start ELSE ReadNode(f[k - 1], in[k])
        BY <2>1, <4>1, Zenon DEF ReaderLoop, start
      <4>3. CASE k = 0 BY <2>2, <3>2, <4>2, <4>3
      <4>4. CASE k # 0
        <5>1. k - 1 \in 0..(m + 1) /\ k - 1 # m + 1 BY <4>1, <4>4
        <5> QED BY <2>2, <3>2, <4>2, <4>4, <5>1
      <4> QED BY <4>3, <4>4
    <3> QED BY <3>1, <3>2
  <2>4. ReaderLoop(old, in, g, m + 1) BY <2>2, <2>3, Zenon DEF ReaderLoop, start
  <2> QED BY <2>4
<1> HIDE DEF T
<1>3. n \in T BY <1>1, <1>2, NatInductionSet
<1> QED BY <1>3 DEF T

\* What the tree becomes that another one is read into.
Merged(tree, old, t) ==
  /\ t \in TreeRecord /\ t.scale = old.scale
  /\ t.nodes = old.nodes \cup Followed(tree)
  /\ \A n \in Followed(tree) : t.details[n] = tree.details[n]
  /\ \A n \in TreeNode \ Followed(tree) : t.details[n] = old.details[n]

LEMMA ReadFirst ==
  ASSUME NEW tree, SoundTree(tree), NEW old \in TreeRecord, 1 \in old.nodes
  PROVE  TreeRead(tree, old, <<1>>, old)
<1>1. Pending(tree, <<1>>) = Followed(tree) BY FirstStack
<1>2. \A i \in 1..Len(<<1>>) : <<1>>[i] = 1 OBVIOUS
<1> QED BY <1>1, <1>2 DEF TreeRead

LEMMA ReadLast ==
  ASSUME NEW tree, SoundTree(tree), NEW old, NEW t, TreeRead(tree, old, <<>>, t)
  PROVE  Merged(tree, old, t)
<1>1. Pending(tree, <<>>) = {} BY FirstStack
<1> QED BY <1>1 DEF TreeRead, Merged

LEMMA NodesReadIs ==
  ASSUME NEW tree, SoundTree(tree), NEW old \in TreeRecord, 1 \in old.nodes
  PROVE  Merged(tree, old, NodesRead(old, NodesWritten(tree)))
<1>1. PICK K, st : Script(tree, K, st) BY ScriptExists
<1>2. PICK in : in = NodesWritten(tree) OBVIOUS
<1>3. /\ K \in Nat /\ st[0] = <<1>> /\ st[K] = <<>> /\ Len(in) = K
      /\ \A k \in 0..K : WorkStack(tree, st[k])
      /\ \A k \in 0..(K - 1) : st[k] # <<>> /\ st[k + 1] = NextStack(tree, st[k]) /\ in[k + 1] = Item(tree, st[k])
  BY <1>1, <1>2 DEF Script
<1>4. PICK f : ReaderLoop(old, in, f, K) /\ NodesRead(old, in) = f[K].tree
  <2>1. \E f : ReaderLoop(old, in, f, Len(in)) BY <1>3, ReaderLoops
  <2>2. PICK f : f = CHOOSE g : ReaderLoop(old, in, g, Len(in)) OBVIOUS
  <2>3. NodesRead(old, in) = f[Len(in)].tree BY <2>2, Zenon DEF NodesRead, ReaderLoop
  <2>4. ReaderLoop(old, in, f, Len(in)) BY <2>1, <2>2, Zenon
  <2> QED BY <1>3, <2>3, <2>4
<1>5. \A k \in 0..K : f[k] = IF k = 0 THEN [stack |-> <<1>>, tree |-> old] ELSE ReadNode(f[k - 1], in[k])
  BY <1>4, Zenon DEF ReaderLoop
<1> DEFINE Got(j) == \E t : f[j] = [stack |-> st[j], tree |-> t] /\ TreeRead(tree, old, st[j], t)
           T == {j \in Nat : j <= K => Got(j)}
<1>6. 0 \in T
  <2>1. 0 \in 0..K BY <1>3
  <2>2. f[0] = [stack |-> st[0], tree |-> old] BY <1>3, <1>5, <2>1
  <2>3. TreeRead(tree, old, st[0], old) BY <1>3, ReadFirst
  <2> QED BY <2>2, <2>3
<1>7. ASSUME NEW j \in Nat, j \in T PROVE j + 1 \in T
  <2> SUFFICES ASSUME j + 1 <= K PROVE Got(j + 1)
    <3> HIDE DEF Got
    <3> QED OBVIOUS
  <2>1. j <= K /\ j \in 0..K /\ j \in 0..(K - 1) /\ j + 1 \in 0..K /\ j + 1 # 0 /\ (j + 1) - 1 = j
    BY <1>3
  <2>2. PICK t : f[j] = [stack |-> st[j], tree |-> t] /\ TreeRead(tree, old, st[j], t) BY <1>7, <2>1
  <2>3. f[j + 1] = ReadNode([stack |-> st[j], tree |-> t], Item(tree, st[j]))
    BY <1>3, <1>5, <2>1, <2>2
  <2>4. WorkStack(tree, st[j]) /\ st[j] # <<>> /\ st[j + 1] = NextStack(tree, st[j]) BY <1>3, <2>1
  <2>5. PICK u : /\ ReadNode([stack |-> st[j], tree |-> t], Item(tree, st[j]))
                     = [stack |-> NextStack(tree, st[j]), tree |-> u]
                 /\ TreeRead(tree, old, NextStack(tree, st[j]), u)
    BY <2>2, <2>4, ReadNodeIs
  <2> QED BY <2>3, <2>4, <2>5
<1> HIDE DEF T
<1>8. K \in T /\ K <= K BY <1>3, <1>6, <1>7, NatInductionSet
<1>9. PICK t : f[K] = [stack |-> st[K], tree |-> t] /\ TreeRead(tree, old, st[K], t) BY <1>8 DEF T
<1>10. Merged(tree, old, t) BY <1>3, <1>9, ReadLast
<1>11. f[K].tree = t BY <1>9
<1> QED BY <1>2, <1>4, <1>10, <1>11

LEMMA MergedIsSound ==
  ASSUME NEW tree, SoundTree(tree), NEW old, SoundTree(old), NEW t, Merged(tree, old, t)
  PROVE  SoundTree(t)
<1>1. /\ t.scale \in Int /\ t.details \in [TreeNode -> Int] /\ t.nodes \in SUBSET TreeNode
      /\ t.nodes = old.nodes \cup Followed(tree)
      /\ \A n \in TreeNode \ Followed(tree) : t.details[n] = old.details[n]
  BY DEF Merged, TreeRecord
<1>2. 1 \in t.nodes BY <1>1 DEF SoundTree
<1>3. ASSUME NEW c \in TreeCell, NEW h \in 0..H, At(c, h) \notin t.nodes, NEW g \in 1..h
      PROVE  t.details[At(c, g)] = 0
  <2>1. g \in 0..H /\ h \in g..H /\ g # 0 BY Powers
  <2>2. old.details[At(c, g)] = 0 BY <1>1, <1>3 DEF SoundTree
  <2>3. At(c, h) \in UpFrom(At(c, g)) BY <2>1, UpFromIs
  <2>4. At(c, g) \notin Followed(tree)
    <3>1. ASSUME At(c, g) \in Followed(tree) PROVE FALSE
      <4>1. UpFrom(At(c, g)) \subseteq Followed(tree) BY <3>1, FollowedAre
      <4> QED BY <1>1, <1>3, <2>3, <4>1
    <3> QED BY <3>1
  <2>5. At(c, g) \in TreeNode BY <2>1, AtIs, HeightsAre
  <2> QED BY <1>1, <2>2, <2>4, <2>5
<1> QED BY <1>1, <1>2, <1>3 DEF SoundTree

\* How far down a cell's ancestors are written.
LEMMA LowestFollowed ==
  ASSUME NEW tree, SoundTree(tree), NEW c \in TreeCell
  PROVE  \E h \in 1..H : /\ \A g \in h..H : At(c, g) \in Followed(tree)
                         /\ At(c, h - 1) \notin Followed(tree)
<1>0. H \in Nat \ {0} BY Powers
<1> DEFINE T == {e \in Nat : e <= H => At(c, H - e) \in Followed(tree)}
<1>1. SUFFICES ASSUME \A h \in 1..H : (\A g \in h..H : At(c, g) \in Followed(tree)) => At(c, h - 1) \in Followed(tree)
               PROVE  FALSE
  OBVIOUS
<1>2. 0 \in T
  <2>1. H - 0 = H BY <1>0
  <2>2. At(c, H) = 1 BY AtTop
  <2>3. 1 \in Followed(tree) BY FollowedAre
  <2> QED BY <2>1, <2>2, <2>3
<1>3. ASSUME NEW e \in Nat, e \in T PROVE e + 1 \in T
  <2> SUFFICES ASSUME e + 1 <= H PROVE At(c, H - (e + 1)) \in Followed(tree) OBVIOUS
  <2>1. PICK h \in 1..H : h = H - e /\ h - 1 = H - (e + 1) /\ h \in 0..H BY <1>0
  <2>2. At(c, h) \in Followed(tree) BY <1>0, <1>3, <2>1
  <2>3. UpFrom(At(c, h)) \subseteq Followed(tree) BY <2>2, FollowedAre
  <2>4. \A g \in h..H : At(c, g) \in Followed(tree) BY <2>1, <2>3, UpFromIs
  <2> QED BY <1>1, <2>1, <2>4
<1> HIDE DEF T
<1>4. H \in T BY <1>0, <1>2, <1>3, NatInductionSet
<1>5. At(c, H - H) \in Followed(tree) /\ H - H = 0 BY <1>0, <1>4 DEF T
<1>6. At(c, 0) \notin TreeNode
  <2>1. At(c, 0) \in TreeIndex /\ HeightOf(At(c, 0)) = 0 BY <1>0, AtIs
  <2> QED BY <2>1, HeightsAre
<1> QED BY <1>5, <1>6 DEF Followed

\* On the way down from the top the values are those of the written tree.
LEMMA SameScales ==
  ASSUME NEW tree, SoundTree(tree), NEW t, SoundTree(t), t.scale = tree.scale,
         \A n \in Followed(tree) : t.details[n] = tree.details[n],
         NEW c \in TreeCell, NEW h \in 1..H, \A g \in h..H : At(c, g) \in Followed(tree)
  PROVE  Scales(t)[At(c, h - 1)] = Scales(tree)[At(c, h - 1)]
<1>0. H \in Nat BY Powers
<1> DEFINE Same(g) == Scales(t)[At(c, g)] = Scales(tree)[At(c, g)]
           T == {e \in Nat : e <= H - h + 1 => Same(H - e)}
<1>1. 0 \in T
  <2>1. H - 0 = H BY <1>0
  <2>2. At(c, H) = 1 BY AtTop
  <2>3. Scales(t)[1] = t.scale /\ Scales(tree)[1] = tree.scale BY ScalesAre DEF SoundTree
  <2> QED BY <2>1, <2>2, <2>3
<1>2. ASSUME NEW e \in Nat, e \in T PROVE e + 1 \in T
  <2> HIDE DEF Same
  <2> SUFFICES ASSUME e + 1 <= H - h + 1 PROVE Same(H - (e + 1)) OBVIOUS
  <2> USE DEF Same
  <2>1. PICK g \in 1..H : g = H - e /\ g - 1 = H - (e + 1) /\ g \in h..H BY <1>0
  <2>2. Scales(t)[At(c, g)] = Scales(tree)[At(c, g)] BY <1>0, <1>2, <2>1
  <2>3. Half(t, At(c, g)) = Half(tree, At(c, g)) BY <2>1 DEF Half
  <2>4. Scales(t)[At(c, g - 1)] = Scales(tree)[At(c, g - 1)] BY <2>2, <2>3, ScaleBelow
  <2> QED BY <2>1, <2>4
<1> HIDE DEF T
<1>3. Nat \subseteq T BY <1>1, <1>2, NatInductionSet
<1>4. (H - h + 1) \in T /\ H - (H - h + 1) = h - 1 /\ H - h + 1 <= H - h + 1 BY <1>0, <1>3
<1> QED BY <1>4 DEF T

LEMMA CutErrorIs == CutError \in Nat
<1>1. H - 1 \in 0..(H + 1) /\ CutNoise \in Nat BY Powers, MessageAssumption
<1>2. PICK e \in Nat : e = Exp2(H - 1) BY <1>1, Powers
<1>3. e * CutNoise \in Nat BY <1>1
<1> QED BY <1>2, <1>3 DEF CutError, H

\* What a tree is read into: the wavelet octree's is the one that is there.
ReadInto(tree, old) ==
  /\ SoundTree(old) /\ old \in TreeRecord /\ old.scale = tree.scale
  /\ kind # "wavelet_octree" => old.nodes = {1}

LEMMA MergedIsSame ==
  ASSUME NEW tree, SoundTree(tree), kind = "hashed_wavelet_octree" => InLimits(tree),
         NEW old, ReadInto(tree, old), NEW t, Merged(tree, old, t)
  PROVE  SoundTree(t) /\ SameCells(t, tree)
<1>0. H \in Nat /\ CutError \in Nat BY Powers, CutErrorIs
<1>1. SoundTree(t) BY MergedIsSound DEF ReadInto
<1>2. /\ t.scale = tree.scale /\ t.nodes = old.nodes \cup Followed(tree)
      /\ \A n \in Followed(tree) : t.details[n] = tree.details[n]
  BY DEF Merged, ReadInto
<1>3. /\ Scales(t) \in [TreeIndex -> Int] /\ Scales(tree) \in [TreeIndex -> Int]
  BY <1>1, ScalesAre DEF SoundTree
<1>4. ASSUME NEW c \in TreeCell
      PROVE  \/ CellsOf(t)[c] - CellsOf(tree)[c] \in -CutError..CutError
             \/ kind = "wavelet_octree" /\ UpFrom(c) \cap (t.nodes \ tree.nodes) # {}
  <2>1. CellsOf(t)[c] = Scales(t)[c] /\ CellsOf(tree)[c] = Scales(tree)[c] /\ c \in TreeIndex
    BY DEF CellsOf, TreeIndex
  <2>2. PICK h \in 1..H : /\ \A g \in h..H : At(c, g) \in Followed(tree)
                          /\ At(c, h - 1) \notin Followed(tree)
    BY LowestFollowed
  <2>3. PICK v \in Int : v = Scales(t)[At(c, h - 1)] /\ v = Scales(tree)[At(c, h - 1)]
    <3>1. Scales(t)[At(c, h - 1)] = Scales(tree)[At(c, h - 1)] BY <1>1, <1>2, <2>2, SameScales
    <3>2. h - 1 \in 0..H BY <1>0
    <3>3. At(c, h - 1) \in TreeIndex BY <3>2, AtIs
    <3> QED BY <1>3, <3>1, <3>3
  <2>4. At(c, 0) = c /\ UpFrom(c) = {At(c, g) : g \in 0..H}
    <3>1. c \in TreeIndex /\ HeightOf(c) = 0 /\ c \in Nat BY HeightsAre, IndicesAre DEF TreeIndex
    <3>2. c \div 1 = c BY <3>1
    <3>3. At(c, 0) = c BY <3>2, Powers DEF At
    <3> QED BY <1>0, <3>3, UpFromIs
  <2>5. v - v = 0 /\ 0 \in -CutError..CutError BY <1>0
  <2>6. CASE h = 1
    <3>1. h - 1 = 0 BY <2>6
    <3> QED BY <2>1, <2>3, <2>4, <2>5, <3>1
  <2>7. CASE h # 1
    <3>1. h - 1 \in 1..(H - 1) /\ h - 1 \in 0..H /\ h - 1 # 0 /\ h \in 0..H /\ h \in h..H /\ 0 \in 0..(h - 1)
      BY <1>0, <2>7
    <3>2. PICK m \in TreeNode : m = At(c, h - 1) BY <3>1, AtIs, HeightsAre
    <3>3. m # 1
      <4>1. HeightOf(m) = h - 1 /\ HeightOf(1) = H BY <3>1, <3>2, AtIs, TopIs
      <4> QED BY <1>0, <3>1, <4>1
    <3>4. m \notin tree.nodes \/ Skipped(tree, m)
      <4>1. At(c, h) \in Followed(tree) BY <2>2, <3>1
      <4>2. PICK n \in TreeNode, i \in {0, 1} : n = At(c, h) /\ m = 2 * n + i
        BY <3>2, <4>1, StepDown DEF Followed
      <4>3. i \notin Followers(tree, Scales(tree), n) BY <2>2, <3>2, <4>1, <4>2, FollowedAre
      <4> QED BY <4>2, <4>3 DEF Followers, Skipped
    <3>5. m \in UpFrom(c) BY <2>4, <3>1, <3>2
    <3>6. CASE m \notin t.nodes
      <4>a. At(c, h - 1) \notin t.nodes BY <3>2, <3>6
      <4>b. Scales(t)[At(c, 0)] = Scales(t)[At(c, h - 1)] BY <1>1, <3>1, <4>a, ScalesBelowMissing
      <4>1. Scales(t)[c] = v BY <2>3, <2>4, <4>b
      <4>2. CASE m \notin tree.nodes
        <5>a. At(c, h - 1) \notin tree.nodes BY <3>2, <4>2
        <5>b. Scales(tree)[At(c, 0)] = Scales(tree)[At(c, h - 1)] BY <3>1, <5>a, ScalesBelowMissing
        <5>1. Scales(tree)[c] = v BY <2>3, <2>4, <5>b
        <5> QED BY <2>1, <2>5, <4>1, <5>1
      <4>3. CASE Skipped(tree, m)
        <5>1. InLimits(tree) /\ Saturated(Scales(tree)[m]) BY <4>3 DEF Skipped
        <5>2. Scales(tree)[At(c, h - 1)] - Scales(tree)[c] \in -CutError..CutError
          BY <3>1, <3>2, <5>1, CutIsSmall
        <5> QED BY <2>1, <2>3, <4>1, <5>2
      <4> QED BY <3>4, <4>2, <4>3
    <3>7. CASE m \in t.nodes
      <4>1. m \in old.nodes BY <1>2, <2>2, <3>2, <3>7
      <4>2. kind = "wavelet_octree" BY <3>3, <4>1 DEF ReadInto
      <4>3. m \notin tree.nodes BY <3>4, <4>2 DEF Skipped
      <4> QED BY <3>5, <3>7, <4>2, <4>3
    <3> QED BY <3>6, <3>7
  <2> QED BY <2>6, <2>7
<1> QED BY <1>1, <1>4 DEF SameCells

-----------------------------------------------------------------------------
(* A block that is read back *)

\* What is written: the hashed octree is limited before.
Writable(tree) == GoodTree(tree) /\ (kind = "hashed_wavelet_octree" => InLimits(tree))

\* What a block may be read into.
Readable(tree) == kind = "wavelet_octree" => SoundTree(tree) /\ tree \in TreeRecord

LEMMA EmptyIsReadable == Readable(EmptyTree) /\ SoundTree(EmptyTree) /\ EmptyTree \in TreeRecord
<1>1. SoundTree(EmptyTree) BY EmptyIsGood DEF GoodTree
<1>2. EmptyTree \in TreeRecord BY <1>1 DEF SoundTree, EmptyTree, TreeRecord
<1> QED BY <1>1, <1>2 DEF Readable

LEMMA RescaledIs ==
  ASSUME NEW old, SoundTree(old), old \in TreeRecord, NEW s \in Int
  PROVE  LET new == [old EXCEPT !.scale = s]
         IN  SoundTree(new) /\ new \in TreeRecord /\ new.scale = s /\ new.nodes = old.nodes
<1>1. PICK new : new = [old EXCEPT !.scale = s] OBVIOUS
<1>2. new = [scale |-> s, details |-> old.details, nodes |-> old.nodes] BY <1>1 DEF TreeRecord
<1>3. new.scale = s /\ new.details = old.details /\ new.nodes = old.nodes BY <1>2
<1>4. new \in TreeRecord BY <1>2 DEF TreeRecord
<1>5. SoundTree(new) BY <1>3 DEF SoundTree
<1> QED BY <1>1, <1>3, <1>4, <1>5

LEMMA BlockReadIs ==
  ASSUME kind \in Kind, NEW tree, Writable(tree), NEW old, Readable(old)
  PROVE  LET t == BlockRead(old, BlockWritten(tree)) IN SameCells(t, tree) /\ Readable(t)
<1>1. PICK t : t = BlockRead(old, BlockWritten(tree)) OBVIOUS
<1>2. CASE kind = "hashed_blocks"
  <2>1. PICK content \in ExactCells : content = CellsOf(tree) BY DEF Writable, GoodTree
  <2>2. t = TreeOf(content, TreeNode) BY <1>1, <1>2, <2>1 DEF BlockRead, BlockWritten
  <2>3. CellsOf(t) = content BY <2>2, ScalesAreAverages
  <2>4. ASSUME NEW c \in TreeCell PROVE CellsOf(t)[c] - CellsOf(tree)[c] \in -CutError..CutError
    <3>1. PICK v \in Int : v = content[c] BY DEF ExactCells
    <3>2. v - v \in -CutError..CutError BY CutErrorIs
    <3> QED BY <2>1, <2>3, <3>1, <3>2
  <2>5. SameCells(t, tree) BY <2>4 DEF SameCells
  <2>6. Readable(t) BY <1>2 DEF Readable
  <2> QED BY <1>1, <2>5, <2>6
<1>3. CASE kind # "hashed_blocks"
  <2>1. SoundTree(tree) /\ tree.scale \in Int BY DEF Writable, GoodTree, SoundTree
  <2>2. PICK base : base = IF kind = "wavelet_octree" THEN old ELSE EmptyTree OBVIOUS
  <2>3. SoundTree(base) /\ base \in TreeRecord /\ (kind # "wavelet_octree" => base.nodes = {1})
    BY <2>2, EmptyIsReadable, EmptyIsGood DEF Readable
  <2>4. PICK new : new = [base EXCEPT !.scale = tree.scale] OBVIOUS
  <2>5. /\ SoundTree(new) /\ new \in TreeRecord /\ new.scale = tree.scale
        /\ new.nodes = base.nodes /\ 1 \in new.nodes
    BY <2>1, <2>3, <2>4, RescaledIs DEF SoundTree
  <2>6. t = NodesRead(new, NodesWritten(tree))
    <3>1. PICK block : block = BlockWritten(tree) OBVIOUS
    <3>2. block = [scale |-> tree.scale, nodes |-> NodesWritten(tree)] BY <1>3, <3>1 DEF BlockWritten
    <3>3. block.scale = tree.scale /\ block.nodes = NodesWritten(tree) BY <3>2
    <3>4. t = NodesRead([base EXCEPT !.scale = block.scale], block.nodes)
      BY <1>1, <1>3, <2>2, <3>1, Zenon DEF BlockRead
    <3> QED BY <2>4, <3>3, <3>4
  <2>7. Merged(tree, new, t) BY <2>1, <2>5, <2>6, NodesReadIs
  <2>8. ReadInto(tree, new) BY <2>3, <2>5 DEF ReadInto
  <2>9. SoundTree(t) /\ SameCells(t, tree) BY <2>1, <2>7, <2>8, MergedIsSame DEF Writable
  <2>10. t \in TreeRecord BY <2>7 DEF Merged
  <2> QED BY <1>1, <2>9, <2>10 DEF Readable
<1> QED BY <1>2, <1>3

-----------------------------------------------------------------------------
(* The inductive invariant *)

\* A message has its trees as they are written; the tree of a wavelet octree
\* is always among them.
Carries(m) ==
  /\ DOMAIN m.blocks = DOMAIN m.trees
  /\ kind = "wavelet_octree" => OnlyTree \in DOMAIN m.trees
  /\ \A b \in DOMAIN m.trees : m.blocks[b] = BlockWritten(m.trees[b]) /\ Writable(m.trees[b])

\* What the subscriber has.
Copied(has, trees) ==
  /\ DOMAIN has.blocks = DOMAIN trees
  /\ \A b \in DOMAIN trees : SameCells(has.blocks[b], trees[b]) /\ Readable(has.blocks[b])

MapIsGood ==
  /\ IsFiniteSet(DOMAIN blocks)
  /\ kind = "wavelet_octree" => DOMAIN blocks = {OnlyTree}
  /\ \A b \in DOMAIN blocks : GoodTree(blocks[b])

InFlight(q) == (\E S : q \in Seq(S)) /\ \A i \in 1..Len(q) : Carries(q[i])

MessagesInv == kind \in Kind /\ MapIsGood /\ InFlight(in_flight) /\ Copied(copy, expected)

LEMMA KindStays ==
  ASSUME kind' = kind
  PROVE  /\ \A m : Carries(m)' <=> Carries(m)
         /\ \A has, trees : Copied(has, trees)' <=> Copied(has, trees)
<1>1. \A tree : BlockWritten(tree)' = BlockWritten(tree)
  BY DEF BlockWritten, NodesWritten, WriteNode, Followers
<1>2. \A tree : Writable(tree)' <=> Writable(tree) BY DEF Writable
<1>3. \A tree : Readable(tree)' <=> Readable(tree) BY DEF Readable
<1>4. \A t, tree : SameCells(t, tree)' <=> SameCells(t, tree) BY DEF SameCells
<1> QED BY <1>1, <1>2, <1>3, <1>4 DEF Carries, Copied

LEMMA MessagesInvInit == MessagesInit => MessagesInv
<1> SUFFICES ASSUME MessagesInit PROVE MessagesInv OBVIOUS
<1>1. kind \in Kind /\ in_flight = <<>> /\ blocks = NewMap(kind) /\ copy = NoMap /\ expected = <<>>
  BY DEF MessagesInit
<1>2. MapIsGood
  <2>1. DOMAIN blocks = {} \/ DOMAIN blocks = {OnlyTree} BY <1>1 DEF NewMap
  <2>2. IsFiniteSet(DOMAIN blocks) BY <2>1, FS_EmptySet, FS_Singleton
  <2> QED BY <1>1, <2>2, EmptyIsGood DEF NewMap, MapIsGood
<1>3. InFlight(in_flight)
  <2>1. <<>> \in Seq({}) /\ Len(<<>>) = 0 OBVIOUS
  <2>2. 1..0 = {} OBVIOUS
  <2> QED BY <1>1, <2>1, <2>2 DEF InFlight
<1>4. Copied(copy, expected)
  <2>1. copy.blocks = <<>> BY <1>1 DEF NoMap
  <2>2. DOMAIN <<>> = {} OBVIOUS
  <2> QED BY <1>1, <2>1, <2>2 DEF Copied
<1> QED BY <1>1, <1>2, <1>3, <1>4 DEF MessagesInv

LEMMA SendIs ==
  ASSUME kind \in Kind, InFlight(in_flight), NEW of, NEW include,
         kind = "wavelet_octree" => OnlyTree \in include \cap DOMAIN of,
         \A b \in DOMAIN of : Writable(of[b]),
         Send(of, include)
  PROVE  InFlight(in_flight)'
<1>1. kind' = kind /\ in_flight' = Append(in_flight, Message(of, include)) BY DEF Send
<1>2. PICK m : m = Message(of, include) OBVIOUS
<1>3. /\ m.blocks = [b \in include \cap DOMAIN of |-> BlockWritten(of[b])]
      /\ m.trees = [b \in include \cap DOMAIN of |-> of[b]]
  BY <1>2 DEF Message
<1>4. Carries(m) BY <1>3 DEF Carries
<1>5. PICK S : in_flight \in Seq(S) BY DEF InFlight
<1>6. PICK q : q = in_flight' OBVIOUS
<1>7. /\ q \in Seq(S \cup {m}) /\ Len(q) = Len(in_flight) + 1 /\ Len(in_flight) \in Nat
      /\ \A i \in 1..Len(in_flight) : q[i] = in_flight[i]
      /\ q[Len(in_flight) + 1] = m
  <2>1. in_flight \in Seq(S \cup {m}) /\ m \in S \cup {m} BY <1>5
  <2>2. q = Append(in_flight, m) BY <1>1, <1>2, <1>6
  <2> QED BY <2>1, <2>2, AppendProperties
<1>8. ASSUME NEW i \in 1..Len(q) PROVE Carries(q[i])
  <2>1. i \in 1..Len(in_flight) \/ i = Len(in_flight) + 1 BY <1>7
  <2> QED BY <1>4, <1>7, <2>1 DEF InFlight
<1>9. InFlight(q)' BY <1>1, <1>7, <1>8, KindStays DEF InFlight
<1> QED BY <1>6, <1>9

LEMMA TailIs ==
  ASSUME in_flight # <<>>, InFlight(in_flight), kind' = kind, in_flight' = Tail(in_flight)
  PROVE  Carries(Head(in_flight)) /\ InFlight(in_flight)'
<1>1. PICK S : in_flight \in Seq(S) BY DEF InFlight
<1>2. PICK q : q = in_flight' OBVIOUS
<1>3. PICK L \in Nat \ {0} : L = Len(in_flight) BY <1>1, EmptySeq
<1>4. q \in Seq(S) /\ Len(q) = L - 1 /\ \A i \in 1..Len(q) : q[i] = in_flight[i + 1]
  BY <1>1, <1>2, <1>3, HeadTailProperties
<1>5. ASSUME NEW i \in 1..Len(q) PROVE Carries(q[i])
  <2>1. i + 1 \in 1..Len(in_flight) BY <1>3, <1>4
  <2> QED BY <1>4, <2>1 DEF InFlight
<1>6. InFlight(q)' BY <1>4, <1>5, KindStays DEF InFlight
<1>7. Head(in_flight) = in_flight[1] /\ 1 \in 1..Len(in_flight) BY <1>1, <1>3
<1> QED BY <1>2, <1>6, <1>7 DEF InFlight

LEMMA StaysInFlight ==
  ASSUME InFlight(in_flight), kind' = kind, in_flight' = in_flight
  PROVE  InFlight(in_flight)'
<1>1. PICK q : q = in_flight OBVIOUS
<1>2. InFlight(q)' BY <1>1, KindStays DEF InFlight
<1> QED BY <1>1, <1>2

LEMMA StaysCopied ==
  ASSUME Copied(copy, expected), kind' = kind, UNCHANGED <<copy, expected>>
  PROVE  Copied(copy, expected)'
<1>1. PICK has, trees : has = copy /\ trees = expected OBVIOUS
<1>2. Copied(has, trees)' BY <1>1, KindStays
<1> QED BY <1>1, <1>2

LEMMA PublishIs ==
  ASSUME PublishWholeMap, MessagesInv
  PROVE  MapIsGood' /\ InFlight(in_flight)'
<1> DEFINE Limited(b) == IF kind = "hashed_blocks" THEN blocks[b] ELSE ThresholdedTree(blocks[b])
<1>1. PICK limited : limited = [b \in DOMAIN blocks |-> Limited(b)] OBVIOUS
<1>2. blocks' = limited /\ Send(limited, DOMAIN limited) BY <1>1, Zenon DEF PublishWholeMap
<1>3. kind' = kind BY <1>2 DEF Send
<1>4. kind \in Kind /\ MapIsGood /\ InFlight(in_flight) BY DEF MessagesInv
<1>5. ASSUME NEW b \in DOMAIN limited PROVE Writable(limited[b])
  <2>1. b \in DOMAIN blocks /\ limited[b] = Limited(b) BY <1>1
  <2>2. GoodTree(blocks[b]) BY <1>4, <2>1 DEF MapIsGood
  <2>3. CASE kind = "hashed_blocks" BY <2>1, <2>2, <2>3 DEF Writable
  <2>4. CASE kind # "hashed_blocks"
    <3>1. limited[b] = ThresholdedTree(blocks[b]) BY <2>1, <2>4
    <3> QED BY <2>2, <3>1, ThresholdedIsGood DEF Writable
  <2> QED BY <2>3, <2>4
<1>6. DOMAIN limited = DOMAIN blocks BY <1>1
<1>7. MapIsGood' BY <1>2, <1>3, <1>4, <1>5, <1>6 DEF MapIsGood, Writable
<1>8. kind = "wavelet_octree" => OnlyTree \in DOMAIN limited \cap DOMAIN limited BY <1>4, <1>6 DEF MapIsGood
<1>9. InFlight(in_flight)' BY <1>2, <1>4, <1>5, <1>8, SendIs
<1> QED BY <1>7, <1>9

LEMMA PublishBlocksIs ==
  ASSUME PublishBlocks, MessagesInv
  PROVE  InFlight(in_flight)'
<1>1. PICK include \in SUBSET Block : Send(blocks, include) BY DEF PublishBlocks
<1>2. kind = "hashed_wavelet_octree" BY DEF PublishBlocks
<1>3. ASSUME NEW b \in DOMAIN blocks PROVE Writable(blocks[b])
  <2>1. GoodTree(blocks[b]) /\ ThresholdedTree(blocks[b]) = blocks[b]
    BY DEF PublishBlocks, MessagesInv, MapIsGood
  <2> QED BY <2>1, ThresholdedIsGood DEF Writable
<1>4. kind \in Kind /\ InFlight(in_flight) BY DEF MessagesInv
<1> QED BY <1>1, <1>2, <1>3, <1>4, SendIs

LEMMA ReceiveIs ==
  ASSUME ReceiveMessage, MessagesInv
  PROVE  Copied(copy, expected)'
<1>1. PICK m : m = Head(in_flight) OBVIOUS
<1>2. kind' = kind /\ in_flight # <<>> /\ in_flight' = Tail(in_flight) BY DEF ReceiveMessage
<1>3. kind \in Kind /\ InFlight(in_flight) /\ Copied(copy, expected) BY DEF MessagesInv
<1>4. Carries(m) BY <1>1, <1>2, <1>3, TailIs
<1> DEFINE Kept(old) == IF copy.config # m.config THEN NewMap(kind)
                        ELSE [b \in DOMAIN old \cap m.allocated |-> old[b]]
<1>5. PICK kept : kept = Kept(copy.blocks) OBVIOUS
<1>6. PICK old_trees : old_trees = IF copy.config # m.config THEN <<>> ELSE Kept(expected) OBVIOUS
<1> DEFINE Old(b) == IF b \in DOMAIN kept THEN kept[b] ELSE EmptyTree
<1>7. PICK has : has = [b \in DOMAIN kept \cup DOMAIN m.blocks |->
                          IF b \in DOMAIN m.blocks THEN BlockRead(Old(b), m.blocks[b]) ELSE kept[b]]
  OBVIOUS
<1>8. PICK trees : trees = [b \in DOMAIN old_trees \cup DOMAIN m.trees |->
                              IF b \in DOMAIN m.trees THEN m.trees[b] ELSE old_trees[b]]
  OBVIOUS
<1>9. copy' = [config |-> m.config, blocks |-> has] /\ expected' = trees
  BY <1>1, <1>5, <1>6, <1>7, <1>8, Zenon DEF ReceiveMessage
<1>10. copy'.blocks = has BY <1>9
<1>11. DOMAIN m.blocks = DOMAIN m.trees BY <1>4 DEF Carries
<1>12. ASSUME NEW b \in DOMAIN kept
       PROVE  Readable(kept[b]) /\ \/ b \in DOMAIN m.trees
                                   \/ b \in DOMAIN old_trees /\ SameCells(kept[b], old_trees[b])
  <2>1. CASE copy.config # m.config
    <3>1. kept = NewMap(kind) BY <1>5, <2>1
    <3>2. kind = "wavelet_octree" /\ b = OnlyTree /\ kept[b] = EmptyTree
      BY <3>1 DEF NewMap
    <3>3. b \in DOMAIN m.trees BY <1>4, <3>2 DEF Carries
    <3> QED BY <3>2, <3>3, EmptyIsReadable
  <2>2. CASE copy.config = m.config
    <3>1. kept = [c \in DOMAIN copy.blocks \cap m.allocated |-> copy.blocks[c]] BY <1>5, <2>2
    <3>2. old_trees = [c \in DOMAIN expected \cap m.allocated |-> expected[c]] BY <1>6, <2>2
    <3>3. b \in DOMAIN copy.blocks \cap m.allocated /\ kept[b] = copy.blocks[b] BY <3>1
    <3>4. b \in DOMAIN expected BY <1>3, <3>3 DEF Copied
    <3>5. SameCells(copy.blocks[b], expected[b]) /\ Readable(copy.blocks[b]) BY <1>3, <3>4 DEF Copied
    <3>6. b \in DOMAIN old_trees /\ old_trees[b] = expected[b] BY <3>2, <3>3, <3>4
    <3> QED BY <3>3, <3>5, <3>6
  <2> QED BY <2>1, <2>2
<1>13. ASSUME NEW b \in DOMAIN old_trees PROVE b \in DOMAIN kept
  <2>1. CASE copy.config # m.config
    <3>1. DOMAIN <<>> = {} OBVIOUS
    <3> QED BY <1>6, <2>1, <3>1
  <2>2. CASE copy.config = m.config
    <3>1. kept = [c \in DOMAIN copy.blocks \cap m.allocated |-> copy.blocks[c]] BY <1>5, <2>2
    <3>2. old_trees = [c \in DOMAIN expected \cap m.allocated |-> expected[c]] BY <1>6, <2>2
    <3>3. DOMAIN copy.blocks = DOMAIN expected BY <1>3 DEF Copied
    <3> QED BY <3>1, <3>2, <3>3
  <2> QED BY <2>1, <2>2
<1>14. DOMAIN has = DOMAIN trees BY <1>7, <1>8, <1>11, <1>12, <1>13
<1>15. ASSUME NEW b \in DOMAIN trees PROVE SameCells(has[b], trees[b]) /\ Readable(has[b])
  <2>1. b \in DOMAIN has BY <1>14
  <2>2. CASE b \in DOMAIN m.trees
    <3>1. trees[b] = m.trees[b] BY <1>8, <2>2
    <3>2. has[b] = BlockRead(Old(b), m.blocks[b]) BY <1>7, <1>11, <2>1, <2>2
    <3>3. m.blocks[b] = BlockWritten(m.trees[b]) /\ Writable(m.trees[b]) BY <1>4, <2>2 DEF Carries
    <3>4. Readable(Old(b)) BY <1>12, EmptyIsReadable
    <3>5. PICK old : old = Old(b) /\ Readable(old) BY <3>4
    <3>6. has[b] = BlockRead(old, BlockWritten(m.trees[b])) BY <3>2, <3>3, <3>5
    <3> QED BY <1>3, <3>1, <3>3, <3>5, <3>6, BlockReadIs
  <2>3. CASE b \notin DOMAIN m.trees
    <3>1. b \in DOMAIN old_trees /\ trees[b] = old_trees[b] BY <1>8, <2>3
    <3>2. b \in DOMAIN kept /\ has[b] = kept[b] BY <1>7, <1>11, <1>13, <2>1, <2>3, <3>1
    <3> QED BY <1>12, <2>3, <3>1, <3>2
  <2> QED BY <2>2, <2>3
<1>16. Copied(copy', trees) BY <1>10, <1>14, <1>15 DEF Copied
<1>17. PICK new : new = copy' OBVIOUS
<1>18. Copied(new, trees)' BY <1>2, <1>16, <1>17, KindStays
<1> QED BY <1>9, <1>17, <1>18

LEMMA MessagesInvStep == MessagesInv /\ [MessagesNext]_messageVars => MessagesInv'
<1> SUFFICES ASSUME MessagesInv, [MessagesNext]_messageVars PROVE MessagesInv' OBVIOUS
<1>1. kind \in Kind /\ MapIsGood /\ InFlight(in_flight) /\ Copied(copy, expected) BY DEF MessagesInv
<1>2. CASE ChangeBlock
  <2>1. kind' = kind /\ in_flight' = in_flight /\ UNCHANGED <<copy, expected>> BY <1>2 DEF ChangeBlock
  <2>2. PICK b \in BlocksOf(kind), tree \in Trees :
          blocks' = [c \in DOMAIN blocks \cup {b} |-> IF c = b THEN tree ELSE blocks[c]]
    BY <1>2 DEF ChangeBlock
  <2>3. IsFiniteSet(DOMAIN blocks \cup {b}) BY <1>1, FS_AddElement DEF MapIsGood
  <2>4. MapIsGood' BY <1>1, <2>1, <2>2, <2>3, TreesAreGood DEF MapIsGood, BlocksOf
  <2> QED BY <1>1, <2>1, <2>4, StaysInFlight, StaysCopied DEF MessagesInv
<1>3. CASE EraseBlock
  <2>1. kind' = kind /\ in_flight' = in_flight /\ UNCHANGED <<copy, expected>> /\ kind # "wavelet_octree"
    BY <1>3 DEF EraseBlock
  <2>2. PICK b \in DOMAIN blocks : blocks' = [c \in DOMAIN blocks \ {b} |-> blocks[c]]
    BY <1>3 DEF EraseBlock
  <2>3. IsFiniteSet(DOMAIN blocks \ {b}) BY <1>1, FS_RemoveElement DEF MapIsGood
  <2>4. MapIsGood' BY <1>1, <2>1, <2>2, <2>3 DEF MapIsGood
  <2> QED BY <1>1, <2>1, <2>4, StaysInFlight, StaysCopied DEF MessagesInv
<1>4. CASE RestartMapper
  <2>1. kind' = kind /\ in_flight' = in_flight /\ UNCHANGED <<copy, expected>> /\ blocks' = NewMap(kind)
    BY <1>4 DEF RestartMapper
  <2>2. MapIsGood'
    <3>1. PICK d : d = DOMAIN NewMap(kind) OBVIOUS
    <3>2. d = {} \/ d = {OnlyTree} BY <3>1 DEF NewMap
    <3>3. IsFiniteSet(d) BY <3>2, FS_EmptySet, FS_Singleton
    <3>4. IsFiniteSet(DOMAIN blocks') BY <2>1, <3>1, <3>3
    <3> QED BY <2>1, <3>4, EmptyIsGood DEF MapIsGood, NewMap
  <2> QED BY <1>1, <2>1, <2>2, StaysInFlight, StaysCopied DEF MessagesInv
<1>5. CASE PublishWholeMap
  <2>1. kind' = kind /\ UNCHANGED <<copy, expected>> BY <1>5 DEF PublishWholeMap, Send
  <2> QED BY <1>1, <1>5, <2>1, PublishIs, StaysCopied DEF MessagesInv
<1>6. CASE PublishBlocks
  <2>1. kind' = kind /\ blocks' = blocks /\ UNCHANGED <<copy, expected>> BY <1>6 DEF PublishBlocks, Send
  <2>2. MapIsGood' BY <1>1, <2>1 DEF MapIsGood
  <2> QED BY <1>1, <1>6, <2>1, <2>2, PublishBlocksIs, StaysCopied DEF MessagesInv
<1>7. CASE LoseMessage
  <2>1. /\ kind' = kind /\ blocks' = blocks /\ UNCHANGED <<copy, expected>>
        /\ in_flight # <<>> /\ in_flight' = Tail(in_flight)
    BY <1>7 DEF LoseMessage
  <2>2. MapIsGood' BY <1>1, <2>1 DEF MapIsGood
  <2> QED BY <1>1, <2>1, <2>2, TailIs, StaysCopied DEF MessagesInv
<1>8. CASE ReceiveMessage
  <2>1. kind' = kind /\ blocks' = blocks /\ in_flight # <<>> /\ in_flight' = Tail(in_flight)
    BY <1>8 DEF ReceiveMessage
  <2>2. MapIsGood' BY <1>1, <2>1 DEF MapIsGood
  <2> QED BY <1>1, <1>8, <2>1, <2>2, TailIs, ReceiveIs DEF MessagesInv
<1>9. CASE UNCHANGED messageVars
  <2>1. kind' = kind /\ blocks' = blocks /\ in_flight' = in_flight /\ UNCHANGED <<copy, expected>>
    BY <1>9 DEF messageVars
  <2>2. MapIsGood' BY <1>1, <2>1 DEF MapIsGood
  <2> QED BY <1>1, <2>1, <2>2, StaysInFlight, StaysCopied DEF MessagesInv
<1> QED BY <1>2, <1>3, <1>4, <1>5, <1>6, <1>7, <1>8, <1>9 DEF MessagesNext

LEMMA CopyFromInv == MessagesInv => CopyIsMap
  BY DEF MessagesInv, Copied, CopyIsMap

\* Whatever is sent, lost, erased or restarted in between, the subscriber has
\* the blocks that the last message it received says are allocated, as far as
\* it has received them, each as it was when last sent.
THEOREM CopiesCorrect == MessagesSpec => []CopyIsMap
<1>1. MessagesInit => MessagesInv BY MessagesInvInit
<1>2. MessagesInv /\ [MessagesNext]_messageVars => MessagesInv' BY MessagesInvStep
<1>3. MessagesInv => CopyIsMap BY CopyFromInv
<1> QED BY <1>1, <1>2, <1>3, PTL DEF MessagesSpec

-----------------------------------------------------------------------------
(* What a stream is made of *)

\* The blocks in the order in which they are written.
Ordered(order, N) ==
  /\ N \in Nat /\ N = Cardinality(DOMAIN blocks)
  /\ order \in [1..N -> DOMAIN blocks] /\ Len(order) = N
  /\ \A b \in DOMAIN blocks : \E i \in 1..N : order[i] = b
  /\ \A i, k \in 1..N : order[i] = order[k] => i = k

LEMMA OrderIs ==
  ASSUME IsFiniteSet(DOMAIN blocks)
  PROVE  Ordered(SetToSeq(DOMAIN blocks), Cardinality(DOMAIN blocks))
<1>1. PICK B : B = DOMAIN blocks OBVIOUS
<1>2. PICK N \in Nat : N = Cardinality(B) BY <1>1, FS_CardinalityType
<1>3. PICK order : order = SetToSeq(B) OBVIOUS
<1>4. order \in Injection(1..N, B)
  <2>1. ExistsBijection(1..N, B) BY <1>1, <1>2, FS_CardinalityType
  <2>2. \E f \in [1..N -> B] : IsInjective(f)
    BY <2>1 DEF ExistsBijection, Bijection, Injection
  <2>3. order = CHOOSE f \in [1..N -> B] : IsInjective(f) BY <1>2, <1>3, Zenon DEF SetToSeq
  <2> QED BY <2>2, <2>3, Zenon DEF Injection
<1>5. order \in Surjection(1..N, B)
  <2>1. Cardinality(1..N) = N
    <3>1. 0 \in Int /\ 1 \in Int /\ N \in Int /\ (1 > N => N = 0) /\ N - 1 + 1 = N BY <1>2
    <3> QED BY <3>1, FS_Interval
  <2>2. IsFiniteSet(B) BY <1>1
  <2> QED BY <1>2, <1>4, <2>1, <2>2, FS_Injection
<1>6. order \in [1..N -> B] /\ \A i, k \in 1..N : order[i] = order[k] => i = k
  BY <1>4 DEF Injection, IsInjective
<1>7. \A b \in B : \E i \in 1..N : order[i] = b BY <1>5 DEF Surjection
<1>8. Len(order) = N
  <2>1. order \in Seq(B) BY <1>6
  <2> QED BY <1>2, <1>6, <2>1
<1> QED BY <1>1, <1>2, <1>3, <1>6, <1>7, <1>8 DEF Ordered

LEMMA DenseItems ==
  ASSUME kind = "hashed_blocks", NEW b
  PROVE  /\ BlockItems(b) = <<[block |-> b, cells |-> CellsOf(blocks[b])]>>
         /\ Len(BlockItems(b)) = 1
<1>1. PICK block : block = BlockWritten(blocks[b]) OBVIOUS
<1>2. block.cells = CellsOf(blocks[b]) BY <1>1 DEF BlockWritten
<1>3. BlockItems(b) = <<[block |-> b, cells |-> CellsOf(blocks[b])]>>
  BY <1>1, <1>2 DEF BlockItems, DenseItem
<1> QED BY <1>3

\* The block, and the nodes of its script.
ItemsFollow(items, tree, K, st) == \A j \in 0..(K - 1) : items[j + 2] = Item(tree, st[j])

LEMMA ItemsOfTree ==
  ASSUME kind # "hashed_blocks", NEW b, NEW K, NEW st, Script(blocks[b], K, st)
  PROVE  /\ \E S : BlockItems(b) \in Seq(S)
         /\ K \in Nat \ {0} /\ Len(BlockItems(b)) = K + 1
         /\ BlockItems(b)[1] = [block |-> b, scale |-> blocks[b].scale]
         /\ ItemsFollow(BlockItems(b), blocks[b], K, st)
<1>1. PICK block : block = BlockWritten(blocks[b]) OBVIOUS
<1>2. block = [scale |-> blocks[b].scale, nodes |-> NodesWritten(blocks[b])] BY <1>1 DEF BlockWritten
<1>3. block.scale = blocks[b].scale /\ block.nodes = NodesWritten(blocks[b]) BY <1>2
<1>4. PICK head : head = [block |-> b, scale |-> blocks[b].scale] OBVIOUS
<1>5. PICK nodes : nodes = NodesWritten(blocks[b]) OBVIOUS
<1>6. BlockItems(b) = <<head>> \o nodes BY <1>1, <1>3, <1>4, <1>5 DEF BlockItems, TreeItems
<1>7. /\ K \in Nat /\ nodes \in Seq(Items(blocks[b])) /\ Len(nodes) = K
      /\ \A j \in 0..(K - 1) : nodes[j + 1] = Item(blocks[b], st[j])
  BY <1>5 DEF Script
<1>8. K # 0
  <2>1. <<1>> # <<>> OBVIOUS
  <2> QED BY <2>1 DEF Script
<1>9. PICK S : S = Items(blocks[b]) \cup {head} OBVIOUS
<1>10. /\ <<head>> \o nodes \in Seq(S) /\ Len(<<head>> \o nodes) = Len(<<head>>) + Len(nodes)
       /\ \A i \in 1..(Len(<<head>>) + Len(nodes)) :
            (<<head>> \o nodes)[i] = IF i <= Len(<<head>>) THEN <<head>>[i] ELSE nodes[i - Len(<<head>>)]
  <2>1. <<head>> \in Seq(S) /\ nodes \in Seq(S) BY <1>7, <1>9
  <2> QED BY <2>1, ConcatProperties
<1>11. Len(<<head>>) = 1 /\ <<head>>[1] = head OBVIOUS
<1>12. ASSUME NEW j \in 0..(K - 1) PROVE (<<head>> \o nodes)[j + 2] = Item(blocks[b], st[j])
  <2>1. j + 2 \in 1..(1 + K) /\ ~(j + 2 <= 1) /\ (j + 2) - 1 = j + 1 BY <1>7
  <2>2. (<<head>> \o nodes)[j + 2] = nodes[(j + 2) - 1] BY <1>7, <1>10, <1>11, <2>1
  <2> QED BY <1>7, <2>1, <2>2
<1>13. (<<head>> \o nodes)[1] = head
  <2>1. 1 \in 1..(1 + K) BY <1>7
  <2> QED BY <1>7, <1>10, <1>11, <2>1
<1>14. 1 + K = K + 1 BY <1>7
<1>15. ItemsFollow(BlockItems(b), blocks[b], K, st) BY <1>6, <1>12 DEF ItemsFollow
<1> QED BY <1>4, <1>6, <1>7, <1>8, <1>10, <1>11, <1>13, <1>14, <1>15

\* The same, of one node.
LEMMA ItemAt ==
  ASSUME kind # "hashed_blocks", NEW b, NEW K, NEW st, Script(blocks[b], K, st),
         NEW j, j \in 0..(K - 1), NEW m, m = j + 2
  PROVE  BlockItems(b)[m] = Item(blocks[b], st[j])
<1>1. PICK items : items = BlockItems(b) OBVIOUS
<1>2. ItemsFollow(items, blocks[b], K, st)
  <2>1. ItemsFollow(BlockItems(b), blocks[b], K, st) BY ItemsOfTree
  <2> QED BY <1>1, <2>1
<1>3. PICK f : f = [h \in 0..(K - 1) |-> items[h + 2]] OBVIOUS
<1>4. \A h \in 0..(K - 1) : f[h] = Item(blocks[b], st[h]) BY <1>2, <1>3 DEF ItemsFollow
<1>5. f[j] = items[m] BY <1>3
<1> QED BY <1>1, <1>4, <1>5

LEMMA ItemsAreSequences ==
  ASSUME NEW b, SoundTree(blocks[b])
  PROVE  (\E S : BlockItems(b) \in Seq(S)) /\ Len(BlockItems(b)) \in Nat \ {0}
<1>1. CASE kind = "hashed_blocks"
  <2>1. PICK x : x = [block |-> b, cells |-> CellsOf(blocks[b])] OBVIOUS
  <2>2. PICK S : <<x>> \in Seq(S)
    <3>1. <<x>> \in Seq({x}) OBVIOUS
    <3> QED BY <3>1
  <2>3. BlockItems(b) = <<x>> /\ Len(BlockItems(b)) = 1 BY <1>1, <2>1, DenseItems
  <2>4. BlockItems(b) \in Seq(S) BY <2>2, <2>3
  <2> QED BY <2>3, <2>4
<1>2. CASE kind # "hashed_blocks"
  <2>1. PICK K, st : Script(blocks[b], K, st) BY ScriptExists
  <2>2. /\ \E S : BlockItems(b) \in Seq(S)
        /\ K \in Nat \ {0} /\ Len(BlockItems(b)) = K + 1
    BY <1>2, <2>1, ItemsOfTree
  <2> QED BY <2>2
<1> QED BY <1>1, <1>2

ItemsLoop(order, f, n) ==
  f = [i \in 0..n |-> IF i = 0 THEN <<StreamHeader>> ELSE f[i - 1] \o BlockItems(order[i])]

LEMMA ItemsLoops ==
  ASSUME NEW order, NEW n \in Nat
  PROVE  \E f : ItemsLoop(order, f, n)
<1> DEFINE T == {m \in Nat : \E f : ItemsLoop(order, f, m)}
<1>1. 0 \in T
  <2>1. PICK f : f = [k \in 0..0 |-> <<StreamHeader>>] OBVIOUS
  <2>2. \A k \in 0..0 : k = 0 OBVIOUS
  <2>3. ItemsLoop(order, f, 0) BY <2>1, <2>2, Zenon DEF ItemsLoop
  <2> QED BY <2>3
<1>2. ASSUME NEW m \in Nat, m \in T PROVE m + 1 \in T
  <2>1. PICK f : ItemsLoop(order, f, m) BY <1>2
  <2>2. PICK g : g = [k \in 0..(m + 1) |-> IF k = m + 1 THEN f[m] \o BlockItems(order[k]) ELSE f[k]] OBVIOUS
  <2>3. ASSUME NEW k \in 0..(m + 1)
        PROVE  g[k] = IF k = 0 THEN <<StreamHeader>> ELSE g[k - 1] \o BlockItems(order[k])
    <3>1. CASE k = m + 1
      <4>1. m \in 0..(m + 1) /\ m # m + 1 /\ k # 0 /\ k - 1 = m BY <3>1
      <4> QED BY <2>2, <3>1, <4>1
    <3>2. CASE k # m + 1
      <4>1. k \in 0..m BY <3>2
      <4>2. f[k] = IF k = 0 THEN <<StreamHeader>> ELSE f[k - 1] \o BlockItems(order[k])
        BY <2>1, <4>1, Zenon DEF ItemsLoop
      <4>3. CASE k = 0 BY <2>2, <3>2, <4>2, <4>3
      <4>4. CASE k # 0
        <5>1. k - 1 \in 0..(m + 1) /\ k - 1 # m + 1 BY <4>1, <4>4
        <5> QED BY <2>2, <3>2, <4>2, <4>4, <5>1
      <4> QED BY <4>3, <4>4
    <3> QED BY <3>1, <3>2
  <2>4. ItemsLoop(order, g, m + 1) BY <2>2, <2>3, Zenon DEF ItemsLoop
  <2> QED BY <2>4
<1> HIDE DEF T
<1>3. n \in T BY <1>1, <1>2, NatInductionSet
<1> QED BY <1>3 DEF T

\* The items of block order[i] are behind the first ends[i - 1] ones.
LaidUpTo(stream, order, ends, n) ==
  /\ Len(stream) = ends[n] /\ ends[0] = 1 /\ stream[1] = StreamHeader
  /\ \A i \in 0..n : ends[i] \in 1..ends[n]
  /\ \A i \in 1..n : LET items == BlockItems(order[i])
                     IN  /\ ends[i] = ends[i - 1] + Len(items) /\ Len(items) \in Nat \ {0}
                         /\ \A j \in 1..Len(items) : stream[ends[i - 1] + j] = items[j]

\* One more block is written.
LEMMA LaidNext ==
  ASSUME NEW stream, NEW order, NEW ends, NEW n \in Nat, LaidUpTo(stream, order, ends, n),
         NEW S, stream \in Seq(S), NEW items, items \in Seq(S), Len(items) # 0,
         items = BlockItems(order[n + 1]), ends[n + 1] = ends[n] + Len(items)
  PROVE  LaidUpTo(stream \o items, order, ends, n + 1)
<1>1. PICK P, L \in Nat : P = Len(stream) /\ L = Len(items) /\ L # 0 OBVIOUS
<1>2. P = ends[n] /\ ends[0] = 1 /\ \A i \in 0..n : ends[i] \in 1..P BY <1>1 DEF LaidUpTo
<1>3. PICK longer : longer = stream \o items OBVIOUS
<1>4. Len(longer) = P + L /\ \A k \in 1..(P + L) : longer[k] = IF k <= P THEN stream[k] ELSE items[k - P]
  <2>1. stream \in Seq(S) /\ items \in Seq(S) OBVIOUS
  <2>2. /\ Len(stream \o items) = Len(stream) + Len(items)
        /\ \A k \in 1..(Len(stream) + Len(items)) :
             (stream \o items)[k] = IF k <= Len(stream) THEN stream[k] ELSE items[k - Len(stream)]
    BY <2>1, ConcatProperties
  <2> QED BY <1>1, <1>3, <2>2
<1>5. P \in 1..P
  <2>1. n \in 0..n OBVIOUS
  <2> QED BY <1>2, <2>1
<1>6. longer[1] = StreamHeader
  <2>1. 1 \in 1..(P + L) /\ 1 <= P BY <1>1, <1>5
  <2> QED BY <1>4, <2>1 DEF LaidUpTo
<1>7. ASSUME NEW i \in 0..(n + 1) PROVE ends[i] \in 1..(P + L)
  <2>1. CASE i = n + 1 BY <1>1, <1>2, <2>1
  <2>2. CASE i # n + 1
    <3>1. i \in 0..n BY <2>2
    <3> QED BY <1>1, <1>2, <3>1
  <2> QED BY <2>1, <2>2
<1>8. ASSUME NEW i \in 1..(n + 1), NEW here, here = BlockItems(order[i])
      PROVE  /\ ends[i] = ends[i - 1] + Len(here) /\ Len(here) \in Nat \ {0}
             /\ \A j \in 1..Len(here) : longer[ends[i - 1] + j] = here[j]
  <2>1. CASE i = n + 1
    <3>1. here = items /\ i - 1 = n /\ ends[i] = P + L /\ ends[i - 1] = P BY <1>1, <1>2, <1>8, <2>1
    <3>2. ASSUME NEW j \in 1..L PROVE longer[P + j] = items[j]
      <4>1. P + j \in 1..(P + L) /\ ~(P + j <= P) /\ (P + j) - P = j BY <1>1
      <4> QED BY <1>4, <4>1
    <3> QED BY <1>1, <3>1, <3>2
  <2>2. CASE i # n + 1
    <3>1. i \in 1..n /\ i \in 0..n /\ i - 1 \in 0..n BY <2>2
    <3>2. /\ ends[i] = ends[i - 1] + Len(here) /\ Len(here) \in Nat \ {0}
          /\ \A j \in 1..Len(here) : stream[ends[i - 1] + j] = here[j]
      BY <1>8, <3>1 DEF LaidUpTo
    <3>3. ends[i] \in 1..P /\ ends[i - 1] \in 1..P BY <1>2, <3>1
    <3>4. ASSUME NEW j \in 1..Len(here) PROVE longer[ends[i - 1] + j] = here[j]
      <4>1. PICK k \in 1..P : k = ends[i - 1] + j BY <3>2, <3>3
      <4>2. k \in 1..(P + L) /\ k <= P BY <1>1
      <4> QED BY <1>4, <3>2, <4>1, <4>2
    <3> QED BY <3>2, <3>4
  <2> QED BY <2>1, <2>2
<1>9. ends[n + 1] = P + L BY <1>1, <1>2
<1>10. LaidUpTo(longer, order, ends, n + 1)
  <2>1. /\ Len(longer) = ends[n + 1] /\ ends[0] = 1 /\ longer[1] = StreamHeader
        /\ \A i \in 0..(n + 1) : ends[i] \in 1..ends[n + 1]
    BY <1>2, <1>4, <1>6, <1>7, <1>9
  <2>2. \A i \in 1..(n + 1) : LET here == BlockItems(order[i])
                             IN  /\ ends[i] = ends[i - 1] + Len(here) /\ Len(here) \in Nat \ {0}
                                 /\ \A j \in 1..Len(here) : longer[ends[i - 1] + j] = here[j]
    BY <1>8, Zenon
  <2> QED BY <2>1, <2>2, Zenon DEF LaidUpTo
<1> QED BY <1>3, <1>10

LEMMA StreamIsLaid ==
  ASSUME MapIsGood
  PROVE  \E order, ends : /\ Ordered(order, Cardinality(DOMAIN blocks))
                          /\ LaidUpTo(MapToStream, order, ends, Cardinality(DOMAIN blocks))
<1>1. PICK N : N = Cardinality(DOMAIN blocks) OBVIOUS
<1>2. PICK order : order = SetToSeq(DOMAIN blocks) OBVIOUS
<1>3. Ordered(order, N) BY <1>1, <1>2, OrderIs DEF MapIsGood
<1>4. N \in Nat /\ Len(order) = N /\ \A i \in 1..N : order[i] \in DOMAIN blocks BY <1>3 DEF Ordered
<1>5. PICK f : ItemsLoop(order, f, N) /\ MapToStream = f[N]
  <2>1. \E f : ItemsLoop(order, f, Len(order)) BY <1>4, ItemsLoops
  <2>2. PICK f : f = CHOOSE g : ItemsLoop(order, g, Len(order)) OBVIOUS
  <2>3. MapToStream = f[Len(order)] BY <1>2, <2>2, Zenon DEF MapToStream, ItemsLoop
  <2>4. ItemsLoop(order, f, Len(order)) BY <2>1, <2>2, Zenon
  <2> QED BY <1>4, <2>3, <2>4
<1>6. \A i \in 0..N : f[i] = IF i = 0 THEN <<StreamHeader>> ELSE f[i - 1] \o BlockItems(order[i])
  BY <1>5, Zenon DEF ItemsLoop
<1>7. PICK S : S = {StreamHeader} \cup UNION {{BlockItems(b)[j] : j \in 1..Len(BlockItems(b))} : b \in DOMAIN blocks}
  OBVIOUS
<1>8. ASSUME NEW i \in 1..N PROVE BlockItems(order[i]) \in Seq(S) /\ Len(BlockItems(order[i])) \in Nat \ {0}
  <2>1. PICK b \in DOMAIN blocks : b = order[i] BY <1>4
  <2>2. SoundTree(blocks[b]) BY DEF MapIsGood, GoodTree
  <2>3. PICK items : items = BlockItems(b) OBVIOUS
  <2>4. PICK R : items \in Seq(R) BY <2>2, <2>3, ItemsAreSequences
  <2>5. Len(items) \in Nat \ {0} BY <2>2, <2>3, ItemsAreSequences
  <2>6. \A j \in 1..Len(items) : items[j] \in S BY <1>7, <2>3
  <2>7. items \in Seq(S) BY <2>4, <2>6
  <2> QED BY <2>1, <2>3, <2>5, <2>7
<1>9. PICK ends : ends = [i \in 0..N |-> Len(f[i])] OBVIOUS
<1> DEFINE Good(i) == f[i] \in Seq(S) /\ LaidUpTo(f[i], order, ends, i)
           T == {i \in Nat : i <= N => Good(i)}
<1>10. 0 \in T
  <2>1. 0 \in 0..N BY <1>4
  <2>2. f[0] = <<StreamHeader>> BY <1>6, <2>1
  <2>3. f[0] \in Seq(S) /\ Len(f[0]) = 1 /\ f[0][1] = StreamHeader BY <1>7, <2>2
  <2>4. ends[0] = 1 BY <1>9, <2>1, <2>3
  <2>5. 0..0 = {0} /\ 1..0 = {} /\ 1 \in 1..1 OBVIOUS
  <2>6. LaidUpTo(f[0], order, ends, 0) BY <2>3, <2>4, <2>5 DEF LaidUpTo
  <2> QED BY <2>3, <2>6
<1>11. ASSUME NEW i \in Nat, i \in T PROVE i + 1 \in T
  <2> SUFFICES ASSUME i + 1 <= N PROVE Good(i + 1)
    <3> HIDE DEF Good
    <3> QED OBVIOUS
  <2>1. i <= N /\ i \in 0..N /\ i + 1 \in 0..N /\ i + 1 \in 1..N /\ i + 1 # 0 /\ (i + 1) - 1 = i BY <1>4
  <2>2. f[i] \in Seq(S) /\ LaidUpTo(f[i], order, ends, i) BY <1>11, <2>1
  <2>3. PICK stream : stream = f[i] OBVIOUS
  <2>4. PICK items : items = BlockItems(order[i + 1]) OBVIOUS
  <2>5. items \in Seq(S) /\ Len(items) # 0 /\ Len(items) \in Nat BY <1>8, <2>1, <2>4
  <2>6. f[i + 1] = stream \o items BY <1>6, <2>1, <2>3, <2>4
  <2>7. /\ stream \o items \in Seq(S) /\ Len(stream \o items) = Len(stream) + Len(items)
    <3>1. stream \in Seq(S) /\ items \in Seq(S) BY <2>2, <2>3, <2>5
    <3> QED BY <3>1, ConcatProperties
  <2>8. ends[i + 1] = ends[i] + Len(items) BY <1>9, <2>1, <2>3, <2>6, <2>7
  <2>9. LaidUpTo(stream \o items, order, ends, i + 1) BY <2>2, <2>3, <2>4, <2>5, <2>8, LaidNext
  <2> QED BY <2>6, <2>7, <2>9
<1> HIDE DEF T
<1>12. N \in T /\ N <= N BY <1>4, <1>10, <1>11, NatInductionSet
<1>13. LaidUpTo(MapToStream, order, ends, N) BY <1>5, <1>12 DEF T
<1> QED BY <1>1, <1>3, <1>13

-----------------------------------------------------------------------------
(* Reading a stream *)

\* The cells of t are those of tree, but for the error.
CloseTo(t, tree) == \A c \in TreeCell : CellsOf(t)[c] - CellsOf(tree)[c] \in -CutError..CutError

NewTree(tree) == [EmptyTree EXCEPT !.scale = tree.scale]

LEMMA NewTreeIs ==
  ASSUME NEW tree, SoundTree(tree)
  PROVE  ReadInto(tree, NewTree(tree)) /\ NewTree(tree).nodes = {1} /\ NewTree(tree) \in TreeRecord
<1>1. tree.scale \in Int BY DEF SoundTree
<1>2. SoundTree(EmptyTree) /\ EmptyTree \in TreeRecord /\ EmptyTree.nodes = {1}
  BY EmptyIsReadable, EmptyIsGood
<1>3. PICK new : new = NewTree(tree) OBVIOUS
<1>4. SoundTree(new) /\ new \in TreeRecord /\ new.scale = tree.scale /\ new.nodes = {1}
  BY <1>1, <1>2, <1>3, RescaledIs DEF NewTree
<1> QED BY <1>3, <1>4 DEF ReadInto

LEMMA NewTreeIsClose ==
  ASSUME NEW tree, Writable(tree), NEW t, Merged(tree, NewTree(tree), t)
  PROVE  CloseTo(t, tree)
<1>1. SoundTree(tree) /\ 1 \in tree.nodes BY DEF Writable, GoodTree, SoundTree
<1>2. ReadInto(tree, NewTree(tree)) /\ NewTree(tree).nodes = {1} BY <1>1, NewTreeIs
<1>3. PICK old : old = NewTree(tree) OBVIOUS
<1>4. SameCells(t, tree)
  <2>1. kind = "hashed_wavelet_octree" => InLimits(tree) BY DEF Writable
  <2> QED BY <1>1, <1>2, <2>1, MergedIsSame
<1>5. t.nodes = {1} \cup Followed(tree) BY <1>2 DEF Merged
<1>6. t.nodes \ tree.nodes = {}
  <2>1. \A n \in Followed(tree) : n # 1 => n \in tree.nodes BY <1>1, FollowedAre
  <2> QED BY <1>1, <1>5, <2>1
<1> QED BY <1>4, <1>6 DEF SameCells, CloseTo

HasBlocks(order, i, has) ==
  /\ DOMAIN has = {order[h] : h \in 1..i}
  /\ \A h \in 1..i : CloseTo(has[order[h]], blocks[order[h]])

\* The reader when i blocks are read, and when it is at the nodes of the last of them.
AtBlock(order, i, N, s) ==
  \E a, has : /\ s = [at |-> a, left |-> N - i, stack |-> <<>>, blocks |-> has]
              /\ HasBlocks(order, i, has)

InBlock(order, i, N, stack, s) ==
  \E has : /\ s = [at |-> order[i], left |-> N - i, stack |-> stack, blocks |-> has]
           /\ DOMAIN has = {order[h] : h \in 1..i}
           /\ \A h \in 1..(i - 1) : CloseTo(has[order[h]], blocks[order[h]])
           /\ TreeRead(blocks[order[i]], NewTree(blocks[order[i]]), stack, has[order[i]])

LEMMA NextBlockIs ==
  ASSUME NEW order, NEW N, Ordered(order, N), NEW i \in 0..(N - 1), kind \in Kind,
         Writable(blocks[order[i + 1]]), NEW s, AtBlock(order, i, N, s)
  PROVE  LET t == ReadItem(s, BlockItems(order[i + 1])[1])
         IN  /\ kind = "hashed_blocks" => AtBlock(order, i + 1, N, t)
             /\ kind # "hashed_blocks" => InBlock(order, i + 1, N, <<1>>, t)
<1>0. N \in Nat /\ i \in Nat /\ i + 1 \in 1..N /\ (i + 1) - 1 = i /\ (N - i) - 1 = N - (i + 1)
  BY DEF Ordered
<1>1. PICK a, has : /\ s = [at |-> a, left |-> N - i, stack |-> <<>>, blocks |-> has]
                    /\ HasBlocks(order, i, has)
  BY DEF AtBlock
<1>2. s.stack = <<>> /\ s.left = N - i /\ s.blocks = has BY <1>1
<1>3. PICK b : b = order[i + 1] OBVIOUS
<1>4. PICK tree : tree = blocks[b] OBVIOUS
<1>5. Writable(tree) /\ SoundTree(tree) BY <1>3, <1>4 DEF Writable, GoodTree
<1>6. ASSUME NEW new
      PROVE  LET now == [c \in DOMAIN has \cup {b} |-> IF c = b THEN new ELSE has[c]]
             IN  /\ DOMAIN now = {order[h] : h \in 1..(i + 1)}
                 /\ \A h \in 1..i : CloseTo(now[order[h]], blocks[order[h]])
                 /\ now[b] = new
  <2>1. PICK now : now = [c \in DOMAIN has \cup {b} |-> IF c = b THEN new ELSE has[c]] OBVIOUS
  <2>2. DOMAIN has = {order[h] : h \in 1..i} BY <1>1 DEF HasBlocks
  <2>3. 1..(i + 1) = 1..i \cup {i + 1} BY <1>0
  <2>4. DOMAIN now = {order[h] : h \in 1..(i + 1)} BY <1>3, <2>1, <2>2, <2>3
  <2>5. ASSUME NEW h \in 1..i PROVE now[order[h]] = has[order[h]]
    <3>1. h \in 1..N /\ h # i + 1 BY <1>0
    <3>2. order[h] # b BY <1>0, <1>3, <3>1 DEF Ordered
    <3>3. order[h] \in DOMAIN has BY <2>2
    <3> QED BY <2>1, <3>2, <3>3
  <2>6. \A h \in 1..i : CloseTo(now[order[h]], blocks[order[h]]) BY <1>1, <2>5 DEF HasBlocks
  <2> QED BY <2>1, <2>4, <2>6
<1>7. CASE kind = "hashed_blocks"
  <2>1. PICK item : item = BlockItems(b)[1] OBVIOUS
  <2>2. item = [block |-> b, cells |-> CellsOf(tree)]
    <3>1. BlockItems(b) = <<[block |-> b, cells |-> CellsOf(blocks[b])]>> BY <1>7, DenseItems
    <3> QED BY <1>4, <2>1, <3>1
  <2>3. PICK new : new = TreeOf(CellsOf(tree), TreeNode) OBVIOUS
  <2>4. PICK now : now = [c \in DOMAIN has \cup {b} |-> IF c = b THEN new ELSE has[c]] OBVIOUS
  <2>5. ReadItem(s, item) = [at |-> b, left |-> N - (i + 1), stack |-> <<>>, blocks |-> now]
    <3>1. item.block = b /\ item.cells = CellsOf(tree) BY <2>2
    <3>2. ReadItem(s, item) = NextBlock(s, b, new, <<>>) BY <1>2, <1>7, <2>3, <3>1 DEF ReadItem
    <3> QED BY <1>0, <1>2, <2>4, <3>2 DEF NextBlock
  <2>6. CloseTo(new, tree)
    <3>1. PICK content \in ExactCells : content = CellsOf(tree) BY <1>5 DEF Writable, GoodTree
    <3>2. CellsOf(new) = content BY <2>3, <3>1, ScalesAreAverages
    <3>3. ASSUME NEW c \in TreeCell PROVE content[c] - content[c] \in -CutError..CutError
      <4>1. PICK v \in Int : v = content[c] BY DEF ExactCells
      <4>2. v - v \in -CutError..CutError BY CutErrorIs
      <4> QED BY <4>1, <4>2
    <3> QED BY <3>1, <3>2, <3>3 DEF CloseTo
  <2>7. HasBlocks(order, i + 1, now)
    <3>1. ASSUME NEW h \in 1..(i + 1) PROVE CloseTo(now[order[h]], blocks[order[h]])
      <4>1. CASE h = i + 1 BY <1>3, <1>4, <1>6, <2>4, <2>6, <4>1
      <4>2. CASE h # i + 1
        <5>1. h \in 1..i BY <1>0, <4>2
        <5> QED BY <1>6, <2>4, <5>1
      <4> QED BY <4>1, <4>2
    <3> QED BY <1>6, <2>4, <3>1 DEF HasBlocks
  <2>8. AtBlock(order, i + 1, N, ReadItem(s, item)) BY <2>5, <2>7 DEF AtBlock
  <2> QED BY <1>3, <1>7, <2>1, <2>8
<1>8. CASE kind # "hashed_blocks"
  <2>1. PICK item : item = BlockItems(b)[1] OBVIOUS
  <2>2. item = [block |-> b, scale |-> tree.scale]
    <3>1. PICK K, st : Script(blocks[b], K, st) BY <1>4, <1>5, ScriptExists
    <3> QED BY <1>4, <1>8, <2>1, <3>1, ItemsOfTree
  <2>3. PICK new : new = NewTree(tree) OBVIOUS
  <2>4. PICK now : now = [c \in DOMAIN has \cup {b} |-> IF c = b THEN new ELSE has[c]] OBVIOUS
  <2>5. ReadItem(s, item) = [at |-> b, left |-> N - (i + 1), stack |-> <<1>>, blocks |-> now]
    <3>1. item.block = b /\ item.scale = tree.scale BY <2>2
    <3>2. ReadItem(s, item) = NextBlock(s, b, new, <<1>>) BY <1>2, <1>8, <2>3, <3>1 DEF ReadItem, NewTree
    <3> QED BY <1>0, <1>2, <2>4, <3>2 DEF NextBlock
  <2>6. TreeRead(tree, NewTree(tree), <<1>>, new)
    <3>1. NewTree(tree).nodes = {1} /\ NewTree(tree) \in TreeRecord BY <1>5, NewTreeIs
    <3>2. 1 \in new.nodes /\ new \in TreeRecord BY <2>3, <3>1
    <3>3. TreeRead(tree, new, <<1>>, new) BY <1>5, <3>2, ReadFirst
    <3> QED BY <2>3, <3>3
  <2>7. /\ DOMAIN now = {order[h] : h \in 1..(i + 1)} /\ now[b] = new
        /\ \A h \in 1..i : CloseTo(now[order[h]], blocks[order[h]])
    BY <1>6, <2>4
  <2>8. InBlock(order, i + 1, N, <<1>>, ReadItem(s, item))
    BY <1>0, <1>3, <1>4, <2>5, <2>6, <2>7 DEF InBlock
  <2> QED BY <1>3, <1>8, <2>1, <2>8
<1> QED BY <1>7, <1>8

LEMMA NextNodeIs ==
  ASSUME NEW order, NEW N, Ordered(order, N), NEW i \in 1..N, NEW tree, tree = blocks[order[i]],
         SoundTree(tree), NEW stack, WorkStack(tree, stack), stack # <<>>,
         NEW s, InBlock(order, i, N, stack, s)
  PROVE  InBlock(order, i, N, NextStack(tree, stack), ReadItem(s, Item(tree, stack)))
<1>1. PICK has : /\ s = [at |-> order[i], left |-> N - i, stack |-> stack, blocks |-> has]
                 /\ DOMAIN has = {order[h] : h \in 1..i}
                 /\ \A h \in 1..(i - 1) : CloseTo(has[order[h]], blocks[order[h]])
                 /\ TreeRead(tree, NewTree(tree), stack, has[order[i]])
  BY DEF InBlock
<1>2. s.at = order[i] /\ s.stack = stack /\ s.blocks = has BY <1>1
<1>3. PICK b : b = order[i] OBVIOUS
<1>4. b \in DOMAIN has
  <2>1. i \in 1..i BY DEF Ordered
  <2> QED BY <1>1, <1>3, <2>1
<1>5. PICK t : t = has[b] OBVIOUS
<1>6. TreeRead(tree, NewTree(tree), stack, t) BY <1>1, <1>3, <1>5
<1>7. PICK u : /\ ReadNode([stack |-> stack, tree |-> t], Item(tree, stack))
                    = [stack |-> NextStack(tree, stack), tree |-> u]
               /\ TreeRead(tree, NewTree(tree), NextStack(tree, stack), u)
  BY <1>6, ReadNodeIs
<1>8. PICK now : now = [has EXCEPT ![b] = u] OBVIOUS
<1>9. ReadItem(s, Item(tree, stack))
        = [at |-> b, left |-> N - i, stack |-> NextStack(tree, stack), blocks |-> now]
  <2>1. PICK item : item = Item(tree, stack) OBVIOUS
  <2>2. PICK node : node = ReadNode([stack |-> stack, tree |-> t], item) OBVIOUS
  <2>3. node.stack = NextStack(tree, stack) /\ node.tree = u BY <1>7, <2>1, <2>2
  <2>4. ReadItem(s, item) = [s EXCEPT !.stack = node.stack, !.blocks[b] = node.tree]
    BY <1>2, <1>3, <1>5, <2>2, Zenon DEF ReadItem
  <2>5. [s EXCEPT !.stack = node.stack, !.blocks[b] = node.tree]
          = [at |-> b, left |-> N - i, stack |-> node.stack, blocks |-> now]
    <3>1. PICK x, y : x = node.stack /\ y = node.tree OBVIOUS
    <3>2. s = [at |-> b, left |-> N - i, stack |-> stack, blocks |-> has] BY <1>1, <1>3
    <3>3. PICK r : r = [s EXCEPT !.stack = x] OBVIOUS
    <3>4. r = [at |-> b, left |-> N - i, stack |-> x, blocks |-> has] BY <3>2, <3>3
    <3>5. r.blocks = has BY <3>4
    <3>6. [r EXCEPT !.blocks = now] = [at |-> b, left |-> N - i, stack |-> x, blocks |-> now] BY <3>4
    <3>7. now = [r.blocks EXCEPT ![b] = y] BY <1>8, <2>3, <3>1, <3>5
    <3> QED BY <3>1, <3>3, <3>6, <3>7
  <2> QED BY <2>1, <2>3, <2>4, <2>5
<1>10. DOMAIN now = DOMAIN has /\ now[b] = u /\ \A c \in DOMAIN has : c # b => now[c] = has[c]
  BY <1>4, <1>8
<1>11. ASSUME NEW h \in 1..(i - 1) PROVE CloseTo(now[order[h]], blocks[order[h]])
  <2>1. h \in 1..N /\ h # i /\ h \in 1..i BY DEF Ordered
  <2>2. order[h] # b BY <1>3, <2>1 DEF Ordered
  <2>3. order[h] \in DOMAIN has BY <1>1, <2>1
  <2> QED BY <1>1, <1>10, <2>2, <2>3
<1> QED BY <1>1, <1>3, <1>7, <1>9, <1>10, <1>11 DEF InBlock

LEMMA BlockDone ==
  ASSUME NEW order, NEW N, Ordered(order, N), NEW i \in 1..N, Writable(blocks[order[i]]),
         NEW s, InBlock(order, i, N, <<>>, s)
  PROVE  AtBlock(order, i, N, s)
<1>1. PICK tree : tree = blocks[order[i]] OBVIOUS
<1>2. PICK has : /\ s = [at |-> order[i], left |-> N - i, stack |-> <<>>, blocks |-> has]
                 /\ DOMAIN has = {order[h] : h \in 1..i}
                 /\ \A h \in 1..(i - 1) : CloseTo(has[order[h]], blocks[order[h]])
                 /\ TreeRead(tree, NewTree(tree), <<>>, has[order[i]])
  BY <1>1 DEF InBlock
<1>3. SoundTree(tree) /\ Writable(tree) BY <1>1 DEF Writable, GoodTree
<1>4. Merged(tree, NewTree(tree), has[order[i]]) BY <1>2, <1>3, ReadLast
<1>5. CloseTo(has[order[i]], tree) BY <1>3, <1>4, NewTreeIsClose
<1>6. ASSUME NEW h \in 1..i PROVE h = i \/ h \in 1..(i - 1) BY DEF Ordered
<1>7. HasBlocks(order, i, has) BY <1>1, <1>2, <1>5, <1>6 DEF HasBlocks
<1> QED BY <1>2, <1>7 DEF AtBlock

\* Where the reader is after k items.
Position(order, ends, N, k, s) ==
  \/ \E i \in 0..N : k = ends[i] /\ AtBlock(order, i, N, s)
  \/ /\ kind # "hashed_blocks"
     /\ \E i \in 1..N : \E K, st : /\ Script(blocks[order[i]], K, st)
                                   /\ \E j \in 0..(K - 1) : /\ k = ends[i - 1] + 1 + j
                                                            /\ InBlock(order, i, N, st[j], s)

\* A stream of a map that can be written.
Laid(stream, order, ends, N) ==
  /\ Ordered(order, N) /\ LaidUpTo(stream, order, ends, N) /\ kind \in Kind
  /\ \A b \in DOMAIN blocks : Writable(blocks[b])

LEMMA LaidEnds ==
  ASSUME NEW stream, NEW order, NEW ends, NEW N, Laid(stream, order, ends, N)
  PROVE  /\ N \in Nat /\ Len(stream) = ends[N] /\ ends[N] \in Nat \ {0} /\ ends[0] = 1
         /\ \A i \in 0..N : ends[i] \in 1..ends[N] /\ (i # N => ends[i] < ends[N])
         /\ \A i \in 1..N : order[i] \in DOMAIN blocks /\ Writable(blocks[order[i]]) /\ SoundTree(blocks[order[i]])
         /\ \A i \in 1..N : /\ ends[i] = ends[i - 1] + Len(BlockItems(order[i]))
                            /\ Len(BlockItems(order[i])) \in Nat \ {0}
                            /\ \A j \in 1..Len(BlockItems(order[i])) :
                                 stream[ends[i - 1] + j] = BlockItems(order[i])[j]
<1>1. N \in Nat /\ \A i \in 1..N : order[i] \in DOMAIN blocks BY DEF Laid, Ordered
<1>2. LaidUpTo(stream, order, ends, N) BY DEF Laid
<1>3. \A i \in 0..N : ends[i] \in 1..ends[N] BY <1>2 DEF LaidUpTo
<1>4. ends[N] \in Nat \ {0}
  <2>1. N \in 0..N BY <1>1
  <2>2. ends[N] \in 1..ends[N] BY <1>3, <2>1
  <2>3. 1..ends[N] \subseteq Int OBVIOUS
  <2>4. ends[N] \in Int BY <2>2, <2>3
  <2> QED BY <2>2, <2>4
<1>5. \A i \in 1..N : /\ ends[i] = ends[i - 1] + Len(BlockItems(order[i]))
                      /\ Len(BlockItems(order[i])) \in Nat \ {0}
                      /\ \A j \in 1..Len(BlockItems(order[i])) :
                           stream[ends[i - 1] + j] = BlockItems(order[i])[j]
  BY <1>2 DEF LaidUpTo
<1>6. ASSUME NEW i \in 0..N, i # N PROVE ends[i] < ends[N]
  <2>1. i + 1 \in 1..N /\ i + 1 \in 0..N /\ (i + 1) - 1 = i BY <1>1, <1>6
  <2>2. ends[i + 1] = ends[i] + Len(BlockItems(order[i + 1])) /\ Len(BlockItems(order[i + 1])) \in Nat \ {0}
    BY <1>5, <2>1
  <2>3. ends[i + 1] \in 1..ends[N] /\ ends[i] \in 1..ends[N] BY <1>3, <2>1
  <2> QED BY <1>4, <2>2, <2>3
<1>7. \A i \in 1..N : Writable(blocks[order[i]]) /\ SoundTree(blocks[order[i]])
  BY <1>1 DEF Laid, Writable, GoodTree
<1>8. Len(stream) = ends[N] /\ ends[0] = 1 BY <1>2 DEF LaidUpTo
<1> QED BY <1>1, <1>3, <1>4, <1>5, <1>6, <1>7, <1>8

LEMMA PositionFirst ==
  ASSUME NEW stream, NEW order, NEW ends, NEW N, Laid(stream, order, ends, N)
  PROVE  Position(order, ends, N, 1,
                  [at |-> OnlyTree, left |-> stream[1].num_blocks, stack |-> <<>>, blocks |-> <<>>])
<1>1. N \in Nat /\ N = Cardinality(DOMAIN blocks) BY DEF Laid, Ordered
<1>2. ends[0] = 1 /\ stream[1] = StreamHeader BY DEF Laid, LaidUpTo
<1>3. stream[1].num_blocks = N - 0 BY <1>1, <1>2 DEF StreamHeader
<1>4. HasBlocks(order, 0, <<>>)
  <2>1. DOMAIN <<>> = {} /\ 1..0 = {} OBVIOUS
  <2> QED BY <2>1 DEF HasBlocks
<1>5. 0 \in 0..N BY <1>1
<1>6. AtBlock(order, 0, N, [at |-> OnlyTree, left |-> stream[1].num_blocks, stack |-> <<>>, blocks |-> <<>>])
  BY <1>3, <1>4 DEF AtBlock
<1> QED BY <1>2, <1>5, <1>6 DEF Position

LEMMA PositionNext ==
  ASSUME NEW stream, NEW order, NEW ends, NEW N, Laid(stream, order, ends, N),
         NEW k \in Nat, k < Len(stream), NEW s, Position(order, ends, N, k, s)
  PROVE  Position(order, ends, N, k + 1, ReadItem(s, stream[k + 1]))
<1>1. /\ N \in Nat /\ Len(stream) = ends[N] /\ ends[N] \in Nat \ {0}
      /\ \A i \in 0..N : ends[i] \in 1..ends[N]
      /\ \A i \in 1..N : Writable(blocks[order[i]]) /\ SoundTree(blocks[order[i]])
      /\ \A i \in 1..N : /\ ends[i] = ends[i - 1] + Len(BlockItems(order[i]))
                         /\ Len(BlockItems(order[i])) \in Nat \ {0}
                         /\ \A j \in 1..Len(BlockItems(order[i])) :
                              stream[ends[i - 1] + j] = BlockItems(order[i])[j]
  BY LaidEnds, SMTT(30)
<1>2. Ordered(order, N) /\ kind \in Kind BY DEF Laid
<1>3. ASSUME NEW i \in 0..N, k = ends[i], AtBlock(order, i, N, s)
      PROVE  Position(order, ends, N, k + 1, ReadItem(s, stream[k + 1]))
  <2>1. i # N BY <1>1, <1>3
  <2>2. i \in 0..(N - 1) /\ i + 1 \in 1..N /\ (i + 1) - 1 = i BY <1>1, <2>1
  <2>3. PICK items : items = BlockItems(order[i + 1]) OBVIOUS
  <2>4. stream[k + 1] = items[1]
    <3>1. Len(items) \in Nat \ {0} /\ \A j \in 1..Len(items) : stream[ends[i] + j] = items[j]
      BY <1>1, <2>2, <2>3
    <3>2. 1 \in 1..Len(items) BY <3>1
    <3> QED BY <1>3, <3>1, <3>2
  <2>5. PICK t : t = ReadItem(s, items[1]) OBVIOUS
  <2>6. /\ kind = "hashed_blocks" => AtBlock(order, i + 1, N, t)
        /\ kind # "hashed_blocks" => InBlock(order, i + 1, N, <<1>>, t)
    BY <1>1, <1>2, <1>3, <2>2, <2>3, <2>5, NextBlockIs
  <2>7. CASE kind = "hashed_blocks"
    <3>1. Len(items) = 1 BY <2>3, <2>7, DenseItems
    <3>2. ends[i + 1] = k + 1 BY <1>1, <1>3, <2>2, <2>3, <3>1
    <3>3. i + 1 \in 0..N BY <1>1, <2>2
    <3>4. Position(order, ends, N, k + 1, t) BY <2>6, <2>7, <3>2, <3>3 DEF Position
    <3> QED BY <2>4, <2>5, <3>4
  <2>8. CASE kind # "hashed_blocks"
    <3>1. PICK K, st : Script(blocks[order[i + 1]], K, st) BY <1>1, <2>2, ScriptExists
    <3>2. K \in Nat \ {0} BY <2>8, <3>1, ItemsOfTree
    <3>3. st[0] = <<1>> /\ 0 \in 0..(K - 1) BY <3>1, <3>2 DEF Script
    <3>4. k + 1 = ends[(i + 1) - 1] + 1 + 0 BY <1>3, <2>2
    <3>5. InBlock(order, i + 1, N, st[0], t) BY <2>6, <2>8, <3>3
    <3>6. Position(order, ends, N, k + 1, t) BY <2>2, <2>8, <3>1, <3>3, <3>4, <3>5 DEF Position
    <3> QED BY <2>4, <2>5, <3>6
  <2> QED BY <2>7, <2>8
<1>4. ASSUME kind # "hashed_blocks", NEW i \in 1..N, NEW K, NEW st, Script(blocks[order[i]], K, st),
             NEW j \in 0..(K - 1), k = ends[i - 1] + 1 + j, InBlock(order, i, N, st[j], s)
      PROVE  Position(order, ends, N, k + 1, ReadItem(s, stream[k + 1]))
  <2>1. PICK tree : tree = blocks[order[i]] OBVIOUS
  <2>2. PICK items : items = BlockItems(order[i]) OBVIOUS
  <2>3. /\ K \in Nat \ {0} /\ Len(items) = K + 1
        /\ items[j + 2] = Item(tree, st[j])
    <3>1. PICK b : b = order[i] OBVIOUS
    <3>2. Script(blocks[b], K, st) BY <1>4, <3>1
    <3>3. K \in Nat \ {0} /\ Len(BlockItems(b)) = K + 1 BY <1>4, <3>2, ItemsOfTree
    <3>4. PICK m : m = j + 2 OBVIOUS
    <3>5. BlockItems(b)[m] = Item(blocks[b], st[j]) BY <1>4, <3>2, <3>4, ItemAt
    <3> QED BY <2>1, <2>2, <3>1, <3>3, <3>4, <3>5
  <2>4. PICK e \in Nat : e = ends[i - 1]
    <3>1. i - 1 \in 0..N BY <1>1
    <3>2. ends[i - 1] \in 1..ends[N] /\ ends[N] \in Nat BY <1>1, <3>1
    <3>3. ends[i - 1] \in Nat BY <3>2
    <3> QED BY <3>3
  <2>a. j \in Nat /\ k = e + 1 + j /\ j + 2 \in 1..(K + 1) BY <1>4, <2>3, <2>4, SMTT(30)
  <2>5. ends[i] = ends[i - 1] + (K + 1) /\ \A h \in 1..Len(items) : stream[ends[i - 1] + h] = items[h]
    BY <1>1, <2>2, <2>3
  <2>6. stream[k + 1] = Item(tree, st[j])
    <3>1. k + 1 = e + (j + 2) BY <2>a
    <3>2. stream[e + (j + 2)] = items[j + 2] BY <2>3, <2>4, <2>5, <2>a
    <3> QED BY <2>3, <3>1, <3>2
  <2>7. /\ WorkStack(tree, st[j]) /\ st[j] # <<>> /\ st[j + 1] = NextStack(tree, st[j]) /\ st[K] = <<>>
    <3>1. j \in 0..K BY <2>3
    <3> QED BY <1>4, <2>1, <3>1 DEF Script
  <2>8. PICK t : t = ReadItem(s, stream[k + 1]) OBVIOUS
  <2>9. InBlock(order, i, N, st[j + 1], t)
    <3>1. SoundTree(tree) BY <1>1, <2>1
    <3>2. InBlock(order, i, N, NextStack(tree, st[j]), ReadItem(s, Item(tree, st[j])))
      BY <1>2, <1>4, <2>1, <2>7, <3>1, NextNodeIs
    <3> QED BY <2>6, <2>7, <2>8, <3>2
  <2>10. CASE j + 1 = K
    <3>1. InBlock(order, i, N, <<>>, t) BY <2>7, <2>9, <2>10
    <3>2. AtBlock(order, i, N, t) BY <1>1, <1>2, <3>1, BlockDone
    <3>3. k + 1 = ends[i]
      <4>1. k + 1 = e + (K + 1) BY <2>10, <2>a
      <4> QED BY <2>4, <2>5, <4>1
    <3>4. i \in 0..N OBVIOUS
    <3>5. Position(order, ends, N, k + 1, t) BY <3>2, <3>3, <3>4 DEF Position
    <3> QED BY <2>8, <3>5
  <2>11. CASE j + 1 # K
    <3>1. j + 1 \in 0..(K - 1) BY <2>3, <2>11
    <3>2. k + 1 = ends[i - 1] + 1 + (j + 1)
      <4>1. k + 1 = e + 1 + (j + 1) BY <2>a
      <4> QED BY <2>4, <4>1
    <3>3. Position(order, ends, N, k + 1, t) BY <1>4, <2>9, <3>1, <3>2 DEF Position
    <3> QED BY <2>8, <3>3
  <2> QED BY <2>10, <2>11
<1>5. CASE \E i \in 0..N : k = ends[i] /\ AtBlock(order, i, N, s) BY <1>3, <1>5
<1>6. CASE /\ kind # "hashed_blocks"
           /\ \E i \in 1..N : \E K, st : /\ Script(blocks[order[i]], K, st)
                                         /\ \E j \in 0..(K - 1) : /\ k = ends[i - 1] + 1 + j
                                                                  /\ InBlock(order, i, N, st[j], s)
  BY <1>4, <1>6
<1> QED BY <1>5, <1>6 DEF Position

\* Only the whole stream reads to the end.
LEMMA PositionRead ==
  ASSUME NEW stream, NEW order, NEW ends, NEW N, Laid(stream, order, ends, N),
         NEW k, NEW s, Position(order, ends, N, k, s)
  PROVE  /\ ItemsRead(s) <=> k = Len(stream)
         /\ k = Len(stream) => HasBlocks(order, N, s.blocks)
<1>1. /\ N \in Nat /\ Len(stream) = ends[N] /\ ends[N] \in Nat \ {0}
      /\ \A i \in 0..N : ends[i] \in 1..ends[N] /\ (i # N => ends[i] < ends[N])
      /\ \A i \in 1..N : ends[i] = ends[i - 1] + Len(BlockItems(order[i]))
  BY LaidEnds
<1>2. ASSUME NEW i \in 0..N, k = ends[i], AtBlock(order, i, N, s)
      PROVE  /\ ItemsRead(s) <=> k = Len(stream)
             /\ k = Len(stream) => HasBlocks(order, N, s.blocks)
  <2>1. PICK a, has : /\ s = [at |-> a, left |-> N - i, stack |-> <<>>, blocks |-> has]
                      /\ HasBlocks(order, i, has)
    BY <1>2 DEF AtBlock
  <2>2. s.left = N - i /\ s.stack = <<>> /\ s.blocks = has BY <2>1
  <2>3. ItemsRead(s) <=> i = N BY <1>1, <2>2 DEF ItemsRead
  <2>4. k = Len(stream) <=> i = N BY <1>1, <1>2
  <2> QED BY <2>1, <2>2, <2>3, <2>4
<1>3. ASSUME kind # "hashed_blocks", NEW i \in 1..N, NEW K, NEW st, Script(blocks[order[i]], K, st),
             NEW j \in 0..(K - 1), k = ends[i - 1] + 1 + j, InBlock(order, i, N, st[j], s)
      PROVE  ~ItemsRead(s) /\ k # Len(stream)
  <2>1. st[j] # <<>> BY <1>3 DEF Script
  <2>2. s.stack = st[j] BY <1>3 DEF InBlock
  <2>3. ~ItemsRead(s) BY <2>1, <2>2 DEF ItemsRead
  <2>4. K \in Nat \ {0} /\ Len(BlockItems(order[i])) = K + 1 BY <1>3, ItemsOfTree
  <2>5. i \in 0..N /\ i - 1 \in 0..N BY <1>1
  <2>6. ends[i] = ends[i - 1] + (K + 1) /\ ends[i] \in 1..ends[N] /\ ends[i - 1] \in 1..ends[N]
    BY <1>1, <2>4, <2>5
  <2>7. k < ends[i] BY <1>3, <2>4, <2>6
  <2> QED BY <1>1, <2>3, <2>6, <2>7
<1>4. CASE \E i \in 0..N : k = ends[i] /\ AtBlock(order, i, N, s) BY <1>2, <1>4
<1>5. CASE /\ kind # "hashed_blocks"
           /\ \E i \in 1..N : \E K, st : /\ Script(blocks[order[i]], K, st)
                                         /\ \E j \in 0..(K - 1) : /\ k = ends[i - 1] + 1 + j
                                                                  /\ InBlock(order, i, N, st[j], s)
  BY <1>3, <1>5
<1> QED BY <1>4, <1>5 DEF Position
-----------------------------------------------------------------------------
(* Reading a stream back *)

\* What streamToMap knows before the first tree or block.
FirstRead(stream) == [at |-> OnlyTree, left |-> stream[1].num_blocks, stack |-> <<>>, blocks |-> <<>>]

StreamLoop(stream, f, n) ==
  f = [k \in 1..n |-> IF k = 1
                      THEN [at |-> OnlyTree, left |-> stream[1].num_blocks, stack |-> <<>>, blocks |-> <<>>]
                      ELSE ReadItem(f[k - 1], stream[k])]

LEMMA StreamLoops ==
  ASSUME NEW stream, NEW n \in Nat
  PROVE  \E f : StreamLoop(stream, f, n)
<1> DEFINE T == {m \in Nat : \E f : StreamLoop(stream, f, m)}
           start == [at |-> OnlyTree, left |-> stream[1].num_blocks, stack |-> <<>>, blocks |-> <<>>]
<1>1. 0 \in T
  <2>1. PICK f : f = [k \in 1..0 |-> start] OBVIOUS
  <2>2. 1..0 = {} OBVIOUS
  <2>3. StreamLoop(stream, f, 0)
    <3> SUFFICES f = [k \in 1..0 |-> IF k = 1 THEN start ELSE ReadItem(f[k - 1], stream[k])]
      BY Zenon DEF StreamLoop
    <3> HIDE DEF start
    <3> QED BY <2>1, <2>2
  <2> QED BY <2>3
<1>2. ASSUME NEW m \in Nat, m \in T PROVE m + 1 \in T
  <2>1. PICK f : StreamLoop(stream, f, m) BY <1>2
  <2>2. PICK g : g = [k \in 1..(m + 1) |-> IF k = 1 THEN start
                                           ELSE IF k = m + 1 THEN ReadItem(f[m], stream[k]) ELSE f[k]] OBVIOUS
  <2> HIDE DEF start
  <2>3. ASSUME NEW k \in 1..(m + 1)
        PROVE  g[k] = IF k = 1 THEN start ELSE ReadItem(g[k - 1], stream[k])
    <3>1. CASE k = 1 BY <2>2, <3>1
    <3>2. CASE k # 1 /\ k = m + 1
      <4>1. m \in 1..(m + 1) /\ m \in 1..m /\ m # m + 1 /\ k - 1 = m BY <3>2
      <4>2. f[m] = IF m = 1 THEN start ELSE ReadItem(f[m - 1], stream[m])
        BY <2>1, <4>1, Zenon DEF StreamLoop, start
      <4>3. g[m] = f[m] BY <2>2, <4>1, <4>2
      <4> QED BY <2>2, <3>2, <4>1, <4>3
    <3>3. CASE k # 1 /\ k # m + 1
      <4>1. k \in 1..m /\ k - 1 \in 1..m /\ k - 1 \in 1..(m + 1) /\ k - 1 # m + 1 BY <3>3
      <4>2. f[k] = ReadItem(f[k - 1], stream[k])
        BY <2>1, <3>3, <4>1, Zenon DEF StreamLoop
      <4>3. f[k - 1] = IF k - 1 = 1 THEN start ELSE ReadItem(f[(k - 1) - 1], stream[k - 1])
        BY <2>1, <4>1, Zenon DEF StreamLoop, start
      <4>4. g[k - 1] = f[k - 1] BY <2>2, <4>1, <4>3
      <4> QED BY <2>2, <3>3, <4>2, <4>4
    <3> QED BY <3>1, <3>2, <3>3
  <2>4. StreamLoop(stream, g, m + 1)
    <3>1. g = [k \in 1..(m + 1) |-> IF k = 1 THEN start ELSE ReadItem(g[k - 1], stream[k])] BY <2>2, <2>3, Zenon
    <3> QED BY <3>1, Zenon DEF StreamLoop, start
  <2> QED BY <2>4
<1> HIDE DEF T
<1>3. n \in T BY <1>1, <1>2, NatInductionSet
<1> QED BY <1>3 DEF T

\* Whatever part of a stream is read, streamToMap is where that part ends.
LEMMA StreamIsRead ==
  ASSUME NEW stream, NEW order, NEW ends, NEW N, Laid(stream, order, ends, N),
         NEW old, NEW items \in 1..Len(stream)
  PROVE  \E s : /\ Position(order, ends, N, items, s)
                /\ StreamToMap(stream, items, old) =
                     IF ItemsRead(s) THEN [ok |-> TRUE, map |-> [config |-> stream[1].config, blocks |-> s.blocks]]
                     ELSE [ok |-> FALSE, map |-> old]
<1>1. Len(stream) \in Nat /\ items \in Nat \ {0} /\ items <= Len(stream) BY LaidEnds
<1>2. PICK f : /\ StreamLoop(stream, f, items)
               /\ StreamToMap(stream, items, old) =
                    IF ItemsRead(f[items])
                    THEN [ok |-> TRUE, map |-> [config |-> stream[1].config, blocks |-> f[items].blocks]]
                    ELSE [ok |-> FALSE, map |-> old]
  <2>1. \E f : StreamLoop(stream, f, items) BY <1>1, StreamLoops
  <2>2. PICK f : f = CHOOSE g : StreamLoop(stream, g, items) OBVIOUS
  <2>3. StreamLoop(stream, f, items) BY <2>1, <2>2, Zenon
  <2>4. items # 0 BY <1>1
  <2>5. StreamToMap(stream, items, old) =
          IF ItemsRead(f[items])
          THEN [ok |-> TRUE, map |-> [config |-> stream[1].config, blocks |-> f[items].blocks]]
          ELSE [ok |-> FALSE, map |-> old]
    BY <2>2, <2>4, Zenon DEF StreamToMap, StreamLoop
  <2> QED BY <2>3, <2>5
<1>3. \A k \in 1..items : f[k] = IF k = 1 THEN FirstRead(stream) ELSE ReadItem(f[k - 1], stream[k])
  BY <1>2, Zenon DEF StreamLoop, FirstRead
<1> DEFINE T == {k \in Nat : k + 1 <= items => Position(order, ends, N, k + 1, f[k + 1])}
<1>4. 0 \in T
  <2>1. 1 \in 1..items /\ 0 + 1 = 1 BY <1>1
  <2>2. f[1] = FirstRead(stream) BY <1>3, <2>1
  <2>3. Position(order, ends, N, 1, FirstRead(stream)) BY PositionFirst DEF FirstRead
  <2> QED BY <2>1, <2>2, <2>3
<1>5. ASSUME NEW k \in Nat, k \in T PROVE k + 1 \in T
  <2> SUFFICES ASSUME (k + 1) + 1 <= items PROVE Position(order, ends, N, (k + 1) + 1, f[(k + 1) + 1]) OBVIOUS
  <2>1. PICK h \in Nat : h = k + 1 OBVIOUS
  <2>2. h + 1 \in 1..items /\ h + 1 # 1 /\ (h + 1) - 1 = h /\ h < Len(stream) /\ h <= items BY <1>1, <2>1
  <2>3. PICK s : s = f[h] OBVIOUS
  <2>4. Position(order, ends, N, h, s) BY <1>5, <2>1, <2>2, <2>3
  <2>5. f[h + 1] = ReadItem(s, stream[h + 1]) BY <1>3, <2>2, <2>3
  <2>6. Position(order, ends, N, h + 1, ReadItem(s, stream[h + 1])) BY <2>2, <2>4, PositionNext
  <2> QED BY <2>1, <2>5, <2>6
<1> HIDE DEF T
<1>6. items - 1 \in T
  <2>1. items - 1 \in Nat BY <1>1
  <2> QED BY <1>4, <1>5, <2>1, NatInductionSet
<1>7. Position(order, ends, N, items, f[items])
  <2>1. (items - 1) + 1 = items /\ items <= items BY <1>1
  <2>2. items - 1 \in Nat /\ ((items - 1) + 1 <= items => Position(order, ends, N, (items - 1) + 1, f[(items - 1) + 1]))
    BY <1>6 DEF T
  <2> QED BY <2>1, <2>2
<1> QED BY <1>2, <1>7

LEMMA StreamsFromInv == MessagesInv => StreamsAreWhole
<1> SUFFICES ASSUME MessagesInv, \A b \in DOMAIN blocks : ThresholdedTree(blocks[b]) = blocks[b]
             PROVE  /\ \A items \in 1..Len(MapToStream) - 1 : StreamToMap(MapToStream, items, copy) =
                                                                [ok |-> FALSE, map |-> copy]
                    /\ StreamToMap(MapToStream, Len(MapToStream), copy).ok
                    /\ StreamToMap(MapToStream, Len(MapToStream), copy).map.config = config
                    /\ DOMAIN StreamToMap(MapToStream, Len(MapToStream), copy).map.blocks = DOMAIN blocks
                    /\ \A b \in DOMAIN blocks :
                         CloseTo(StreamToMap(MapToStream, Len(MapToStream), copy).map.blocks[b], blocks[b])
  BY DEF StreamsAreWhole, CloseTo
<1>1. kind \in Kind /\ MapIsGood BY DEF MessagesInv
<1>2. ASSUME NEW b \in DOMAIN blocks PROVE Writable(blocks[b])
  <2>1. GoodTree(blocks[b]) BY <1>1 DEF MapIsGood
  <2>2. InLimits(ThresholdedTree(blocks[b])) BY <2>1, ThresholdedIsGood
  <2>3. InLimits(blocks[b]) BY <2>2
  <2> QED BY <2>1, <2>3 DEF Writable
<1>3. PICK stream : stream = MapToStream OBVIOUS
<1>4. PICK N : N = Cardinality(DOMAIN blocks) OBVIOUS
<1>5. PICK order, ends : Ordered(order, N) /\ LaidUpTo(stream, order, ends, N) BY <1>1, <1>3, <1>4, StreamIsLaid
<1>6. Laid(stream, order, ends, N) BY <1>1, <1>2, <1>5 DEF Laid
<1>7. Len(stream) \in Nat \ {0} BY <1>6, LaidEnds
<1>8. stream[1].config = config BY <1>5 DEF LaidUpTo, StreamHeader
<1>9. ASSUME NEW items \in 1..Len(stream) - 1
      PROVE  StreamToMap(stream, items, copy) = [ok |-> FALSE, map |-> copy]
  <2>1. items \in 1..Len(stream) /\ items # Len(stream) BY <1>7
  <2>2. PICK s : /\ Position(order, ends, N, items, s)
                 /\ StreamToMap(stream, items, copy) =
                      IF ItemsRead(s) THEN [ok |-> TRUE, map |-> [config |-> stream[1].config, blocks |-> s.blocks]]
                      ELSE [ok |-> FALSE, map |-> copy]
    BY <1>6, <2>1, StreamIsRead
  <2>3. ItemsRead(s) <=> items = Len(stream) BY <1>6, <2>2, PositionRead
  <2> QED BY <2>1, <2>2, <2>3
<1>10. PICK s : /\ Position(order, ends, N, Len(stream), s)
                /\ StreamToMap(stream, Len(stream), copy) =
                     IF ItemsRead(s) THEN [ok |-> TRUE, map |-> [config |-> stream[1].config, blocks |-> s.blocks]]
                     ELSE [ok |-> FALSE, map |-> copy]
  <2>1. Len(stream) \in 1..Len(stream) BY <1>7
  <2> QED BY <1>6, <2>1, StreamIsRead
<1>11. ItemsRead(s) /\ HasBlocks(order, N, s.blocks) BY <1>6, <1>10, PositionRead
<1>12. PICK has : has = s.blocks OBVIOUS
<1>13. StreamToMap(stream, Len(stream), copy) = [ok |-> TRUE, map |-> [config |-> config, blocks |-> has]]
  BY <1>8, <1>10, <1>11, <1>12
<1>14. DOMAIN has = DOMAIN blocks /\ \A b \in DOMAIN blocks : CloseTo(has[b], blocks[b])
  <2>1. /\ \A i \in 1..N : order[i] \in DOMAIN blocks
        /\ \A b \in DOMAIN blocks : \E i \in 1..N : order[i] = b
    BY <1>5 DEF Ordered
  <2>2. /\ DOMAIN has = {order[h] : h \in 1..N}
        /\ \A h \in 1..N : CloseTo(has[order[h]], blocks[order[h]])
    BY <1>11, <1>12 DEF HasBlocks
  <2> QED BY <2>1, <2>2
<1>15. PICK whole : whole = StreamToMap(stream, Len(stream), copy) OBVIOUS
<1>16. whole.ok /\ whole.map.config = config /\ whole.map.blocks = has
  <2>1. PICK map : map = [config |-> config, blocks |-> has] OBVIOUS
  <2>2. whole = [ok |-> TRUE, map |-> map] BY <1>13, <1>15, <2>1
  <2>3. whole.ok = TRUE /\ whole.map = map BY <2>2
  <2> QED BY <2>1, <2>3
<1> QED BY <1>3, <1>9, <1>14, <1>15, <1>16

\* A map whose values are within its limits, of any of the three kinds, is read
\* back from the stream that mapToStream writes of it, with every block and
\* every cell but for the values too small to store; a stream that was cut off
\* anywhere, even between two of its trees, is refused, and the caller's map is
\* left as it was.
THEOREM StreamsCorrect == MessagesSpec => []StreamsAreWhole
<1>1. MessagesInit => MessagesInv BY MessagesInvInit
<1>2. MessagesInv /\ [MessagesNext]_messageVars => MessagesInv' BY MessagesInvStep
<1>3. MessagesInv => StreamsAreWhole BY StreamsFromInv
<1> QED BY <1>1, <1>2, <1>3, PTL DEF MessagesSpec

=============================================================================
