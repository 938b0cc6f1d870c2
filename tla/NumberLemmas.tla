---------------------------- MODULE NumberLemmas ----------------------------
(***************************************************************************)
(* What the proofs need of numbers: induction, least elements, products,   *)
(* and quotients and remainders, for which the provers have few rules.     *)
(***************************************************************************)
EXTENDS Integers, FiniteSetsExt, WellFoundedInduction, TLAPS

\* Induction over the natural numbers: a least counterexample has none below it.
LEMMA NatInductionSet ==
  ASSUME NEW S, 0 \in S, \A n \in Nat : n \in S => n + 1 \in S
  PROVE  Nat \subseteq S
<1> DEFINE T == {n \in Nat : n \notin S}
<1> SUFFICES ASSUME T # {} PROVE FALSE OBVIOUS
<1>1. IsWellFoundedOn(OpToRel(<, Nat), Nat) BY NatLessThanWellFounded
<1>2. PICK x \in T : \A y \in T : ~ (<<y, x>> \in OpToRel(<, Nat)) BY <1>1, WFMin
<1>3. x # 0 OBVIOUS
<1>0. x \in Nat /\ x \notin S OBVIOUS
<1>4. x - 1 \in Nat /\ x - 1 < x /\ (x - 1) + 1 = x BY <1>0, <1>3
<1>5. <<x - 1, x>> \in OpToRel(<, Nat) BY <1>2, <1>4 DEF OpToRel
<1>6. x - 1 \in S BY <1>2, <1>4, <1>5
<1> QED BY <1>0, <1>4, <1>6

\* A set of natural numbers that is not empty has a least element.
LEMMA LeastNumber ==
  ASSUME NEW S \in SUBSET Nat, S # {} PROVE Min(S) \in S /\ \A y \in S : Min(S) <= y
<1> DEFINE Below == {p \in Nat \X Nat : p[1] < p[2]}
<1>1. Below = OpToRel(<, Nat) BY Zenon DEF OpToRel
<1>2. IsWellFoundedOn(Below, Nat) BY <1>1, NatLessThanWellFounded
<1>3. PICK x \in S : \A y \in S : ~(<<y, x>> \in Below)
  <2> HIDE DEF Below
  <2> QED BY <1>2, WFMin
<1>4. ASSUME NEW y \in S PROVE x <= y
  <2>1. x \in Nat /\ y \in Nat OBVIOUS
  <2>2. y < x => <<y, x>> \in Below BY <2>1
  <2> HIDE DEF Below
  <2> QED BY <2>1, <2>2, <1>3
<1> QED BY <1>4 DEF Min

\* Products with a positive number keep the order.
LEMMA ProductOrder ==
  \A x, y \in Int, w \in Nat \ {0} : /\ x * w \in Int /\ y * w \in Int
                                     /\ x < y => x * w < y * w /\ x * w + w <= y * w
                                     /\ x <= y => x * w <= y * w
<1> SUFFICES ASSUME NEW x \in Int, NEW y \in Int, NEW w \in Nat \ {0}
             PROVE  /\ x * w \in Int /\ y * w \in Int
                    /\ x < y => x * w < y * w /\ x * w + w <= y * w
                    /\ x <= y => x * w <= y * w
  OBVIOUS
<1> QED OBVIOUS

\* Division with remainder.
LEMMA DivisionIs ==
  ASSUME NEW n \in Int, NEW c \in Nat \ {0}
  PROVE  \E a \in Int, r \in 0..(c - 1) : n = c * a + r /\ n \div c = a /\ n % c = r
<1>1. n = c * (n \div c) + (n % c) /\ n \div c \in Int OBVIOUS
<1>2. n % c \in 0..(c - 1) OBVIOUS
<1>3. PICK a \in Int : a = n \div c BY <1>1
<1>4. PICK r \in 0..(c - 1) : r = n % c BY <1>2
<1>5. n = c * a + r BY <1>1, <1>3, <1>4
<1> QED BY <1>3, <1>4, <1>5

\* Quotient and remainder are the only ones.
LEMMA QuotientIs ==
  ASSUME NEW c \in Nat \ {0}, NEW a \in Int, NEW r \in 0..(c - 1)
  PROVE  (c * a + r) \div c = a /\ (c * a + r) % c = r
<1> DEFINE n == c * a + r
<1>1. n \in Int OBVIOUS
<1>2. PICK b \in Int, s \in 0..(c - 1) : n = c * b + s /\ n \div c = b /\ n % c = s
  BY <1>1, DivisionIs
<1>3. c * (a - b) = s - r /\ s - r < c /\ -c < s - r BY <1>2
<1>4. a = b
  <2>1. CASE a > b
    <3>1. c * (a - b) >= c * 1 BY <2>1
    <3> QED BY <3>1, <1>3
  <2>2. CASE a < b
    <3>1. c * (b - a) >= c * 1 BY <2>2
    <3> QED BY <3>1, <1>3
  <2> QED BY <2>1, <2>2
<1> QED BY <1>2, <1>4

\* A shift after a shift is one by both.
LEMMA ShiftTwice ==
  ASSUME NEW n \in Int, NEW c \in Nat \ {0}, NEW d \in Nat \ {0}
  PROVE  (n \div c) \div d = n \div (c * d)
<1>1. PICK a \in Int, r \in 0..(c - 1) : n = c * a + r /\ n \div c = a BY DivisionIs
<1>2. PICK b \in Int, s \in 0..(d - 1) : a = d * b + s /\ a \div d = b BY DivisionIs
<1>3. PICK m \in Nat \ {0} : m = c * d
  <2>1. c * d \in Nat \ {0}
    <3>1. c * d >= c * 1 OBVIOUS
    <3> QED BY <3>1
  <2> QED BY <2>1
<1>4. PICK t \in Int : t = c * s + r OBVIOUS
<1>5. n = m * b + t BY <1>1, <1>2, <1>3, <1>4
<1>6. t \in 0..(m - 1)
  <2>1. c * s >= 0 OBVIOUS
  <2>2. c * s <= c * (d - 1) OBVIOUS
  <2>3. c * (d - 1) = m - c BY <1>3
  <2> QED BY <2>1, <2>2, <2>3, <1>3, <1>4
<1>7. n \div m = b BY <1>5, <1>6, QuotientIs
<1> QED BY <1>1, <1>2, <1>3, <1>7

\* Quotients keep the order, and numbers less than the divisor apart are in neighbouring quotients.
LEMMA QuotientsKeepOrder ==
  ASSUME NEW w \in Nat \ {0}, NEW x \in Int, NEW y \in Int
  PROVE  /\ x \div w \in Int
         /\ x <= y => x \div w <= y \div w
         /\ y - x < w => y \div w <= (x \div w) + 1
         /\ y < w * x => y \div w < x
         /\ 0 <= y => 0 <= y \div w
         /\ 0 <= y /\ y < w => y \div w = 0
         /\ (w * x + y) \div w = x + (y \div w)
<1>1. PICK a \in Int, r \in 0..(w - 1) : x = w * a + r /\ x \div w = a BY DivisionIs
<1>2. PICK b \in Int, s \in 0..(w - 1) : y = w * b + s /\ y \div w = b BY DivisionIs
<1>3. ASSUME NEW p \in Int, NEW q \in Int, p < q PROVE w * p + w <= w * q
  <2>1. p * w + w <= q * w BY <1>3, ProductOrder
  <2>2. p * w = w * p /\ q * w = w * q OBVIOUS
  <2> QED BY <2>1, <2>2
<1>4. w * a \in Int /\ w * b \in Int /\ w * x \in Int /\ w * (a + 1) = w * a + w /\ w * 0 = 0
  <2>1. w \in Int OBVIOUS
  <2> QED BY <2>1
<1>5. x <= y => a <= b
  <2>1. b < a => w * b + w <= w * a BY <1>3
  <2> QED BY <1>1, <1>2, <1>4, <2>1
<1>6. y - x < w => b <= a + 1
  <2>1. a + 1 < b => w * (a + 1) + w <= w * b BY <1>3
  <2> QED BY <1>1, <1>2, <1>4, <2>1
<1>7. y < w * x => b < x
  <2>1. x < b => w * x + w <= w * b BY <1>3
  <2>2. x = b \/ x < b \/ b < x OBVIOUS
  <2> QED BY <1>2, <1>4, <2>1, <2>2
<1>8. 0 <= y => 0 <= b
  <2>1. b < 0 => w * b + w <= w * 0 BY <1>3
  <2> QED BY <1>2, <1>4, <2>1
<1>9. 0 <= y /\ y < w => b = 0
  <2>1. y < w * 1 => b < 1
    <3>1. 1 < b => w * 1 + w <= w * b BY <1>3
    <3>2. b = 1 \/ 1 < b \/ b < 1 OBVIOUS
    <3> QED BY <1>2, <1>4, <3>1, <3>2
  <2> QED BY <1>8, <2>1
<1>10. (w * x + y) \div w = x + b
  <2>1. w * x + y = w * (x + b) + s
    <3>1. w * (x + b) = w * x + w * b OBVIOUS
    <3> QED BY <1>2, <1>4, <3>1
  <2>2. x + b \in Int OBVIOUS
  <2>3. (w * (x + b) + s) \div w = x + b BY <2>2, QuotientIs
  <2> QED BY <2>1, <2>3
<1> QED BY <1>1, <1>2, <1>5, <1>6, <1>7, <1>8, <1>9, <1>10

-----------------------------------------------------------------------------
(* Recursive functions *)

\* G maps functions to functions, and the values that it gives to a rank depend
\* on those of lower ranks only.
IsRecursion(G, D, V, rank, N) ==
  /\ rank \in [D -> 0..N] /\ G \in [[D -> V] -> [D -> V]] /\ [D -> V] # {}
  /\ \A f, g \in [D -> V] : \A x \in D :
       (\A y \in D : rank[y] < rank[x] => f[y] = g[y]) => G[f][x] = G[g][x]

\* Then there is a function of which G makes the function itself.
LEMMA FixedPoint ==
  ASSUME NEW G, NEW D, NEW V, NEW rank, NEW N \in Nat, IsRecursion(G, D, V, rank, N)
  PROVE  \E f \in [D -> V] : f = G[f]
<1>0. /\ rank \in [D -> 0..N] /\ G \in [[D -> V] -> [D -> V]] /\ [D -> V] # {}
      /\ \A f, g \in [D -> V] : \A x \in D :
           (\A y \in D : rank[y] < rank[x] => f[y] = g[y]) => G[f][x] = G[g][x]
  BY DEF IsRecursion
<1> DEFINE T == {k \in Nat : \E f \in [D -> V] : \A x \in D : rank[x] < k => f[x] = G[f][x]}
<1>1. 0 \in T
  <2>1. \A x \in D : ~(rank[x] < 0) BY <1>0
  <2>2. PICK f : f \in [D -> V] BY <1>0
  <2> QED BY <2>1, <2>2
<1>2. ASSUME NEW k \in Nat, k \in T PROVE k + 1 \in T
  <2>1. PICK f \in [D -> V] : \A x \in D : rank[x] < k => f[x] = G[f][x] BY <1>2
  <2>2. PICK g \in [D -> V] : g = G[f] BY <1>0
  <2>3. ASSUME NEW x \in D, rank[x] < k + 1 PROVE g[x] = G[g][x]
    <3>1. ASSUME NEW y \in D, rank[y] < rank[x] PROVE f[y] = g[y]
      <4>1. rank[y] \in Int /\ rank[x] \in Int BY <1>0
      <4>2. rank[y] < k BY <4>1, <3>1, <2>3
      <4> QED BY <4>2, <2>1, <2>2
    <3>2. G[f][x] = G[g][x] BY <3>1, <1>0
    <3> QED BY <3>2, <2>2
  <2> QED BY <2>3
<1> HIDE DEF T
<1>3. Nat \subseteq T BY <1>1, <1>2, NatInductionSet
<1>4. N + 1 \in T BY <1>3
<1>5. PICK f \in [D -> V] : \A x \in D : rank[x] < N + 1 => f[x] = G[f][x] BY <1>4 DEF T
<1>6. \A x \in D : f[x] = G[f][x]
  <2>1. \A x \in D : rank[x] < N + 1 BY <1>0
  <2> QED BY <2>1, <1>5
<1>7. G[f] \in [D -> V] BY <1>0
<1> QED BY <1>6, <1>7

\* A loop of which each round makes something of what the round before left.
CanLoop(N, V, from, round) == N \in Nat /\ from \in V /\ round \in [1..N -> [V -> V]]

LEMMA LoopExists ==
  ASSUME NEW N, NEW V, NEW from, NEW round, CanLoop(N, V, from, round)
  PROVE  \E f \in [0..N -> V] : f = [k \in 0..N |-> IF k = 0 THEN from ELSE round[k][f[k - 1]]]
<1>a. N \in Nat /\ from \in V /\ round \in [1..N -> [V -> V]] BY DEF CanLoop
<1> DEFINE D == 0..N
           rank == [k \in D |-> k]
           G == [f \in [D -> V] |-> [k \in D |-> IF k = 0 THEN from ELSE round[k][f[k - 1]]]]
<1>1. rank \in [D -> 0..N] BY <1>a
<1>2. G \in [[D -> V] -> [D -> V]]
  <2>1. ASSUME NEW f \in [D -> V], NEW k \in D
        PROVE  (IF k = 0 THEN from ELSE round[k][f[k - 1]]) \in V
    <3>1. k # 0 => k - 1 \in D /\ k \in 1..N BY <1>a
    <3>2. k # 0 => f[k - 1] \in V /\ round[k] \in [V -> V] BY <1>a, <3>1
    <3> QED BY <1>a, <3>2
  <2> QED BY <2>1
<1>3. [D -> V] # {} BY <1>a, [k \in D |-> from] \in [D -> V]
<1>4. \A f, g \in [D -> V] : \A x \in D :
        (\A y \in D : rank[y] < rank[x] => f[y] = g[y]) => G[f][x] = G[g][x]
  <2> SUFFICES ASSUME NEW f \in [D -> V], NEW g \in [D -> V], NEW x \in D,
                      \A y \in D : rank[y] < rank[x] => f[y] = g[y]
               PROVE  G[f][x] = G[g][x]
    OBVIOUS
  <2>1. x # 0 => x - 1 \in D /\ x - 1 < x BY <1>a
  <2>2. x # 0 => f[x - 1] = g[x - 1] BY <2>1
  <2> QED BY <2>2
<1> HIDE DEF D, rank, G
<1>5. IsRecursion(G, D, V, rank, N) BY <1>1, <1>2, <1>3, <1>4 DEF IsRecursion
<1>6. \E f \in [D -> V] : f = G[f] BY <1>a, <1>5, FixedPoint
<1> QED BY <1>6 DEF D, G

\* The steps of a walk.
CanWalk(N, V, from, step) == N \in Nat /\ from \in V /\ step \in [V -> V]

LEMMA WalkExists ==
  ASSUME NEW N, NEW V, NEW from, NEW step, CanWalk(N, V, from, step)
  PROVE  \E f \in [0..N -> V] : f = [k \in 0..N |-> IF k = 0 THEN from ELSE step[f[k - 1]]]
<1>a. N \in Nat /\ from \in V /\ step \in [V -> V] BY DEF CanWalk
<1> DEFINE D == 0..N
           rank == [k \in D |-> k]
           G == [f \in [D -> V] |-> [k \in D |-> IF k = 0 THEN from ELSE step[f[k - 1]]]]
<1>1. rank \in [D -> 0..N] BY <1>a
<1>2. G \in [[D -> V] -> [D -> V]]
  <2>1. ASSUME NEW f \in [D -> V], NEW k \in D PROVE (IF k = 0 THEN from ELSE step[f[k - 1]]) \in V
    <3>1. k # 0 => k - 1 \in D BY <1>a
    <3> QED BY <1>a, <3>1
  <2> QED BY <2>1
<1>3. [D -> V] # {} BY <1>a, [k \in D |-> from] \in [D -> V]
<1>4. \A f, g \in [D -> V] : \A x \in D :
        (\A y \in D : rank[y] < rank[x] => f[y] = g[y]) => G[f][x] = G[g][x]
  <2> SUFFICES ASSUME NEW f \in [D -> V], NEW g \in [D -> V], NEW x \in D,
                      \A y \in D : rank[y] < rank[x] => f[y] = g[y]
               PROVE  G[f][x] = G[g][x]
    OBVIOUS
  <2>1. x # 0 => x - 1 \in D /\ x - 1 < x BY <1>a
  <2>2. x # 0 => f[x - 1] = g[x - 1] BY <2>1
  <2> QED BY <2>2
<1> HIDE DEF D, rank, G
<1>5. IsRecursion(G, D, V, rank, N) BY <1>1, <1>2, <1>3, <1>4 DEF IsRecursion
<1>6. \E f \in [D -> V] : f = G[f] BY <1>a, <1>5, FixedPoint
<1> QED BY <1>6 DEF D, G

\* A step that stays or lowers a rank, with a walk of as many steps as there
\* are ranks, and what the walk is where its values are known.
IsWalk(f, N, V, step, rank) ==
  /\ step \in [V -> V] /\ rank \in [V -> 0..N] /\ f[0] \in V
  /\ \A k \in 1..N : f[k - 1] \in V => f[k] = step[f[k - 1]]
  /\ \A s \in V : step[s] = s \/ rank[step[s]] < rank[s]

\* The walk ends where the step stays.
LEMMA WalkEnds ==
  ASSUME NEW N \in Nat, NEW V, NEW f, NEW step, NEW rank, IsWalk(f, N, V, step, rank)
  PROVE  f[N] \in V /\ step[f[N]] = f[N]
<1>0. /\ step \in [V -> V] /\ rank \in [V -> 0..N] /\ f[0] \in V
      /\ \A k \in 1..N : f[k - 1] \in V => f[k] = step[f[k - 1]]
      /\ \A s \in V : step[s] = s \/ rank[step[s]] < rank[s]
  BY DEF IsWalk
<1> DEFINE T == {k \in Nat : k <= N => f[k] \in V /\ (step[f[k]] = f[k] \/ rank[f[k]] + k <= N)}
<1>1. 0 \in T
  <2>1. rank[f[0]] \in 0..N BY <1>0
  <2>2. rank[f[0]] + 0 <= N BY <2>1
  <2> QED BY <1>0, <2>2
<1>2. ASSUME NEW k \in Nat, k \in T PROVE k + 1 \in T
  <2> SUFFICES ASSUME k + 1 <= N
               PROVE  /\ f[k + 1] \in V
                      /\ step[f[k + 1]] = f[k + 1] \/ rank[f[k + 1]] + (k + 1) <= N
    OBVIOUS
  <2>1. k <= N /\ k + 1 \in 1..N /\ (k + 1) - 1 = k OBVIOUS
  <2>2. f[k] \in V /\ (step[f[k]] = f[k] \/ rank[f[k]] + k <= N) BY <1>2, <2>1
  <2>3. f[k + 1] = step[f[k]]
    <3>1. f[(k + 1) - 1] \in V => f[k + 1] = step[f[(k + 1) - 1]] BY <1>0, <2>1
    <3> QED BY <3>1, <2>1, <2>2
  <2>4. f[k + 1] \in V BY <1>0, <2>2, <2>3
  <2>5. CASE step[f[k]] = f[k] BY <2>2, <2>3, <2>4, <2>5
  <2>6. CASE step[f[k]] # f[k]
    <3>1. rank[f[k + 1]] < rank[f[k]] BY <1>0, <2>2, <2>3, <2>6
    <3>2. PICK a, b \in 0..N : a = rank[f[k]] /\ b = rank[f[k + 1]] BY <1>0, <2>2, <2>4
    <3>3. a + k <= N BY <2>2, <2>6, <3>2
    <3>4. b + (k + 1) <= N BY <3>1, <3>2, <3>3
    <3> QED BY <2>4, <3>2, <3>4
  <2> QED BY <2>5, <2>6
<1> HIDE DEF T
<1>3. Nat \subseteq T BY <1>1, <1>2, NatInductionSet
<1>4. f[N] \in V /\ (step[f[N]] = f[N] \/ rank[f[N]] + N <= N)
  <2>1. N \in T BY <1>3
  <2> QED BY <2>1 DEF T
<1>5. CASE step[f[N]] # f[N]
  <2>1. PICK a \in 0..N : a = rank[f[N]] BY <1>0, <1>4
  <2>2. a = 0 BY <1>4, <1>5, <2>1
  <2>3. step[f[N]] \in V BY <1>0, <1>4
  <2>4. PICK b \in 0..N : b = rank[step[f[N]]] BY <1>0, <2>3
  <2>5. b < a BY <1>0, <1>4, <1>5, <2>1, <2>4
  <2> QED BY <2>2, <2>5
<1> QED BY <1>4, <1>5

=============================================================================
