--------------------------- MODULE WaveletTreeProofs --------------------------
(***************************************************************************)
(* The wavelet octree, for every number of axes and every height: its      *)
(* queries are those of an array of cells.                                 *)
(*                                                                         *)
(* First the Haar transforms: the lifted one, the parallel one and the     *)
(* single-child one are the same linear map, and forward and backward undo *)
(* each other where no division rounds.  Then the tree: the coefficients   *)
(* of every node carry the averages of the array over its cells            *)
(* (TreeSound), which each operation keeps.                                *)
(***************************************************************************)
EXTENDS MapsProofs, WaveletTree

-----------------------------------------------------------------------------
(* Sums over the coefficients                                              *)

LEMMA CoefficientsAre ==
  /\ Dim \in Nat \ {0} /\ Exp2(Dim) \in Nat \ {0} /\ Dim \in 0..PowerLimit
  /\ \A n \in 0..Dim : Exp2(n) \in Nat \ {0} /\ n \in 0..PowerLimit
  /\ 0 \in Coefficient /\ Coefficient \subseteq Nat
<1>1. Dim \in Nat \ {0} /\ MaxHeight \in Nat BY IndexAssumption
<1>2. Dim <= PowerLimit /\ PowerLimit \in Nat BY <1>1, LimitIs
<1>3. \A n \in 0..Dim : n \in 0..PowerLimit BY <1>1, <1>2
<1>4. Dim \in 0..Dim BY <1>1
<1>5. Exp2(Dim) \in Nat \ {0} BY <1>3, <1>4, PowersAre
<1>6. PICK e \in Nat \ {0} : e = Exp2(Dim) BY <1>5
<1>7. 0 \in Coefficient /\ Coefficient \subseteq Nat BY <1>6 DEF Coefficient
<1> QED BY <1>1, <1>3, <1>4, <1>5, <1>7, PowersAre

LEMMA SumIs ==
  ASSUME NEW f \in [Coefficient -> Int]
  PROVE  \E s \in [0..Exp2(Dim) -> Int] :
           /\ SumOver(f) = s[Exp2(Dim)]
           /\ s[0] = 0 /\ \A n \in Coefficient : s[n + 1] = s[n] + f[n]
<1>1. PICK N \in Nat \ {0} : N = Exp2(Dim) BY CoefficientsAre
<1>2. Coefficient = 0..N - 1 BY <1>1 DEF Coefficient
<1> DEFINE round == [k \in 1..N |-> [v \in Int |-> v + f[k - 1]]]
           s == CHOOSE s : s = [n \in 0..N |-> IF n = 0 THEN 0 ELSE s[n - 1] + f[n - 1]]
<1>3. round \in [1..N -> [Int -> Int]]
  <2>1. ASSUME NEW k \in 1..N PROVE f[k - 1] \in Int
    <3>1. k - 1 \in Coefficient BY <1>2
    <3> QED BY <3>1
  <2> QED BY <2>1
<1>4. CanLoop(N, Int, 0, round) BY <1>3 DEF CanLoop
<1>5. PICK g \in [0..N -> Int] : g = [k \in 0..N |-> IF k = 0 THEN 0 ELSE round[k][g[k - 1]]]
  <2> HIDE DEF round
  <2>1. PICK M, X, w, r : M = N /\ X = Int /\ w = 0 /\ r = round OBVIOUS
  <2>2. CanLoop(M, X, w, r) BY <1>4, <2>1
  <2>3. \E g \in [0..M -> X] : g = [k \in 0..M |-> IF k = 0 THEN w ELSE r[k][g[k - 1]]]
    BY <2>2, LoopExists
  <2> QED BY <2>1, <2>3
<1>6. ASSUME NEW k \in 0..N
      PROVE  (IF k = 0 THEN 0 ELSE round[k][g[k - 1]]) = (IF k = 0 THEN 0 ELSE g[k - 1] + f[k - 1])
  <2>1. CASE k = 0 BY <2>1
  <2>2. CASE k # 0
    <3>1. k \in 1..N /\ k - 1 \in 0..N BY <2>2
    <3>2. g[k - 1] \in Int
      <4> HIDE DEF round
      <4> QED BY <3>1
    <3> QED BY <2>2, <3>1, <3>2
  <2> QED BY <2>1, <2>2
<1> HIDE DEF round
<1>7. g = [n \in 0..N |-> IF n = 0 THEN 0 ELSE g[n - 1] + f[n - 1]]
  <2>1. [k \in 0..N |-> IF k = 0 THEN 0 ELSE round[k][g[k - 1]]] =
          [n \in 0..N |-> IF n = 0 THEN 0 ELSE g[n - 1] + f[n - 1]]
    BY <1>6, Zenon
  <2> QED BY <1>5, <2>1, Zenon
<1>8. s = [n \in 0..N |-> IF n = 0 THEN 0 ELSE s[n - 1] + f[n - 1]] BY <1>7, Zenon
<1>9. SumOver(f) = s[N] BY <1>1, Zenon DEF SumOver
<1> HIDE DEF s
<1>10. PICK t : t = s OBVIOUS
<1>11. t = [n \in 0..N |-> IF n = 0 THEN 0 ELSE t[n - 1] + f[n - 1]] BY <1>8, <1>10, Zenon
<1>12. t[0] = 0 BY <1>11
<1>13. ASSUME NEW n \in Coefficient PROVE t[n + 1] = t[n] + f[n]
  <2>1. n + 1 \in 0..N /\ n + 1 # 0 /\ (n + 1) - 1 = n BY <1>2
  <2> QED BY <1>11, <2>1
<1> DEFINE S == {n \in Nat : n <= N => t[n] \in Int}
<1>14. 0 \in S BY <1>12
<1>15. ASSUME NEW n \in Nat, n \in S PROVE n + 1 \in S
  <2> SUFFICES ASSUME n + 1 <= N PROVE t[n + 1] \in Int OBVIOUS
  <2>1. n \in Coefficient /\ n <= N BY <1>2
  <2>2. f[n] \in Int /\ t[n] \in Int BY <1>15, <2>1
  <2> QED BY <1>13, <2>1, <2>2
<1> HIDE DEF S
<1>16. Nat \subseteq S BY <1>14, <1>15, NatInductionSet
<1>17. \A n \in 0..N : t[n] \in Int BY <1>16 DEF S
<1>18. t \in [0..N -> Int] BY <1>11, <1>17
<1> QED BY <1>1, <1>9, <1>10, <1>12, <1>13, <1>18

LEMMA SumIsInt == ASSUME NEW f \in [Coefficient -> Int] PROVE SumOver(f) \in Int
<1>1. PICK N \in Nat \ {0} : N = Exp2(Dim) BY CoefficientsAre
<1>2. PICK s \in [0..N -> Int] : SumOver(f) = s[N] BY <1>1, SumIs
<1>3. N \in 0..N OBVIOUS
<1> QED BY <1>2, <1>3

\* Sums are linear.
LEMMA SumsAdd ==
  ASSUME NEW f \in [Coefficient -> Int], NEW g \in [Coefficient -> Int],
         NEW h \in [Coefficient -> Int], NEW k \in Int,
         \A i \in Coefficient : f[i] = g[i] + k * h[i]
  PROVE  /\ SumOver(f) \in Int /\ SumOver(g) \in Int /\ SumOver(h) \in Int
         /\ SumOver(f) = SumOver(g) + k * SumOver(h)
<1>1. PICK N \in Nat \ {0} : N = Exp2(Dim) BY CoefficientsAre
<1>2. Coefficient = 0..N - 1 BY <1>1 DEF Coefficient
<1>3. PICK s \in [0..N -> Int] : SumOver(f) = s[N] /\ s[0] = 0
                                  /\ \A n \in Coefficient : s[n + 1] = s[n] + f[n]
  BY <1>1, SumIs
<1>4. PICK t \in [0..N -> Int] : SumOver(g) = t[N] /\ t[0] = 0
                                  /\ \A n \in Coefficient : t[n + 1] = t[n] + g[n]
  BY <1>1, SumIs
<1>5. PICK u \in [0..N -> Int] : SumOver(h) = u[N] /\ u[0] = 0
                                  /\ \A n \in Coefficient : u[n + 1] = u[n] + h[n]
  BY <1>1, SumIs
<1> DEFINE S == {n \in Nat : n <= N => s[n] = t[n] + k * u[n]}
<1>6. 0 \in S BY <1>3, <1>4, <1>5
<1>7. ASSUME NEW n \in Nat, n \in S PROVE n + 1 \in S
  <2> SUFFICES ASSUME n + 1 <= N PROVE s[n + 1] = t[n + 1] + k * u[n + 1] OBVIOUS
  <2>1. n \in Coefficient /\ n <= N /\ n \in 0..N BY <1>2
  <2>2. s[n] = t[n] + k * u[n] BY <1>7, <2>1
  <2>3. s[n + 1] = s[n] + f[n] /\ t[n + 1] = t[n] + g[n] /\ u[n + 1] = u[n] + h[n]
    BY <1>3, <1>4, <1>5, <2>1
  <2>4. f[n] = g[n] + k * h[n] BY <2>1
  <2>5. PICK a \in Int, b \in Int, c \in Int, d \in Int :
          a = t[n] /\ b = u[n] /\ c = g[n] /\ d = h[n]
    BY <2>1
  <2>6. PICK x \in Int, y \in Int : x = k * b /\ y = k * d OBVIOUS
  <2>7. k * (b + d) = x + y BY <2>6
  <2>8. s[n + 1] = (a + x) + (c + y) BY <2>2, <2>3, <2>4, <2>5, <2>6
  <2>9. t[n + 1] + k * u[n + 1] = (a + c) + (x + y) BY <2>3, <2>5, <2>7
  <2>10. (a + x) + (c + y) = (a + c) + (x + y) OBVIOUS
  <2> QED BY <2>8, <2>9, <2>10, Zenon
<1> HIDE DEF S
<1>8. Nat \subseteq S BY <1>6, <1>7, NatInductionSet
<1>9. N \in 0..N OBVIOUS
<1>10. s[N] = t[N] + k * u[N] BY <1>8 DEF S
<1> QED BY <1>3, <1>4, <1>5, <1>9, <1>10

LEMMA SumOfZeros ==
  ASSUME NEW f \in [Coefficient -> Int], \A i \in Coefficient : f[i] = 0 PROVE SumOver(f) = 0
<1>1. \A i \in Coefficient : f[i] = f[i] + 1 * f[i] OBVIOUS
<1>2. SumOver(f) \in Int /\ SumOver(f) = SumOver(f) + 1 * SumOver(f) BY <1>1, SumsAdd
<1> QED BY SMTT(30), <1>2

IsCombination(f, g, h, k) ==
  /\ f \in [Coefficient -> Int] /\ g \in [Coefficient -> Int] /\ h \in [Coefficient -> Int]
  /\ k \in Int /\ \A i \in Coefficient : f[i] = g[i] + k * h[i]

LEMMA SumOfCombination ==
  ASSUME NEW f, NEW g, NEW h, NEW k, IsCombination(f, g, h, k)
  PROVE  SumOver(f) = SumOver(g) + k * SumOver(h)
<1>1. /\ f \in [Coefficient -> Int] /\ g \in [Coefficient -> Int] /\ h \in [Coefficient -> Int]
      /\ k \in Int /\ \A i \in Coefficient : f[i] = g[i] + k * h[i]
  BY DEF IsCombination
<1> QED BY <1>1, SumsAdd

LEMMA SumScales ==
  ASSUME NEW f \in [Coefficient -> Int], NEW h \in [Coefficient -> Int], NEW k \in Int,
         \A i \in Coefficient : f[i] = k * h[i]
  PROVE  SumOver(f) = k * SumOver(h)
<1>1. PICK o \in [Coefficient -> Int] : \A i \in Coefficient : o[i] = 0
  <2>1. [i \in Coefficient |-> 0] \in [Coefficient -> Int] OBVIOUS
  <2> QED BY <2>1
<1>2. \A i \in Coefficient : f[i] = o[i] + k * h[i]
  <2> TAKE i \in Coefficient
  <2>1. PICK d \in Int : d = h[i] OBVIOUS
  <2>2. PICK e \in Int : e = k * d OBVIOUS
  <2> QED BY <1>1, <2>1, <2>2
<1>3. SumOver(f) = SumOver(o) + k * SumOver(h) BY <1>2, SumsAdd
<1>4. PICK x \in Int : x = SumOver(h) BY SumIsInt
<1>5. k * x \in Int OBVIOUS
<1> QED BY <1>1, <1>3, <1>4, <1>5, SumOfZeros

LEMMA SumOfSingle ==
  ASSUME NEW f \in [Coefficient -> Int], NEW j \in Coefficient,
         \A i \in Coefficient \ {j} : f[i] = 0
  PROVE  SumOver(f) = f[j]
<1>1. PICK N \in Nat \ {0} : N = Exp2(Dim) BY CoefficientsAre
<1>2. Coefficient = 0..N - 1 BY <1>1 DEF Coefficient
<1>3. PICK s \in [0..N -> Int] : SumOver(f) = s[N] /\ s[0] = 0
                                  /\ \A n \in Coefficient : s[n + 1] = s[n] + f[n]
  BY <1>1, SumIs
<1> DEFINE S == {n \in Nat : n <= N => s[n] = IF j < n THEN f[j] ELSE 0}
<1>4. 0 \in S BY <1>2, <1>3
<1>5. ASSUME NEW n \in Nat, n \in S PROVE n + 1 \in S
  <2> SUFFICES ASSUME n + 1 <= N PROVE s[n + 1] = IF j < n + 1 THEN f[j] ELSE 0 OBVIOUS
  <2>1. n \in Coefficient /\ n <= N /\ j \in Nat BY <1>2
  <2>2. s[n] = IF j < n THEN f[j] ELSE 0 BY <1>5, <2>1
  <2>3. s[n + 1] = s[n] + f[n] /\ f[n] \in Int /\ f[j] \in Int BY <1>3, <2>1
  <2>4. CASE n = j BY <2>1, <2>2, <2>3, <2>4
  <2>5. CASE n # j
    <3>1. f[n] = 0 BY <2>1, <2>5
    <3> QED BY <2>1, <2>2, <2>3, <2>5, <3>1
  <2> QED BY <2>4, <2>5
<1> HIDE DEF S
<1>6. Nat \subseteq S BY <1>4, <1>5, NatInductionSet
<1>7. s[N] = IF j < N THEN f[j] ELSE 0 BY <1>6 DEF S
<1> QED BY <1>2, <1>3, <1>7

-----------------------------------------------------------------------------
(* Coefficients and their axes                                             *)

LEMMA BitsOfCoefficients ==
  /\ \A i \in Coefficient : /\ Bits(i) \subseteq 0..Dim - 1 /\ IsFiniteSet(Bits(i))
                            /\ \A a \in 0..Dim - 1 : a \in Bits(i) <=> IsBitSet(i, a)
  /\ \A i, j \in Coefficient : Bits(i) = Bits(j) => i = j
<1>1. ASSUME NEW i \in Coefficient
      PROVE  /\ Bits(i) \subseteq 0..Dim - 1 /\ IsFiniteSet(Bits(i))
             /\ \A a \in 0..Dim - 1 : a \in Bits(i) <=> IsBitSet(i, a)
  <2>1. Bits(i) \subseteq 0..Dim - 1 BY DEF Bits
  <2>2. IsFiniteSet(0..Dim - 1) BY CoefficientsAre, FS_Interval
  <2>3. \A a \in 0..Dim - 1 : a \in Bits(i) <=> IsBitSet(i, a) BY DEF Bits
  <2> QED BY <2>1, <2>2, <2>3, FS_Subset
<1>2. ASSUME NEW i \in Coefficient, NEW j \in Coefficient, Bits(i) = Bits(j) PROVE i = j
  <2>1. SameBits(i, j, 0, Dim - 1)
    <3> SUFFICES ASSUME NEW a \in 0..Dim - 1 PROVE IsBitSet(i, a) = IsBitSet(j, a) BY DEF SameBits
    <3>1. IsBitSet(i, a) <=> IsBitSet(j, a) BY <1>1, <1>2
    <3>2. IsBitSet(i, a) \in BOOLEAN /\ IsBitSet(j, a) \in BOOLEAN BY DEF IsBitSet
    <3> QED BY <3>1, <3>2
  <2>2. i \in 0..Exp2(Dim) - 1 /\ j \in 0..Exp2(Dim) - 1 BY DEF Coefficient
  <2>3. Dim \in 0..PowerLimit BY CoefficientsAre
  <2> QED BY <2>1, <2>2, <2>3, NumbersAreBits
<1> QED BY <1>1, <1>2

\* To add a power of two where its bit is missing sets this bit and no other.
LEMMA BitAdded ==
  ASSUME NEW x \in Coefficient, NEW a \in 0..Dim - 1, ~IsBitSet(x, a)
  PROVE  x + Exp2(a) \in Coefficient /\ Bits(x + Exp2(a)) = Bits(x) \cup {a}
<1>1. PICK L \in Nat : L = PowerLimit BY PowersAre
<1>2. PICK D \in Nat : D = Dim /\ D <= L BY <1>1, CoefficientsAre
<1>3. PICK e \in Nat \ {0} : e = Exp2(a)
  <2>1. a \in 0..Dim BY <1>2
  <2> QED BY <2>1, CoefficientsAre
<1>4. Exp2(a + 1) = 2 * e
  <2>1. a \in 0..PowerLimit BY <1>1, <1>2
  <2> QED BY <1>3, <2>1, PowersAre
<1>5. x \in Nat BY CoefficientsAre
<1>6. PICK t \in Int, r \in 0..(e - 1) : x = e * t + r /\ x \div e = t BY <1>5, DivisionIs
<1>7. PICK h \in Int : h = x \div (2 * e) BY <1>5
<1>8. t = 2 * h
  <2>1. a + 1 <= PowerLimit /\ a \in Nat BY <1>1, <1>2
  <2>2. x \div Exp2(a) = 2 * (x \div Exp2(a + 1)) + IF IsBitSet(x, a) THEN 1 ELSE 0
    BY <1>5, <2>1, HalfAndBit
  <2> QED BY <1>3, <1>4, <1>6, <1>7, <2>2
<1>9. PICK y \in Nat : y = x + e BY <1>5
<1>10. y = e * (t + 1) + r
  <2>1. e * (t + 1) = e * t + e OBVIOUS
  <2> QED BY <1>6, <1>9, <2>1
<1>11. y \div e = t + 1
  <2>1. PICK u \in Int : u = t + 1 OBVIOUS
  <2>2. y = e * u + r BY <1>10, <2>1
  <2>3. (e * u + r) \div e = u BY QuotientIs
  <2> QED BY <2>1, <2>2, <2>3
<1>12. y \div (2 * e) = h
  <2>1. PICK m \in 0..(2 * e) - 1 : m = e + r OBVIOUS
  <2>2. y = (2 * e) * h + m
    <3>1. e * (2 * h) = (2 * e) * h OBVIOUS
    <3> QED BY <1>6, <1>8, <1>9, <2>1, <3>1
  <2>3. 2 * e \in Nat \ {0} OBVIOUS
  <2> QED BY <2>2, <2>3, QuotientIs
<1>13. IsBitSet(y, a)
  <2>1. (2 * h + 1) % 2 = 1 OBVIOUS
  <2> QED BY <1>3, <1>8, <1>11, <2>1 DEF IsBitSet
<1>14. ASSUME NEW k \in 0..Dim - 1, k < a PROVE IsBitSet(y, k) = IsBitSet(x, k)
  <2>1. PICK j \in Nat : j = a - k - 1 BY <1>14
  <2>2. k + (j + 1) = a /\ k \in Nat /\ j + 1 \in Nat /\ k + (j + 1) <= PowerLimit
        /\ k \in 0..PowerLimit /\ j \in 0..PowerLimit
    BY <1>1, <1>2, <2>1
  <2>3. PICK f \in Nat \ {0} : f = Exp2(k) BY <2>2, PowersAre
  <2>4. PICK g \in Nat \ {0} : g = Exp2(j) /\ Exp2(j + 1) = 2 * g BY <2>2, PowersAre
  <2>5. e = f * (2 * g)
    <3>1. PICK p \in Nat : p = j + 1 OBVIOUS
    <3>2. Exp2(k + p) = Exp2(k) * Exp2(p) BY <2>2, <3>1, PowersMultiply
    <3> QED BY <1>3, <2>2, <2>3, <2>4, <3>1, <3>2
  <2>6. PICK u \in Int, v \in 0..(f - 1) : x = f * u + v /\ x \div f = u BY <1>5, DivisionIs
  <2>7. f * (u + 2 * g) = f * u + f * (2 * g) OBVIOUS
  <2>8. y = f * (u + 2 * g) + v BY <1>9, <2>5, <2>6, <2>7
  <2>9. y \div f = u + 2 * g BY <2>8, QuotientIs
  <2>10. (u + 2 * g) % 2 = u % 2 OBVIOUS
  <2> QED BY <2>3, <2>6, <2>9, <2>10 DEF IsBitSet
<1>15. ASSUME NEW k \in 0..Dim - 1, a < k PROVE IsBitSet(y, k) = IsBitSet(x, k)
  <2>1. PICK j \in Nat : j = k - (a + 1) BY <1>15
  <2>2. (a + 1) + j = k /\ a + 1 \in Nat /\ (a + 1) + j <= PowerLimit /\ j \in 0..PowerLimit
    BY <1>1, <1>2, <2>1
  <2>3. IsBitSet(y \div Exp2(a + 1), j) = IsBitSet(y, (a + 1) + j) BY <2>2, BitOfQuotient
  <2>4. IsBitSet(x \div Exp2(a + 1), j) = IsBitSet(x, (a + 1) + j) BY <1>5, <2>2, BitOfQuotient
  <2> QED BY <1>4, <1>7, <1>12, <2>2, <2>3, <2>4
<1>16. y \in Coefficient
  <2>1. PICK j \in Nat : j = D - (a + 1) BY <1>2
  <2>2. (a + 1) + j = D /\ a + 1 \in Nat /\ (a + 1) + j <= PowerLimit /\ j \in 0..PowerLimit
    BY <1>1, <1>2, <2>1
  <2>3. PICK g \in Nat \ {0} : g = Exp2(j) BY <2>2, PowersAre
  <2>4. Exp2(D) = (2 * e) * g BY <1>4, <2>2, <2>3, PowersMultiply
  <2>5. PICK w \in Nat \ {0} : w = 2 * e OBVIOUS
  <2>6. PICK n \in Int : n = w * g OBVIOUS
  <2>7. x \in 0..n - 1 BY <1>2, <2>4, <2>5, <2>6 DEF Coefficient
  <2>8. h < g BY <1>5, <1>7, <2>5, <2>6, <2>7, QuotientsKeepOrder
  <2>9. h * w + w <= g * w /\ h * w \in Int /\ g * w \in Int BY <2>8, ProductOrder
  <2>10. e * t = h * w BY <1>8, <2>5
  <2>11. g * w = n BY <2>6
  <2>12. y < n BY <1>6, <1>9, <2>5, <2>9, <2>10, <2>11
  <2> QED BY <1>2, <1>9, <2>4, <2>5, <2>6, <2>12 DEF Coefficient
<1>17. ASSUME NEW k \in 0..Dim - 1 PROVE k \in Bits(y) <=> k \in Bits(x) \cup {a}
  <2>1. k \in Bits(y) <=> IsBitSet(y, k) BY <1>16, BitsOfCoefficients
  <2>2. k \in Bits(x) <=> IsBitSet(x, k) BY BitsOfCoefficients
  <2>3. CASE k = a BY <1>13, <2>1, <2>3
  <2>4. CASE k # a
    <3>1. IsBitSet(y, k) = IsBitSet(x, k)
      <4>1. k < a \/ a < k BY <2>4
      <4> QED BY <1>14, <1>15, <4>1
    <3> QED BY <2>1, <2>2, <2>4, <3>1
  <2> QED BY <2>3, <2>4
<1>18. Bits(y) \subseteq 0..Dim - 1 /\ Bits(x) \subseteq 0..Dim - 1 BY <1>16, BitsOfCoefficients
<1>19. Bits(y) = Bits(x) \cup {a} BY <1>17, <1>18
<1> QED BY <1>3, <1>9, <1>16, <1>19

LEMMA OnAndOff ==
  ASSUME NEW i \in Coefficient, NEW a \in 0..Dim - 1
  PROVE  /\ On(i, a) \in Coefficient /\ Bits(On(i, a)) = Bits(i) \cup {a}
         /\ Off(i, a) \in Coefficient /\ Bits(Off(i, a)) = Bits(i) \ {a}
         /\ a \in Bits(i) => On(i, a) = i
         /\ a \notin Bits(i) => Off(i, a) = i
<1>0. a \in Bits(i) <=> IsBitSet(i, a) BY BitsOfCoefficients
<1>1. CASE ~IsBitSet(i, a)
  <2>1. On(i, a) = i + Exp2(a) /\ Off(i, a) = i BY <1>1 DEF On, Off
  <2> QED BY <1>0, <1>1, <2>1, BitAdded
<1>2. CASE IsBitSet(i, a)
  <2>1. On(i, a) = i /\ Off(i, a) = i - Exp2(a) BY <1>2 DEF On, Off
  <2>2. PICK e \in Nat \ {0} : e = Exp2(a)
    <3>1. a \in 0..Dim BY CoefficientsAre
    <3> QED BY <3>1, CoefficientsAre
  <2>3. i \in Nat BY CoefficientsAre
  <2>4. PICK t \in Int, r \in 0..(e - 1) : i = e * t + r /\ i \div e = t BY <2>3, DivisionIs
  <2>5. t % 2 = 1 BY <1>2, <2>2, <2>4 DEF IsBitSet
  <2>6. t >= 1
    <3>1. 0 \div e = 0
      <4>1. (e * 0 + 0) \div e = 0 BY QuotientIs
      <4> QED BY <4>1
    <3>2. 0 <= t BY <2>3, <2>4, <3>1, QuotientsKeepOrder
    <3> QED BY <2>5, <3>2
  <2>7. PICK x \in Int : x = i - e BY <2>3
  <2>8. x = e * (t - 1) + r /\ x \in Nat
    <3>1. e * (t - 1) = e * t - e OBVIOUS
    <3>2. 0 * e <= (t - 1) * e BY <2>6, ProductOrder
    <3>3. (t - 1) * e = e * (t - 1) /\ 0 * e = 0 OBVIOUS
    <3>4. e * (t - 1) \in Int OBVIOUS
    <3> QED BY <2>4, <2>7, <3>1, <3>2, <3>3, <3>4
  <2>9. x \div e = t - 1 BY SMTT(30), <2>8, QuotientIs
  <2>10. ~IsBitSet(x, a)
    <3>1. (t - 1) % 2 = 0 BY <2>5
    <3> QED BY <2>2, <2>9, <3>1 DEF IsBitSet
  <2>11. x \in Coefficient
    <3>1. PICK N \in Nat \ {0} : N = Exp2(Dim) BY CoefficientsAre
    <3> QED BY <2>7, <2>8, <3>1 DEF Coefficient
  <2>12. x + Exp2(a) = i BY <2>2, <2>3, <2>7
  <2>13. Bits(i) = Bits(x) \cup {a} BY <2>10, <2>11, <2>12, BitAdded
  <2>14. a \notin Bits(x) BY <2>10, <2>11, BitsOfCoefficients
  <2> QED BY <1>0, <1>2, <2>1, <2>2, <2>7, <2>11, <2>13, <2>14
<1> QED BY <1>1, <1>2

-----------------------------------------------------------------------------
(* Arrays of which some axes are transformed                               *)

Parity(S) == IF Cardinality(S) % 2 = 1 THEN -1 ELSE 1
Weight(S) == Exp2(Cardinality(S))
SomeAxes == SUBSET (0..Dim - 1)

LEMMA ParityIs ==
  /\ \A S \in SomeAxes : /\ IsFiniteSet(S) /\ Cardinality(S) \in 0..Dim
                         /\ Parity(S) \in {-1, 1} /\ Weight(S) \in Nat \ {0}
  /\ \A S \in SomeAxes, a \in 0..Dim - 1 : a \notin S =>
       /\ S \cup {a} \in SomeAxes /\ Cardinality(S \cup {a}) = Cardinality(S) + 1
       /\ Parity(S \cup {a}) = -Parity(S) /\ Weight(S \cup {a}) = 2 * Weight(S)
  /\ Cardinality({}) = 0 /\ Parity({}) = 1 /\ Weight({}) = 1
  /\ Cardinality(0..Dim - 1) = Dim
<1>1. IsFiniteSet(0..Dim - 1) /\ Cardinality(0..Dim - 1) = Dim
  <2>1. PICK d \in Nat \ {0} : d = Dim BY CoefficientsAre
  <2>2. PICK o \in Int, l \in Int : o = 0 /\ l = d - 1 OBVIOUS
  <2>3. IsFiniteSet(o..l) /\ Cardinality(o..l) = IF o > l THEN 0 ELSE l - o + 1 BY FS_Interval
  <2> QED BY <2>1, <2>2, <2>3
<1>2. ASSUME NEW S \in SomeAxes
      PROVE  /\ IsFiniteSet(S) /\ Cardinality(S) \in 0..Dim
             /\ Parity(S) \in {-1, 1} /\ Weight(S) \in Nat \ {0}
  <2>1. S \subseteq 0..Dim - 1 BY DEF SomeAxes
  <2>2. IsFiniteSet(S) /\ Cardinality(S) <= Cardinality(0..Dim - 1) BY <1>1, <2>1, FS_Subset
  <2>3. Cardinality(S) \in Nat BY <2>2, FS_CardinalityType
  <2>4. Cardinality(S) \in 0..Dim BY <1>1, <2>2, <2>3, CoefficientsAre
  <2> QED BY <2>2, <2>4, CoefficientsAre DEF Parity, Weight
<1>3. ASSUME NEW S \in SomeAxes, NEW a \in 0..Dim - 1, a \notin S
      PROVE  /\ S \cup {a} \in SomeAxes /\ Cardinality(S \cup {a}) = Cardinality(S) + 1
             /\ Parity(S \cup {a}) = -Parity(S) /\ Weight(S \cup {a}) = 2 * Weight(S)
  <2>1. S \cup {a} \in SomeAxes BY DEF SomeAxes
  <2>2. Cardinality(S \cup {a}) = Cardinality(S) + 1 BY <1>2, <1>3, FS_AddElement
  <2>3. PICK n \in Nat : n = Cardinality(S) /\ n \in 0..Dim BY <1>2
  <2>4. (n + 1) % 2 = 1 <=> ~(n % 2 = 1) OBVIOUS
  <2>5. Parity(S \cup {a}) = -Parity(S) BY <2>2, <2>3, <2>4 DEF Parity
  <2>6. Exp2(n + 1) = 2 * Exp2(n) BY <2>3, CoefficientsAre, PowersAre
  <2> QED BY <2>1, <2>2, <2>3, <2>5, <2>6 DEF Weight
<1>4. Cardinality({}) = 0 BY FS_EmptySet
<1>5. Parity({}) = 1 /\ Weight({}) = 1 BY <1>4, PowersAre DEF Parity, Weight
<1> QED BY <1>1, <1>2, <1>3, <1>4, <1>5

\* Of coefficients q, each of them weighted, transformed back along the axes in A.
BackTerm(q, A, i) ==
  [p \in Coefficient |->
     IF Bits(p) \ A = Bits(i) \ A
     THEN Parity((Bits(p) \cap A) \ Bits(i)) * (q[p] * Weight(Bits(p) \ A)) ELSE 0]
BackTo(q, A) == [i \in Coefficient |-> SumOver(BackTerm(q, A, i))]

LEMMA BackTermIs ==
  ASSUME NEW q \in [Coefficient -> Int], NEW A \in SomeAxes, NEW i \in Coefficient
  PROVE  BackTerm(q, A, i) \in [Coefficient -> Int]
<1> SUFFICES ASSUME NEW p \in Coefficient
             PROVE  Parity((Bits(p) \cap A) \ Bits(i)) * (q[p] * Weight(Bits(p) \ A)) \in Int
  BY DEF BackTerm
<1>1. Bits(p) \subseteq 0..Dim - 1 BY BitsOfCoefficients
<1>2. (Bits(p) \cap A) \ Bits(i) \in SomeAxes /\ Bits(p) \ A \in SomeAxes BY <1>1 DEF SomeAxes
<1>3. PICK s \in Int : s = Parity((Bits(p) \cap A) \ Bits(i)) BY <1>2, ParityIs
<1>4. PICK w \in Int : w = Weight(Bits(p) \ A) BY <1>2, ParityIs
<1> QED BY <1>3, <1>4

\* One more axis: what the lifted transform back does to a pair.
LEMMA BackAlong ==
  ASSUME NEW q \in [Coefficient -> Int], NEW A \in SomeAxes, NEW a \in (0..Dim - 1) \ A,
         NEW i \in Coefficient
  PROVE  \E m \in Int, x \in Int :
           /\ BackTo(q, A)[On(i, a)] = 2 * m /\ BackTo(q, A)[Off(i, a)] = x
           /\ BackTo(q, A \cup {a})[On(i, a)] = x + m
           /\ BackTo(q, A \cup {a})[Off(i, a)] = x - m
<1> DEFINE on == On(i, a)
           off == Off(i, a)
           I == Bits(i)
           P(p) == (Bits(p) \cap A) \ I
           H == [p \in Coefficient |->
                   IF Bits(p) \ A = (I \cup {a}) \ A
                   THEN Parity(P(p)) * (q[p] * Weight(Bits(p) \ (A \cup {a}))) ELSE 0]
<1>1. on \in Coefficient /\ Bits(on) = I \cup {a} /\ off \in Coefficient /\ Bits(off) = I \ {a}
  BY OnAndOff
<1>2. A \cup {a} \in SomeAxes /\ I \subseteq 0..Dim - 1 /\ A \subseteq 0..Dim - 1
  BY BitsOfCoefficients DEF SomeAxes
<1> HIDE DEF on, off, I
<1>3. ASSUME NEW p \in Coefficient
      PROVE  /\ H[p] \in Int
             /\ BackTerm(q, A, on)[p] = 2 * H[p]
             /\ BackTerm(q, A \cup {a}, on)[p] = BackTerm(q, A, off)[p] + H[p]
             /\ BackTerm(q, A \cup {a}, off)[p] = BackTerm(q, A, off)[p] - H[p]
  <2>1. PICK B : B = Bits(p) OBVIOUS
  <2>2. B \subseteq 0..Dim - 1 BY <2>1, BitsOfCoefficients
  <2>3. PICK T : T = (B \cap A) \ I OBVIOUS
  <2>4. /\ T \in SomeAxes /\ B \ A \in SomeAxes /\ B \ (A \cup {a}) \in SomeAxes
        /\ a \notin T /\ a \notin B \ (A \cup {a})
    BY <1>2, <2>2, <2>3 DEF SomeAxes
  <2>5. PICK s \in {-1, 1} : s = Parity(T) /\ Parity(T \cup {a}) = -s
    <3>1. Parity(T) \in {-1, 1} BY <2>4, ParityIs
    <3>2. Parity(T \cup {a}) = -Parity(T) BY <2>4, ParityIs
    <3> QED BY <3>1, <3>2
  <2>6. PICK w \in Nat \ {0} : w = Weight(B \ (A \cup {a})) BY <2>4, ParityIs
  <2>7. PICK y \in Int : y = q[p] * w OBVIOUS
  <2>8. (B \cap A) \ (I \cup {a}) = T /\ (B \cap A) \ (I \ {a}) = T BY <2>3
  <2>9. (B \cap (A \cup {a})) \ (I \cup {a}) = T BY <2>3
  <2>10. H[p] = IF B \ A = (I \cup {a}) \ A THEN s * y ELSE 0
    BY <2>1, <2>3, <2>5, <2>6, <2>7
  <2> HIDE DEF H
  <2>11. CASE a \in B
    <3>1. B \ A = (B \ (A \cup {a})) \cup {a} BY <2>11
    <3>2. Weight(B \ A) = 2 * w BY <2>4, <2>6, <3>1, ParityIs
    <3>3. q[p] * Weight(B \ A) = 2 * y
      <4>1. PICK z \in Int : z = q[p] OBVIOUS
      <4>2. z * (2 * w) = 2 * (z * w) OBVIOUS
      <4> QED BY <2>7, <3>2, <4>1, <4>2
    <3>4. (B \cap (A \cup {a})) \ (I \ {a}) = T \cup {a} BY <2>3, <2>11
    <3>5. ~(B \ A = (I \ {a}) \ A) BY <2>11
    <3>6. /\ B \ (A \cup {a}) = (I \cup {a}) \ (A \cup {a}) <=> B \ A = (I \cup {a}) \ A
          /\ B \ (A \cup {a}) = (I \ {a}) \ (A \cup {a}) <=> B \ A = (I \cup {a}) \ A
      BY <2>11
    <3>7. BackTerm(q, A, on)[p] = IF B \ A = (I \cup {a}) \ A THEN s * (2 * y) ELSE 0
      BY <1>1, <2>1, <2>5, <2>8, <3>3 DEF BackTerm
    <3>8. BackTerm(q, A, off)[p] = 0 BY <1>1, <2>1, <3>5 DEF BackTerm
    <3>9. BackTerm(q, A \cup {a}, on)[p] = IF B \ A = (I \cup {a}) \ A THEN s * y ELSE 0
      BY <1>1, <2>1, <2>5, <2>6, <2>7, <2>9, <3>6 DEF BackTerm
    <3>10. BackTerm(q, A \cup {a}, off)[p] = IF B \ A = (I \cup {a}) \ A THEN (-s) * y ELSE 0
      BY <1>1, <2>1, <2>5, <2>6, <2>7, <3>4, <3>6 DEF BackTerm
    <3>11. s * y \in Int /\ s * (2 * y) = 2 * (s * y) /\ (-s) * y = -(s * y) BY <2>5
    <3> QED BY <2>10, <3>7, <3>8, <3>9, <3>10, <3>11
  <2>12. CASE a \notin B
    <3>1. B \ A = B \ (A \cup {a}) BY <2>12
    <3>2. q[p] * Weight(B \ A) = y BY <2>6, <2>7, <3>1
    <3>3. (B \cap (A \cup {a})) \ (I \ {a}) = T BY <2>3, <2>12
    <3>4. ~(B \ A = (I \cup {a}) \ A) BY <2>12
    <3>5. /\ B \ (A \cup {a}) = (I \cup {a}) \ (A \cup {a}) <=> B \ A = (I \ {a}) \ A
          /\ B \ (A \cup {a}) = (I \ {a}) \ (A \cup {a}) <=> B \ A = (I \ {a}) \ A
      BY <2>12
    <3>6. BackTerm(q, A, on)[p] = 0 BY <1>1, <2>1, <3>4 DEF BackTerm
    <3>7. BackTerm(q, A, off)[p] = IF B \ A = (I \ {a}) \ A THEN s * y ELSE 0
      BY <1>1, <2>1, <2>5, <2>8, <3>2 DEF BackTerm
    <3>8. BackTerm(q, A \cup {a}, on)[p] = IF B \ A = (I \ {a}) \ A THEN s * y ELSE 0
      BY <1>1, <2>1, <2>5, <2>6, <2>7, <2>9, <3>5 DEF BackTerm
    <3>9. BackTerm(q, A \cup {a}, off)[p] = IF B \ A = (I \ {a}) \ A THEN s * y ELSE 0
      BY <1>1, <2>1, <2>5, <2>6, <2>7, <3>3, <3>5 DEF BackTerm
    <3>10. s * y \in Int BY <2>5
    <3> QED BY <2>10, <3>4, <3>6, <3>7, <3>8, <3>9, <3>10
  <2> QED BY <2>11, <2>12
<1>4. H \in [Coefficient -> Int]
  <2>1. \A p \in Coefficient : H[p] \in Int BY <1>3
  <2>2. H = [p \in Coefficient |-> H[p]] OBVIOUS
  <2> HIDE DEF H
  <2> QED BY <2>1, <2>2
<1> HIDE DEF H
<1>5. PICK g \in [Coefficient -> Int], h \in [Coefficient -> Int], u \in [Coefficient -> Int],
           v \in [Coefficient -> Int], r \in [Coefficient -> Int] :
        /\ g = BackTerm(q, A, on) /\ h = BackTerm(q, A, off) /\ r = H
        /\ u = BackTerm(q, A \cup {a}, on) /\ v = BackTerm(q, A \cup {a}, off)
  BY <1>1, <1>2, <1>4, BackTermIs
<1>a. \A p \in Coefficient : g[p] = 2 * r[p] /\ u[p] = h[p] + r[p] /\ v[p] = h[p] - r[p]
  BY <1>3, <1>5
<1>6. PICK m \in Int, x \in Int : m = SumOver(r) /\ x = SumOver(h)
  <2>1. SumOver(h) \in Int /\ SumOver(r) \in Int BY SumIsInt
  <2> QED BY <2>1
<1>7. SumOver(g) = 2 * m
  <2>1. PICK z \in [Coefficient -> Int] : z = [p \in Coefficient |-> 0]
    <3>1. [p \in Coefficient |-> 0] \in [Coefficient -> Int] OBVIOUS
    <3> QED BY <3>1
  <2>2. SumOver(z) = 0 BY <2>1, SumOfZeros
  <2>3. PICK k \in Int : k = 2 OBVIOUS
  <2>4. \A p \in Coefficient : g[p] = z[p] + k * r[p] BY <1>a, <2>1, <2>3
  <2>5. SumOver(g) = SumOver(z) + k * SumOver(r) BY SMTT(30), <2>4, SumsAdd
  <2> QED BY <1>6, <2>2, <2>3, <2>5
<1>8. SumOver(u) = x + m
  <2>1. PICK k \in Int : k = 1 OBVIOUS
  <2>2. \A p \in Coefficient : u[p] = h[p] + k * r[p]
    <3> TAKE p \in Coefficient
    <3>1. PICK b \in Int, c \in Int : b = h[p] /\ c = r[p] OBVIOUS
    <3>2. k * c = c BY <2>1
    <3>3. u[p] = b + c BY <1>a, <3>1
    <3> QED BY <3>1, <3>2, <3>3
  <2>3. SumOver(u) = SumOver(h) + k * SumOver(r) BY SMTT(30), <2>2, SumsAdd
  <2> QED BY <1>6, <2>1, <2>3
<1>9. SumOver(v) = x - m
  <2>1. PICK k \in Int : k = -1 OBVIOUS
  <2>2. \A p \in Coefficient : v[p] = h[p] + k * r[p]
    <3> TAKE p \in Coefficient
    <3>1. PICK b \in Int, c \in Int : b = h[p] /\ c = r[p] OBVIOUS
    <3>2. k * c = -c BY <2>1
    <3>3. v[p] = b - c BY <1>a, <3>1
    <3> QED BY <3>1, <3>2, <3>3
  <2>3. SumOver(v) = SumOver(h) + k * SumOver(r) BY <2>2, SumsAdd
  <2> QED BY <1>6, <2>1, <2>3
<1>10. /\ BackTo(q, A)[on] = SumOver(g) /\ BackTo(q, A)[off] = SumOver(h)
       /\ BackTo(q, A \cup {a})[on] = SumOver(u) /\ BackTo(q, A \cup {a})[off] = SumOver(v)
  BY <1>1, <1>5 DEF BackTo
<1> QED BY <1>6, <1>7, <1>8, <1>9, <1>10 DEF on, off

\* Of children that are 2^Dim times z, transformed forward along the axes in A.
Share(S) == Exp2(Dim - Cardinality(S))
ForeTerm(z, A, i) ==
  [c \in Coefficient |->
     IF Bits(c) \ A = Bits(i) \ A
     THEN Parity((Bits(i) \cap A) \ Bits(c)) * (z[c] * Share(A \ Bits(i))) ELSE 0]
ForeTo(z, A) == [i \in Coefficient |-> SumOver(ForeTerm(z, A, i))]

LEMMA ShareIs ==
  /\ \A S \in SomeAxes : Share(S) \in Nat \ {0}
  /\ \A S \in SomeAxes, a \in 0..Dim - 1 : a \notin S => Share(S) = 2 * Share(S \cup {a})
  /\ Share({}) = Exp2(Dim)
  /\ \A S \in SomeAxes : Share((0..Dim - 1) \ S) = Weight(S)
<1>1. ASSUME NEW S \in SomeAxes PROVE Share(S) \in Nat \ {0}
  <2>1. PICK n \in 0..Dim : n = Cardinality(S) BY ParityIs
  <2>2. Dim - n \in 0..Dim BY CoefficientsAre
  <2> QED BY <2>1, <2>2, CoefficientsAre DEF Share
<1>2. ASSUME NEW S \in SomeAxes, NEW a \in 0..Dim - 1, a \notin S
      PROVE  Share(S) = 2 * Share(S \cup {a})
  <2>1. PICK n \in 0..Dim : n = Cardinality(S) BY ParityIs
  <2>2. Cardinality(S \cup {a}) = n + 1 /\ S \cup {a} \in SomeAxes BY <1>2, <2>1, ParityIs
  <2>3. n + 1 \in 0..Dim BY <2>2, ParityIs
  <2>4. PICK k \in 0..Dim : k = Dim - (n + 1) BY <2>3, CoefficientsAre
  <2>5. Exp2(k + 1) = 2 * Exp2(k) BY CoefficientsAre, PowersAre
  <2>6. k + 1 = Dim - n BY <2>4, CoefficientsAre
  <2> QED BY <2>1, <2>2, <2>4, <2>5, <2>6 DEF Share
<1>3. Share({}) = Exp2(Dim)
  <2>1. Dim - 0 = Dim BY CoefficientsAre
  <2> QED BY <2>1, ParityIs DEF Share
<1>4. ASSUME NEW S \in SomeAxes PROVE Share((0..Dim - 1) \ S) = Weight(S)
  <2>1. PICK T \in SomeAxes : T = (0..Dim - 1) \ S BY DEF SomeAxes
  <2>2. T \cap S = {} /\ T \cup S = 0..Dim - 1 BY <2>1 DEF SomeAxes
  <2>3. IsFiniteSet(T) /\ IsFiniteSet(S) BY ParityIs
  <2>4. Cardinality(T \cup S) = Cardinality(T) + Cardinality(S) - Cardinality(T \cap S)
    BY <2>3, FS_Union
  <2>5. PICK m \in 0..Dim, n \in 0..Dim : m = Cardinality(T) /\ n = Cardinality(S) BY ParityIs
  <2>6. Dim = m + n - 0 BY <2>2, <2>4, <2>5, ParityIs
  <2>7. Dim - m = n BY <2>6
  <2> QED BY <2>1, <2>5, <2>7 DEF Share, Weight
<1> QED BY <1>1, <1>2, <1>3, <1>4

LEMMA ForeTermIs ==
  ASSUME NEW z \in [Coefficient -> Int], NEW A \in SomeAxes, NEW i \in Coefficient
  PROVE  ForeTerm(z, A, i) \in [Coefficient -> Int]
<1> SUFFICES ASSUME NEW c \in Coefficient
             PROVE  Parity((Bits(i) \cap A) \ Bits(c)) * (z[c] * Share(A \ Bits(i))) \in Int
  <2> DEFINE term(c) == Parity((Bits(i) \cap A) \ Bits(c)) * (z[c] * Share(A \ Bits(i)))
  <2>1. \A c \in Coefficient : term(c) \in Int OBVIOUS
  <2>2. ForeTerm(z, A, i) = [c \in Coefficient |-> IF Bits(c) \ A = Bits(i) \ A THEN term(c) ELSE 0]
    BY DEF ForeTerm
  <2> HIDE DEF term
  <2> QED BY <2>1, <2>2
<1>1. (Bits(i) \cap A) \ Bits(c) \in SomeAxes /\ A \ Bits(i) \in SomeAxes BY DEF SomeAxes
<1>2. PICK s \in Int : s = Parity((Bits(i) \cap A) \ Bits(c)) BY <1>1, ParityIs
<1>3. PICK w \in Int : w = Share(A \ Bits(i)) BY <1>1, ShareIs
<1> QED BY <1>2, <1>3

LEMMA ForeAlong ==
  ASSUME NEW z \in [Coefficient -> Int], NEW A \in SomeAxes, NEW a \in (0..Dim - 1) \ A,
         NEW i \in Coefficient
  PROVE  \E m \in Int, x \in Int, y \in Int :
           /\ ForeTo(z, A)[On(i, a)] = y /\ ForeTo(z, A)[Off(i, a)] = x
           /\ ForeTo(z, A \cup {a})[On(i, a)] = y - x
           /\ ForeTo(z, A \cup {a})[Off(i, a)] = m /\ x + y = 2 * m
<1> DEFINE on == On(i, a)
           off == Off(i, a)
           I == Bits(i)
<1>1. on \in Coefficient /\ Bits(on) = I \cup {a} /\ off \in Coefficient /\ Bits(off) = I \ {a}
  BY OnAndOff
<1>2. A \cup {a} \in SomeAxes /\ I \subseteq 0..Dim - 1 /\ A \subseteq 0..Dim - 1
  BY BitsOfCoefficients DEF SomeAxes
<1> HIDE DEF on, off, I
<1>3. PICK g \in [Coefficient -> Int], h \in [Coefficient -> Int], u \in [Coefficient -> Int],
           v \in [Coefficient -> Int] :
        /\ g = ForeTerm(z, A, on) /\ h = ForeTerm(z, A, off)
        /\ u = ForeTerm(z, A \cup {a}, on) /\ v = ForeTerm(z, A \cup {a}, off)
  BY <1>1, <1>2, ForeTermIs
<1>4. PICK S \in SomeAxes : S = A \ I /\ a \notin S BY <1>2 DEF SomeAxes
<1>5. PICK w \in Nat \ {0} : w = Share(S \cup {a}) /\ Share(S) = 2 * w
  <2>1. S \cup {a} \in SomeAxes BY <1>4 DEF SomeAxes
  <2>2. Share(S) = 2 * Share(S \cup {a}) BY <1>4, ShareIs
  <2> QED BY <2>1, <2>2, ShareIs
<1>6. /\ A \ (I \cup {a}) = S /\ A \ (I \ {a}) = S
      /\ (A \cup {a}) \ (I \cup {a}) = S /\ (A \cup {a}) \ (I \ {a}) = S \cup {a}
  BY <1>4
<1>7. ASSUME NEW c \in Coefficient PROVE u[c] = g[c] - h[c] /\ g[c] + h[c] = 2 * v[c]
  <2>1. PICK C : C = Bits(c) OBVIOUS
  <2>2. PICK U \in SomeAxes : U = (I \cap A) \ C /\ a \notin U BY <1>2 DEF SomeAxes
  <2>3. PICK s \in {-1, 1} : s = Parity(U) /\ Parity(U \cup {a}) = -s
    <3>1. Parity(U) \in {-1, 1} BY ParityIs
    <3>2. Parity(U \cup {a}) = -Parity(U) BY <2>2, ParityIs
    <3> QED BY <3>1, <3>2
  <2>4. PICK y \in Int : y = z[c] * w OBVIOUS
  <2>5. z[c] * (2 * w) = 2 * y
    <3>1. PICK k \in Int : k = z[c] OBVIOUS
    <3>2. k * (2 * w) = 2 * (k * w) OBVIOUS
    <3> QED BY <2>4, <3>1, <3>2
  <2>6. ((I \cup {a}) \cap A) \ C = U /\ ((I \ {a}) \cap A) \ C = U BY <2>2
  <2>7. ((I \ {a}) \cap (A \cup {a})) \ C = U BY <2>2
  <2>8. PICK same \in BOOLEAN : same <=> C \ (A \cup {a}) = I \ (A \cup {a}) OBVIOUS
  <2>9. /\ C \ (A \cup {a}) = (I \cup {a}) \ (A \cup {a}) <=> same
        /\ C \ (A \cup {a}) = (I \ {a}) \ (A \cup {a}) <=> same
    BY <2>8
  <2>10. s * y \in Int /\ s * (2 * y) = 2 * (s * y) /\ (-s) * (2 * y) = -(2 * (s * y)) BY <2>3
  <2>11. /\ g[c] = IF C \ A = (I \cup {a}) \ A
                   THEN Parity(((I \cup {a}) \cap A) \ C) * (z[c] * Share(A \ (I \cup {a}))) ELSE 0
         /\ h[c] = IF C \ A = (I \ {a}) \ A
                   THEN Parity(((I \ {a}) \cap A) \ C) * (z[c] * Share(A \ (I \ {a}))) ELSE 0
         /\ u[c] = IF C \ (A \cup {a}) = (I \cup {a}) \ (A \cup {a})
                   THEN Parity(((I \cup {a}) \cap (A \cup {a})) \ C)
                          * (z[c] * Share((A \cup {a}) \ (I \cup {a}))) ELSE 0
         /\ v[c] = IF C \ (A \cup {a}) = (I \ {a}) \ (A \cup {a})
                   THEN Parity(((I \ {a}) \cap (A \cup {a})) \ C)
                          * (z[c] * Share((A \cup {a}) \ (I \ {a}))) ELSE 0
    BY <1>1, <1>3, <2>1 DEF ForeTerm
  <2>12. g[c] = IF C \ A = (I \cup {a}) \ A THEN s * (2 * y) ELSE 0
    BY <1>5, <1>6, <2>3, <2>5, <2>6, <2>11, Zenon
  <2>13. h[c] = IF C \ A = (I \ {a}) \ A THEN s * (2 * y) ELSE 0
    BY <1>5, <1>6, <2>3, <2>5, <2>6, <2>11, Zenon
  <2>14. u[c] = IF same THEN Parity(((I \cup {a}) \cap (A \cup {a})) \ C) * (2 * y) ELSE 0
    BY <1>5, <1>6, <2>5, <2>9, <2>11, Zenon
  <2>15. v[c] = IF same THEN s * y ELSE 0
    BY <1>5, <1>6, <2>3, <2>4, <2>7, <2>9, <2>11, Zenon
  <2>16. CASE a \in C
    <3>1. C \ A = (I \cup {a}) \ A <=> same BY <2>8, <2>16
    <3>2. ~(C \ A = (I \ {a}) \ A) BY <2>16
    <3>3. ((I \cup {a}) \cap (A \cup {a})) \ C = U BY <2>2, <2>16
    <3>4. g[c] = (IF same THEN s * (2 * y) ELSE 0) /\ h[c] = 0 BY <2>12, <2>13, <3>1, <3>2
    <3>5. u[c] = IF same THEN s * (2 * y) ELSE 0 BY <2>3, <2>14, <3>3
    <3> QED BY <2>10, <2>15, <3>4, <3>5
  <2>17. CASE a \notin C
    <3>1. C \ A = (I \ {a}) \ A <=> same BY <2>8, <2>17
    <3>2. ~(C \ A = (I \cup {a}) \ A) BY <2>17
    <3>3. ((I \cup {a}) \cap (A \cup {a})) \ C = U \cup {a} BY <2>2, <2>17
    <3>4. h[c] = (IF same THEN s * (2 * y) ELSE 0) /\ g[c] = 0 BY <2>12, <2>13, <3>1, <3>2
    <3>5. u[c] = IF same THEN (-s) * (2 * y) ELSE 0 BY <2>3, <2>14, <3>3
    <3> QED BY <2>10, <2>15, <3>4, <3>5
  <2> QED BY <2>16, <2>17
<1>8. PICK x \in Int, y \in Int, m \in Int :
        x = SumOver(h) /\ y = SumOver(g) /\ m = SumOver(v)
  <2>1. SumOver(h) \in Int /\ SumOver(g) \in Int /\ SumOver(v) \in Int BY SumIsInt
  <2> QED BY <2>1
<1>9. SumOver(u) = y - x
  <2>1. PICK k \in Int : k = -1 OBVIOUS
  <2>2. \A c \in Coefficient : u[c] = g[c] + k * h[c]
    <3> TAKE c \in Coefficient
    <3>1. PICK b \in Int, d \in Int : b = g[c] /\ d = h[c] OBVIOUS
    <3>2. k * d = -d BY <2>1
    <3>3. u[c] = b - d BY <1>7, <3>1
    <3> QED BY <3>1, <3>2, <3>3
  <2>3. SumOver(u) = SumOver(g) + k * SumOver(h) BY SMTT(30), <2>2, SumsAdd
  <2> QED BY <1>8, <2>1, <2>3
<1>10. x + y = 2 * m
  <2>1. PICK k \in Int, j \in Int : k = 2 /\ j = 1 OBVIOUS
  <2>2. PICK n \in [Coefficient -> Int] : \A c \in Coefficient : n[c] = k * v[c]
    <3>1. [c \in Coefficient |-> k * v[c]] \in [Coefficient -> Int] OBVIOUS
    <3> QED BY <3>1
  <2>3. SumOver(n) = k * SumOver(v) BY <2>2, SumScales
  <2>4. \A c \in Coefficient : n[c] = g[c] + j * h[c]
    <3> TAKE c \in Coefficient
    <3>1. PICK b \in Int, d \in Int, e \in Int : b = g[c] /\ d = h[c] /\ e = v[c] OBVIOUS
    <3>2. k * e = 2 * e /\ j * d = d BY <2>1
    <3>3. b + d = 2 * e BY <1>7, <3>1
    <3> QED BY <2>2, <3>1, <3>2, <3>3
  <2>5. SumOver(n) = SumOver(g) + j * SumOver(h)
    <3>1. IsCombination(n, g, h, j) BY <2>4 DEF IsCombination
    <3> QED BY <3>1, SumOfCombination
  <2> QED BY <1>8, <2>1, <2>3, <2>5
<1>11. /\ ForeTo(z, A)[on] = SumOver(g) /\ ForeTo(z, A)[off] = SumOver(h)
       /\ ForeTo(z, A \cup {a})[on] = SumOver(u) /\ ForeTo(z, A \cup {a})[off] = SumOver(v)
  BY <1>1, <1>3 DEF ForeTo
<1> QED BY <1>8, <1>9, <1>10, <1>11 DEF on, off

\* Along none and along all axes.
LEMMA BackEnds ==
  ASSUME NEW q \in [Coefficient -> Int], NEW i \in Coefficient
  PROVE  /\ BackTo(q, {})[i] = q[i] * Weight(Bits(i))
         /\ BackTo(q, 0..Dim - 1)[i] = SumOver([p \in Coefficient |-> Sign(p, i) * q[p]])
<1>1. BackTo(q, {})[i] = q[i] * Weight(Bits(i))
  <2>1. PICK f \in [Coefficient -> Int] : f = BackTerm(q, {}, i)
    <3>1. {} \in SomeAxes BY DEF SomeAxes
    <3> QED BY <3>1, BackTermIs
  <2>2. ASSUME NEW p \in Coefficient
        PROVE  f[p] = IF p = i THEN q[p] * Weight(Bits(p)) ELSE 0
    <3>1. Bits(p) \ {} = Bits(p) /\ Bits(i) \ {} = Bits(i) /\ (Bits(p) \cap {}) \ Bits(i) = {} OBVIOUS
    <3>2. Bits(p) = Bits(i) <=> p = i BY BitsOfCoefficients
    <3>3. f[p] = IF p = i THEN Parity({}) * (q[p] * Weight(Bits(p))) ELSE 0
      BY <2>1, <3>1, <3>2 DEF BackTerm
    <3>4. PICK w \in Int : w = Weight(Bits(p))
      <4>1. Bits(p) \in SomeAxes BY BitsOfCoefficients DEF SomeAxes
      <4> QED BY <4>1, ParityIs
    <3>5. PICK y \in Int : y = q[p] * w OBVIOUS
    <3>6. Parity({}) * y = y BY ParityIs
    <3> QED BY <3>3, <3>4, <3>5, <3>6
  <2>3. \A p \in Coefficient \ {i} : f[p] = 0 BY <2>2
  <2>4. SumOver(f) = f[i] BY <2>3, SumOfSingle
  <2> QED BY <2>1, <2>2, <2>4 DEF BackTo
<1>2. BackTo(q, 0..Dim - 1)[i] = SumOver([p \in Coefficient |-> Sign(p, i) * q[p]])
  <2>1. PICK A : A = 0..Dim - 1 OBVIOUS
  <2>2. ASSUME NEW p \in Coefficient
        PROVE  (IF Bits(p) \ A = Bits(i) \ A
                THEN Parity((Bits(p) \cap A) \ Bits(i)) * (q[p] * Weight(Bits(p) \ A)) ELSE 0)
                 = Sign(p, i) * q[p]
    <3>1. Bits(p) \subseteq A /\ Bits(i) \subseteq A BY <2>1, BitsOfCoefficients
    <3>2. Bits(p) \ A = {} /\ Bits(i) \ A = {} /\ (Bits(p) \cap A) \ Bits(i) = Bits(p) \ Bits(i)
      BY <3>1
    <3>3. PICK y \in Int : y = q[p] OBVIOUS
    <3>4. y * Weight({}) = y BY ParityIs
    <3>5. Parity(Bits(p) \ Bits(i)) = Sign(p, i) BY DEF Parity, Sign
    <3> QED BY <3>2, <3>3, <3>4, <3>5, Zenon
  <2>3. BackTerm(q, A, i) = [p \in Coefficient |-> Sign(p, i) * q[p]]
    BY <2>2, Zenon DEF BackTerm
  <2> QED BY <2>1, <2>3 DEF BackTo
<1> QED BY <1>1, <1>2

LEMMA SignIs ==
  ASSUME NEW p \in Coefficient, NEW c \in Coefficient
  PROVE  Sign(p, c) \in {-1, 1} /\ Sign(p, c) = Parity(Bits(p) \ Bits(c))
BY DEF Parity, Sign

LEMMA ForeEnds ==
  ASSUME NEW z \in [Coefficient -> Int], NEW i \in Coefficient
  PROVE  /\ ForeTo(z, {})[i] = z[i] * Exp2(Dim)
         /\ ForeTo(z, 0..Dim - 1)[i] =
              Weight(Bits(i)) * SumOver([c \in Coefficient |-> Sign(i, c) * z[c]])
<1>1. ForeTo(z, {})[i] = z[i] * Exp2(Dim)
  <2>1. PICK f \in [Coefficient -> Int] : f = ForeTerm(z, {}, i)
    <3>1. {} \in SomeAxes BY DEF SomeAxes
    <3> QED BY <3>1, ForeTermIs
  <2>2. ASSUME NEW c \in Coefficient PROVE f[c] = IF c = i THEN z[c] * Exp2(Dim) ELSE 0
    <3>1. /\ Bits(c) \ {} = Bits(c) /\ Bits(i) \ {} = Bits(i) /\ (Bits(i) \cap {}) \ Bits(c) = {}
          /\ {} \ Bits(i) = {}
      OBVIOUS
    <3>2. Bits(c) = Bits(i) <=> c = i BY BitsOfCoefficients
    <3>3. f[c] = IF c = i THEN Parity({}) * (z[c] * Share({})) ELSE 0
      BY <2>1, <3>1, <3>2 DEF ForeTerm
    <3>4. PICK w \in Int : w = Exp2(Dim) BY CoefficientsAre
    <3>5. PICK y \in Int : y = z[c] * w OBVIOUS
    <3>6. Parity({}) * y = y BY ParityIs
    <3> QED BY <3>3, <3>4, <3>5, <3>6, ShareIs
  <2>3. \A c \in Coefficient \ {i} : f[c] = 0 BY <2>2
  <2>4. SumOver(f) = f[i] BY <2>3, SumOfSingle
  <2> QED BY <2>1, <2>2, <2>4 DEF ForeTo
<1>2. ForeTo(z, 0..Dim - 1)[i] =
        Weight(Bits(i)) * SumOver([c \in Coefficient |-> Sign(i, c) * z[c]])
  <2>1. PICK A \in SomeAxes : A = 0..Dim - 1 BY DEF SomeAxes
  <2>2. Bits(i) \in SomeAxes BY BitsOfCoefficients DEF SomeAxes
  <2>3. PICK w \in Int : w = Weight(Bits(i)) /\ w = Share(A \ Bits(i))
    BY <2>1, <2>2, ShareIs, ParityIs
  <2>4. PICK h \in [Coefficient -> Int] : h = [c \in Coefficient |-> Sign(i, c) * z[c]]
    <3>1. ASSUME NEW c \in Coefficient PROVE Sign(i, c) * z[c] \in Int
      <4>a. Sign(i, c) \in {-1, 1} BY SignIs
      <4>1. PICK s \in Int : s = Sign(i, c) BY <4>a
      <4> QED BY <4>1
    <3> QED BY <3>1
  <2>5. PICK f \in [Coefficient -> Int] : f = ForeTerm(z, A, i) BY ForeTermIs
  <2>6. ASSUME NEW c \in Coefficient PROVE f[c] = w * h[c]
    <3>1. Bits(c) \subseteq A /\ Bits(i) \subseteq A BY <2>1, BitsOfCoefficients
    <3>2. Bits(c) \ A = {} /\ Bits(i) \ A = {} /\ (Bits(i) \cap A) \ Bits(c) = Bits(i) \ Bits(c)
      BY <3>1
    <3>3. f[c] = Parity(Bits(i) \ Bits(c)) * (z[c] * w) BY <2>3, <2>5, <3>2 DEF ForeTerm
    <3>4. PICK s \in {-1, 1} : s = Sign(i, c) /\ s = Parity(Bits(i) \ Bits(c)) BY SignIs
    <3>5. PICK y \in Int : y = z[c] OBVIOUS
    <3>6. s * (y * w) = w * (s * y) BY <3>4
    <3> QED BY <2>4, <3>3, <3>4, <3>5, <3>6
  <2>7. SumOver(f) = w * SumOver(h) BY <2>6, SumScales
  <2> QED BY <2>1, <2>3, <2>4, <2>5, <2>7 DEF ForeTo
<1> QED BY <1>1, <1>2

-----------------------------------------------------------------------------
(* One axis after the other                                                *)

Arrays == [Coefficient -> Int]
LiftForward(c, a) ==
  [i \in Coefficient |-> IF IsBitSet(i, a) THEN c[On(i, a)] - c[Off(i, a)]
                         ELSE c[i] + (c[On(i, a)] - c[Off(i, a)]) \div 2]
LiftBack(c, a) ==
  [i \in Coefficient |-> IF IsBitSet(i, a) THEN c[i] + (c[Off(i, a)] - c[On(i, a)] \div 2)
                         ELSE c[Off(i, a)] - c[On(i, a)] \div 2]

LEMMA LiftsAreArrays ==
  ASSUME NEW c \in Arrays, NEW a \in 0..Dim - 1
  PROVE  LiftForward(c, a) \in Arrays /\ LiftBack(c, a) \in Arrays
<1>1. ASSUME NEW i \in Coefficient PROVE c[On(i, a)] \in Int /\ c[Off(i, a)] \in Int /\ c[i] \in Int
  BY OnAndOff DEF Arrays
<1> QED BY <1>1 DEF LiftForward, LiftBack, Arrays

LEMMA LiftsOfSums ==
  ASSUME NEW x \in Arrays, NEW A \in SomeAxes, NEW a \in (0..Dim - 1) \ A
  PROVE  /\ LiftForward(ForeTo(x, A), a) = ForeTo(x, A \cup {a})
         /\ LiftBack(ForeTo(x, A \cup {a}), a) = ForeTo(x, A)
         /\ LiftBack(BackTo(x, A), a) = BackTo(x, A \cup {a})
         /\ LiftForward(BackTo(x, A \cup {a}), a) = BackTo(x, A)
<1>0. x \in [Coefficient -> Int] BY DEF Arrays
<1> DEFINE F == ForeTo(x, A)
           G == ForeTo(x, A \cup {a})
           B == BackTo(x, A)
           C == BackTo(x, A \cup {a})
<1>1. /\ F = [i \in Coefficient |-> F[i]] /\ G = [i \in Coefficient |-> G[i]]
      /\ B = [i \in Coefficient |-> B[i]] /\ C = [i \in Coefficient |-> C[i]]
  BY DEF ForeTo, BackTo
<1> HIDE DEF F, G, B, C
<1>2. ASSUME NEW i \in Coefficient
      PROVE  /\ LiftForward(F, a)[i] = G[i] /\ LiftBack(G, a)[i] = F[i]
             /\ LiftBack(B, a)[i] = C[i] /\ LiftForward(C, a)[i] = B[i]
  <2>1. IsBitSet(i, a) => On(i, a) = i BY BitsOfCoefficients, OnAndOff
  <2>2. ~IsBitSet(i, a) => Off(i, a) = i BY BitsOfCoefficients, OnAndOff
  <2>3. PICK on, off : on = On(i, a) /\ off = Off(i, a) OBVIOUS
  <2>4. PICK m \in Int, u \in Int, v \in Int :
          F[on] = v /\ F[off] = u /\ G[on] = v - u /\ G[off] = m /\ u + v = 2 * m
    BY SMTT(30), <1>0, <2>3, ForeAlong DEF F, G
  <2>5. PICK k \in Int, w \in Int :
          B[on] = 2 * k /\ B[off] = w /\ C[on] = w + k /\ C[off] = w - k
    BY <1>0, <2>3, BackAlong DEF B, C
  <2>6. /\ u + (v - u) \div 2 = m /\ m - (v - u) \div 2 = u /\ (v - u) + (m - (v - u) \div 2) = v
    BY <2>4
  <2>7. /\ w - (2 * k) \div 2 = w - k /\ 2 * k + (w - (2 * k) \div 2) = w + k
        /\ (w + k) - (w - k) = 2 * k /\ (w - k) + ((w + k) - (w - k)) \div 2 = w
    OBVIOUS
  <2>8. CASE IsBitSet(i, a)
    <3>1. /\ LiftForward(F, a)[i] = F[on] - F[off] /\ LiftForward(C, a)[i] = C[on] - C[off]
          /\ LiftBack(G, a)[i] = G[on] + (G[off] - G[on] \div 2)
          /\ LiftBack(B, a)[i] = B[on] + (B[off] - B[on] \div 2) /\ i = on
      BY <2>1, <2>3, <2>8 DEF LiftForward, LiftBack
    <3> QED BY <2>4, <2>5, <2>6, <2>7, <3>1
  <2>9. CASE ~IsBitSet(i, a)
    <3>1. /\ LiftForward(F, a)[i] = F[off] + (F[on] - F[off]) \div 2
          /\ LiftForward(C, a)[i] = C[off] + (C[on] - C[off]) \div 2
          /\ LiftBack(G, a)[i] = G[off] - G[on] \div 2
          /\ LiftBack(B, a)[i] = B[off] - B[on] \div 2 /\ i = off
      BY <2>2, <2>3, <2>9 DEF LiftForward, LiftBack
    <3> QED BY <2>4, <2>5, <2>6, <2>7, <3>1
  <2> QED BY <2>8, <2>9
<1>3. /\ LiftForward(F, a) = [i \in Coefficient |-> LiftForward(F, a)[i]]
      /\ LiftBack(G, a) = [i \in Coefficient |-> LiftBack(G, a)[i]]
      /\ LiftBack(B, a) = [i \in Coefficient |-> LiftBack(B, a)[i]]
      /\ LiftForward(C, a) = [i \in Coefficient |-> LiftForward(C, a)[i]]
  BY DEF LiftForward, LiftBack
<1>4. LiftForward(F, a) = G BY <1>1, <1>2, <1>3, Zenon
<1>5. LiftBack(G, a) = F BY <1>1, <1>2, <1>3, Zenon
<1>6. LiftBack(B, a) = C BY <1>1, <1>2, <1>3, Zenon
<1>7. LiftForward(C, a) = B BY <1>1, <1>2, <1>3, Zenon
<1> QED BY <1>4, <1>5, <1>6, <1>7 DEF F, G, B, C

\* The lifted transforms are these steps, axis by axis.
LEMMA LiftedForward ==
  ASSUME NEW x \in Arrays
  PROVE  \E s \in [0..Dim -> Arrays] :
           /\ ForwardLifted(x) = s[Dim] /\ s[0] = x
           /\ \A a \in 0..Dim - 1 : s[a + 1] = LiftForward(s[a], a)
<1> DEFINE Body(f, n) ==
             IF n = 0 THEN x
             ELSE LET c == f[n - 1]
                      detail(i) == c[On(i, n - 1)] - c[Off(i, n - 1)]
                  IN  [i \in Coefficient |-> IF IsBitSet(i, n - 1) THEN detail(i)
                                             ELSE c[i] + detail(i) \div 2]
           lifted == CHOOSE f : f = [n \in 0..Dim |-> Body(f, n)]
           round == [n \in 1..Dim |-> [c \in Arrays |-> LiftForward(c, n - 1)]]
<1>1. ForwardLifted(x) = lifted[Dim] BY Zenon DEF ForwardLifted
<1>2. ASSUME NEW f, NEW n PROVE Body(f, n) = IF n = 0 THEN x ELSE LiftForward(f[n - 1], n - 1)
  BY Zenon DEF LiftForward
<1> HIDE DEF Body
<1>3. Dim \in Nat BY CoefficientsAre
<1>4. round \in [1..Dim -> [Arrays -> Arrays]]
  <2>1. ASSUME NEW n \in 1..Dim, NEW c \in Arrays PROVE LiftForward(c, n - 1) \in Arrays
    <3>1. n - 1 \in 0..Dim - 1 BY <1>3
    <3> QED BY <3>1, LiftsAreArrays
  <2> QED BY <2>1
<1>5. CanLoop(Dim, Arrays, x, round) BY <1>3, <1>4 DEF CanLoop
<1>6. PICK g \in [0..Dim -> Arrays] :
        g = [n \in 0..Dim |-> IF n = 0 THEN x ELSE round[n][g[n - 1]]]
  <2> HIDE DEF round
  <2>1. PICK M, X, r : M = Dim /\ X = Arrays /\ r = round OBVIOUS
  <2>2. CanLoop(M, X, x, r) BY <1>5, <2>1
  <2>3. \E g \in [0..M -> X] : g = [n \in 0..M |-> IF n = 0 THEN x ELSE r[n][g[n - 1]]]
    BY <2>2, LoopExists
  <2> QED BY <2>1, <2>3
<1>7. ASSUME NEW n \in 0..Dim, n # 0
      PROVE  n \in 1..Dim /\ g[n - 1] \in Arrays /\ round[n][g[n - 1]] = LiftForward(g[n - 1], n - 1)
  <2>1. n \in 1..Dim /\ n - 1 \in 0..Dim BY <1>3, <1>7
  <2>2. g[n - 1] \in Arrays
    <3> HIDE DEF round
    <3> QED BY <2>1
  <2> QED BY <2>1, <2>2
<1> HIDE DEF round
<1>8. ASSUME NEW n \in 0..Dim
      PROVE  (IF n = 0 THEN x ELSE round[n][g[n - 1]]) = Body(g, n)
  BY <1>2, <1>7, Zenon
<1>9. g = [n \in 0..Dim |-> Body(g, n)]
  <2>1. [n \in 0..Dim |-> IF n = 0 THEN x ELSE round[n][g[n - 1]]] = [n \in 0..Dim |-> Body(g, n)]
    BY <1>8, Zenon
  <2> QED BY <1>6, <2>1, Zenon
<1>10. lifted = [n \in 0..Dim |-> Body(lifted, n)] BY <1>9, Zenon
<1> HIDE DEF lifted
<1>11. PICK t : t = lifted OBVIOUS
<1>12. t = [n \in 0..Dim |-> Body(t, n)] BY <1>10, <1>11, Zenon
<1>13. \A n \in 0..Dim : t[n] = IF n = 0 THEN x ELSE LiftForward(t[n - 1], n - 1)
  <2> TAKE n \in 0..Dim
  <2>1. t[n] = Body(t, n) BY <1>12, Zenon
  <2> QED BY <1>2, <2>1, Zenon
<1>14. t[0] = x
  <2>1. 0 \in 0..Dim BY <1>3
  <2> QED BY <1>13, <2>1
<1>15. ASSUME NEW a \in 0..Dim - 1 PROVE t[a + 1] = LiftForward(t[a], a)
  <2>1. a + 1 \in 0..Dim /\ a + 1 # 0 /\ (a + 1) - 1 = a BY <1>3
  <2>2. t[a + 1] = LiftForward(t[(a + 1) - 1], (a + 1) - 1) BY <1>13, <2>1, Zenon
  <2> QED BY <2>1, <2>2
<1> DEFINE S == {n \in Nat : n <= Dim => t[n] \in Arrays}
<1>16. 0 \in S BY <1>14
<1>17. ASSUME NEW n \in Nat, n \in S PROVE n + 1 \in S
  <2> SUFFICES ASSUME n + 1 <= Dim PROVE t[n + 1] \in Arrays OBVIOUS
  <2>1. n \in 0..Dim - 1 /\ n <= Dim BY <1>3
  <2>2. t[n] \in Arrays BY <1>17, <2>1
  <2>3. t[n + 1] = LiftForward(t[n], n) BY <1>15, <2>1
  <2> QED BY <2>1, <2>2, <2>3, LiftsAreArrays
<1> HIDE DEF S
<1>18. Nat \subseteq S BY <1>16, <1>17, NatInductionSet
<1>19. \A n \in 0..Dim : t[n] \in Arrays BY <1>18 DEF S
<1>20. t \in [0..Dim -> Arrays] BY <1>12, <1>19
<1> QED BY <1>1, <1>11, <1>14, <1>15, <1>20

LEMMA LiftedBack ==
  ASSUME NEW x \in Arrays
  PROVE  \E s \in [0..Dim -> Arrays] :
           /\ BackwardLifted(x) = s[Dim] /\ s[0] = x
           /\ \A a \in 0..Dim - 1 : s[a + 1] = LiftBack(s[a], a)
<1> DEFINE Body(f, n) ==
             IF n = 0 THEN x
             ELSE LET c == f[n - 1]
                      low(i) == c[Off(i, n - 1)] - c[On(i, n - 1)] \div 2
                  IN  [i \in Coefficient |-> IF IsBitSet(i, n - 1) THEN c[i] + low(i) ELSE low(i)]
           lowered == CHOOSE f : f = [n \in 0..Dim |-> Body(f, n)]
           round == [n \in 1..Dim |-> [c \in Arrays |-> LiftBack(c, n - 1)]]
<1>1. BackwardLifted(x) = lowered[Dim] BY Zenon DEF BackwardLifted
<1>2. ASSUME NEW f, NEW n PROVE Body(f, n) = IF n = 0 THEN x ELSE LiftBack(f[n - 1], n - 1)
  BY Zenon DEF LiftBack
<1> HIDE DEF Body
<1>3. Dim \in Nat BY CoefficientsAre
<1>4. round \in [1..Dim -> [Arrays -> Arrays]]
  <2>1. ASSUME NEW n \in 1..Dim, NEW c \in Arrays PROVE LiftBack(c, n - 1) \in Arrays
    <3>1. n - 1 \in 0..Dim - 1 BY <1>3
    <3> QED BY <3>1, LiftsAreArrays
  <2> QED BY <2>1
<1>5. CanLoop(Dim, Arrays, x, round) BY <1>3, <1>4 DEF CanLoop
<1>6. PICK g \in [0..Dim -> Arrays] :
        g = [n \in 0..Dim |-> IF n = 0 THEN x ELSE round[n][g[n - 1]]]
  <2> HIDE DEF round
  <2>1. PICK M, X, r : M = Dim /\ X = Arrays /\ r = round OBVIOUS
  <2>2. CanLoop(M, X, x, r) BY <1>5, <2>1
  <2>3. \E g \in [0..M -> X] : g = [n \in 0..M |-> IF n = 0 THEN x ELSE r[n][g[n - 1]]]
    BY <2>2, LoopExists
  <2> QED BY <2>1, <2>3
<1>7. ASSUME NEW n \in 0..Dim, n # 0
      PROVE  n \in 1..Dim /\ g[n - 1] \in Arrays /\ round[n][g[n - 1]] = LiftBack(g[n - 1], n - 1)
  <2>1. n \in 1..Dim /\ n - 1 \in 0..Dim BY <1>3, <1>7
  <2>2. g[n - 1] \in Arrays
    <3> HIDE DEF round
    <3> QED BY <2>1
  <2> QED BY <2>1, <2>2
<1> HIDE DEF round
<1>8. ASSUME NEW n \in 0..Dim
      PROVE  (IF n = 0 THEN x ELSE round[n][g[n - 1]]) = Body(g, n)
  BY <1>2, <1>7, Zenon
<1>9. g = [n \in 0..Dim |-> Body(g, n)]
  <2>1. [n \in 0..Dim |-> IF n = 0 THEN x ELSE round[n][g[n - 1]]] = [n \in 0..Dim |-> Body(g, n)]
    BY <1>8, Zenon
  <2> QED BY <1>6, <2>1, Zenon
<1>10. lowered = [n \in 0..Dim |-> Body(lowered, n)] BY <1>9, Zenon
<1> HIDE DEF lowered
<1>11. PICK t : t = lowered OBVIOUS
<1>12. t = [n \in 0..Dim |-> Body(t, n)] BY <1>10, <1>11, Zenon
<1>13. \A n \in 0..Dim : t[n] = IF n = 0 THEN x ELSE LiftBack(t[n - 1], n - 1)
  <2> TAKE n \in 0..Dim
  <2>1. t[n] = Body(t, n) BY <1>12, Zenon
  <2> QED BY <1>2, <2>1, Zenon
<1>14. t[0] = x
  <2>1. 0 \in 0..Dim BY <1>3
  <2> QED BY <1>13, <2>1
<1>15. ASSUME NEW a \in 0..Dim - 1 PROVE t[a + 1] = LiftBack(t[a], a)
  <2>1. a + 1 \in 0..Dim /\ a + 1 # 0 /\ (a + 1) - 1 = a BY <1>3
  <2>2. t[a + 1] = LiftBack(t[(a + 1) - 1], (a + 1) - 1) BY <1>13, <2>1, Zenon
  <2> QED BY <2>1, <2>2
<1> DEFINE S == {n \in Nat : n <= Dim => t[n] \in Arrays}
<1>16. 0 \in S BY <1>14
<1>17. ASSUME NEW n \in Nat, n \in S PROVE n + 1 \in S
  <2> SUFFICES ASSUME n + 1 <= Dim PROVE t[n + 1] \in Arrays OBVIOUS
  <2>1. n \in 0..Dim - 1 /\ n <= Dim BY <1>3
  <2>2. t[n] \in Arrays BY <1>17, <2>1
  <2>3. t[n + 1] = LiftBack(t[n], n) BY <1>15, <2>1
  <2> QED BY <2>1, <2>2, <2>3, LiftsAreArrays
<1> HIDE DEF S
<1>18. Nat \subseteq S BY <1>16, <1>17, NatInductionSet
<1>19. \A n \in 0..Dim : t[n] \in Arrays BY <1>18 DEF S
<1>20. t \in [0..Dim -> Arrays] BY <1>12, <1>19
<1> QED BY <1>1, <1>11, <1>14, <1>15, <1>20

LEMMA SumsAreArrays ==
  ASSUME NEW x \in Arrays, NEW A \in SomeAxes
  PROVE  ForeTo(x, A) \in Arrays /\ BackTo(x, A) \in Arrays
<1>0. x \in [Coefficient -> Int] BY DEF Arrays
<1>1. ASSUME NEW i \in Coefficient
      PROVE  SumOver(ForeTerm(x, A, i)) \in Int /\ SumOver(BackTerm(x, A, i)) \in Int
  BY <1>0, ForeTermIs, BackTermIs, SumIsInt
<1> QED BY <1>1 DEF ForeTo, BackTo, Arrays

\* All axes, in this order, to either side.
LEMMA LiftedSums ==
  ASSUME NEW x \in Arrays
  PROVE  /\ ForwardLifted(ForeTo(x, {})) = ForeTo(x, 0..Dim - 1)
         /\ BackwardLifted(ForeTo(x, 0..Dim - 1)) = ForeTo(x, {})
         /\ BackwardLifted(BackTo(x, {})) = BackTo(x, 0..Dim - 1)
         /\ ForwardLifted(BackTo(x, 0..Dim - 1)) = BackTo(x, {})
<1>0. Dim \in Nat /\ Dim \in 0..Dim BY CoefficientsAre
<1>1. {} \in SomeAxes /\ 0..Dim - 1 \in SomeAxes BY DEF SomeAxes
<1>2. ASSUME NEW n \in 0..Dim - 1
      PROVE  /\ 0..n - 1 \in SomeAxes /\ n \in (0..Dim - 1) \ (0..n - 1)
             /\ 0..(n + 1) - 1 = (0..n - 1) \cup {n}
             /\ (n + 1)..Dim - 1 \in SomeAxes /\ n \in (0..Dim - 1) \ ((n + 1)..Dim - 1)
             /\ n..Dim - 1 = ((n + 1)..Dim - 1) \cup {n}
  BY <1>0 DEF SomeAxes
<1>a. 0..0 - 1 = {} /\ Dim..Dim - 1 = {} BY <1>0
<1>3. ForwardLifted(ForeTo(x, {})) = ForeTo(x, 0..Dim - 1)
  <2>1. PICK s \in [0..Dim -> Arrays] :
          /\ ForwardLifted(ForeTo(x, {})) = s[Dim] /\ s[0] = ForeTo(x, {})
          /\ \A a \in 0..Dim - 1 : s[a + 1] = LiftForward(s[a], a)
    BY <1>1, SumsAreArrays, LiftedForward
  <2> DEFINE S == {n \in Nat : n <= Dim => s[n] = ForeTo(x, 0..n - 1)}
  <2>2. 0 \in S BY <1>a, <2>1
  <2>3. ASSUME NEW n \in Nat, n \in S PROVE n + 1 \in S
    <3> SUFFICES ASSUME n + 1 <= Dim PROVE s[n + 1] = ForeTo(x, 0..(n + 1) - 1) OBVIOUS
    <3>1. n \in 0..Dim - 1 /\ n <= Dim BY <1>0
    <3>2. s[n] = ForeTo(x, 0..n - 1) BY <2>3, <3>1
    <3>3. PICK A \in SomeAxes : A = 0..n - 1 /\ n \in (0..Dim - 1) \ A /\ 0..(n + 1) - 1 = A \cup {n}
      BY <1>2, <3>1
    <3>4. LiftForward(ForeTo(x, A), n) = ForeTo(x, A \cup {n}) BY <3>3, LiftsOfSums
    <3> QED BY <2>1, <3>1, <3>2, <3>3, <3>4
  <2> HIDE DEF S
  <2>4. Nat \subseteq S BY <2>2, <2>3, NatInductionSet
  <2>5. s[Dim] = ForeTo(x, 0..Dim - 1) BY <1>0, <2>4 DEF S
  <2> QED BY <2>1, <2>5
<1>4. BackwardLifted(ForeTo(x, 0..Dim - 1)) = ForeTo(x, {})
  <2>1. PICK s \in [0..Dim -> Arrays] :
          /\ BackwardLifted(ForeTo(x, 0..Dim - 1)) = s[Dim] /\ s[0] = ForeTo(x, 0..Dim - 1)
          /\ \A a \in 0..Dim - 1 : s[a + 1] = LiftBack(s[a], a)
    BY <1>1, SumsAreArrays, LiftedBack
  <2> DEFINE S == {n \in Nat : n <= Dim => s[n] = ForeTo(x, n..Dim - 1)}
  <2>2. 0 \in S BY <2>1
  <2>3. ASSUME NEW n \in Nat, n \in S PROVE n + 1 \in S
    <3> SUFFICES ASSUME n + 1 <= Dim PROVE s[n + 1] = ForeTo(x, (n + 1)..Dim - 1) OBVIOUS
    <3>1. n \in 0..Dim - 1 /\ n <= Dim BY <1>0
    <3>2. s[n] = ForeTo(x, n..Dim - 1) BY <2>3, <3>1
    <3>3. PICK A \in SomeAxes :
            A = (n + 1)..Dim - 1 /\ n \in (0..Dim - 1) \ A /\ n..Dim - 1 = A \cup {n}
      BY <1>2, <3>1
    <3>4. LiftBack(ForeTo(x, A \cup {n}), n) = ForeTo(x, A) BY <3>3, LiftsOfSums
    <3> QED BY <2>1, <3>1, <3>2, <3>3, <3>4
  <2> HIDE DEF S
  <2>4. Nat \subseteq S BY <2>2, <2>3, NatInductionSet
  <2>5. s[Dim] = ForeTo(x, Dim..Dim - 1) BY <1>0, <2>4 DEF S
  <2> QED BY <1>a, <2>1, <2>5
<1>5. BackwardLifted(BackTo(x, {})) = BackTo(x, 0..Dim - 1)
  <2>1. PICK s \in [0..Dim -> Arrays] :
          /\ BackwardLifted(BackTo(x, {})) = s[Dim] /\ s[0] = BackTo(x, {})
          /\ \A a \in 0..Dim - 1 : s[a + 1] = LiftBack(s[a], a)
    BY <1>1, SumsAreArrays, LiftedBack
  <2> DEFINE S == {n \in Nat : n <= Dim => s[n] = BackTo(x, 0..n - 1)}
  <2>2. 0 \in S BY <1>a, <2>1
  <2>3. ASSUME NEW n \in Nat, n \in S PROVE n + 1 \in S
    <3> SUFFICES ASSUME n + 1 <= Dim PROVE s[n + 1] = BackTo(x, 0..(n + 1) - 1) OBVIOUS
    <3>1. n \in 0..Dim - 1 /\ n <= Dim BY <1>0
    <3>2. s[n] = BackTo(x, 0..n - 1) BY <2>3, <3>1
    <3>3. PICK A \in SomeAxes : A = 0..n - 1 /\ n \in (0..Dim - 1) \ A /\ 0..(n + 1) - 1 = A \cup {n}
      BY <1>2, <3>1
    <3>4. LiftBack(BackTo(x, A), n) = BackTo(x, A \cup {n}) BY <3>3, LiftsOfSums
    <3> QED BY <2>1, <3>1, <3>2, <3>3, <3>4
  <2> HIDE DEF S
  <2>4. Nat \subseteq S BY <2>2, <2>3, NatInductionSet
  <2>5. s[Dim] = BackTo(x, 0..Dim - 1) BY <1>0, <2>4 DEF S
  <2> QED BY <2>1, <2>5
<1>6. ForwardLifted(BackTo(x, 0..Dim - 1)) = BackTo(x, {})
  <2>1. PICK s \in [0..Dim -> Arrays] :
          /\ ForwardLifted(BackTo(x, 0..Dim - 1)) = s[Dim] /\ s[0] = BackTo(x, 0..Dim - 1)
          /\ \A a \in 0..Dim - 1 : s[a + 1] = LiftForward(s[a], a)
    BY <1>1, SumsAreArrays, LiftedForward
  <2> DEFINE S == {n \in Nat : n <= Dim => s[n] = BackTo(x, n..Dim - 1)}
  <2>2. 0 \in S BY <2>1
  <2>3. ASSUME NEW n \in Nat, n \in S PROVE n + 1 \in S
    <3> SUFFICES ASSUME n + 1 <= Dim PROVE s[n + 1] = BackTo(x, (n + 1)..Dim - 1) OBVIOUS
    <3>1. n \in 0..Dim - 1 /\ n <= Dim BY <1>0
    <3>2. s[n] = BackTo(x, n..Dim - 1) BY <2>3, <3>1
    <3>3. PICK A \in SomeAxes :
            A = (n + 1)..Dim - 1 /\ n \in (0..Dim - 1) \ A /\ n..Dim - 1 = A \cup {n}
      BY <1>2, <3>1
    <3>4. LiftForward(BackTo(x, A \cup {n}), n) = BackTo(x, A) BY <3>3, LiftsOfSums
    <3> QED BY <2>1, <3>1, <3>2, <3>3, <3>4
  <2> HIDE DEF S
  <2>4. Nat \subseteq S BY <2>2, <2>3, NatInductionSet
  <2>5. s[Dim] = BackTo(x, Dim..Dim - 1) BY <1>0, <2>4 DEF S
  <2> QED BY <1>a, <2>1, <2>5
<1> QED BY <1>3, <1>4, <1>5, <1>6

-----------------------------------------------------------------------------
(* The transforms and their inverses                                       *)

\* What the divisions of the transform back leave integers, and what those of
\* the transform forward do.
Exact(parent) == parent \in Arrays /\ \A i \in Coefficient : parent[i] % Weight(Bits(i)) = 0
Wide(children) == children \in Arrays /\ \A c \in Coefficient : children[c] % Exp2(Dim) = 0

LEMMA DivisorsAre ==
  ASSUME NEW i \in Coefficient
  PROVE  \E w \in Nat \ {0}, f \in Nat \ {0} :
           /\ Weight(Bits(i)) = w /\ BackwardDivisor[i] = w /\ ForwardDivisor[i] = f
           /\ Exp2(Dim) = w * f
<1>1. Bits(i) \in SomeAxes BY BitsOfCoefficients DEF SomeAxes
<1>2. PICK n \in 0..Dim : n = Cardinality(Bits(i)) BY <1>1, ParityIs
<1>3. PICK d \in Nat : d = Dim - n BY CoefficientsAre
<1>4. n \in Nat /\ n + d = Dim /\ d \in 0..Dim /\ n + d <= PowerLimit BY <1>3, CoefficientsAre, PowersAre
<1>5. PICK w \in Nat \ {0}, f \in Nat \ {0} : w = Exp2(n) /\ f = Exp2(d) BY <1>4, CoefficientsAre
<1>6. Exp2(Dim) = w * f BY <1>4, <1>5, PowersMultiply
<1>7. BackwardDivisor[i] = w BY <1>2, <1>5 DEF BackwardDivisor
<1>8. (w * f + 0) \div w = f BY QuotientIs
<1>9. ForwardDivisor[i] = f BY SMTT(30), <1>6, <1>7, <1>8 DEF ForwardDivisor
<1> QED BY <1>2, <1>5, <1>6, <1>7, <1>9 DEF Weight

LEMMA ExactIs ==
  ASSUME NEW P, Exact(P)
  PROVE  \E q \in Arrays :
           /\ q = [i \in Coefficient |-> P[i] \div Weight(Bits(i))] /\ P = BackTo(q, {})
           /\ \A c \in Coefficient : BackwardSingleChild(P, c) = BackTo(q, 0..Dim - 1)[c]
<1>1. P \in Arrays /\ \A i \in Coefficient : P[i] % Weight(Bits(i)) = 0 BY DEF Exact
<1>2. PICK q : q = [i \in Coefficient |-> P[i] \div Weight(Bits(i))] OBVIOUS
<1>3. ASSUME NEW i \in Coefficient
      PROVE  q[i] \in Int /\ P[i] = q[i] * Weight(Bits(i)) /\ P[i] \div BackwardDivisor[i] = q[i]
  <2>1. PICK w \in Nat \ {0} : w = Weight(Bits(i)) /\ BackwardDivisor[i] = w BY DivisorsAre
  <2>2. PICK v \in Int : v = P[i] BY <1>1 DEF Arrays
  <2>3. PICK a \in Int, r \in 0..(w - 1) : v = w * a + r /\ v \div w = a /\ v % w = r BY DivisionIs
  <2>4. r = 0 BY <1>1, <2>1, <2>2, <2>3
  <2>5. v = a * w BY <2>3, <2>4
  <2> QED BY <1>2, <2>1, <2>2, <2>3, <2>5
<1>4. q \in [Coefficient -> Int] BY <1>2, <1>3
<1>5. \A i \in Coefficient : P[i] = BackTo(q, {})[i] BY <1>3, <1>4, BackEnds
<1>6. P = BackTo(q, {})
  <2>1. P = [i \in Coefficient |-> P[i]] BY <1>1 DEF Arrays
  <2>2. BackTo(q, {}) = [i \in Coefficient |-> BackTo(q, {})[i]] BY DEF BackTo
  <2> QED BY <1>5, <2>1, <2>2, Zenon
<1>7. ASSUME NEW c \in Coefficient PROVE BackwardSingleChild(P, c) = BackTo(q, 0..Dim - 1)[c]
  <2>1. [p \in Coefficient |-> Sign(p, c) * (P[p] \div BackwardDivisor[p])] =
          [p \in Coefficient |-> Sign(p, c) * q[p]]
    BY <1>3, Zenon
  <2> QED BY <1>4, <2>1, BackEnds DEF BackwardSingleChild
<1> QED BY <1>2, <1>4, <1>6, <1>7 DEF Arrays

LEMMA BackwardIs ==
  ASSUME NEW P, Exact(P)
  PROVE  /\ BackwardLifted(P) = BackwardParallel(P) /\ HaarBackward(P) = BackwardParallel(P)
         /\ ForwardLifted(BackwardParallel(P)) = P
         /\ BackwardParallel(P) \in Arrays
         /\ \A c \in Coefficient : BackwardSingleChild(P, c) \in Int
                                   /\ HaarBackward(P)[c] = BackwardSingleChild(P, c)
<1>1. PICK q \in Arrays :
        /\ P = BackTo(q, {})
        /\ \A c \in Coefficient : BackwardSingleChild(P, c) = BackTo(q, 0..Dim - 1)[c]
  BY ExactIs
<1>2. 0..Dim - 1 \in SomeAxes BY DEF SomeAxes
<1>3. BackTo(q, 0..Dim - 1) \in Arrays BY <1>2, SumsAreArrays
<1>4. BackTo(q, 0..Dim - 1) = BackwardParallel(P)
  <2>1. BackTo(q, 0..Dim - 1) = [c \in Coefficient |-> BackTo(q, 0..Dim - 1)[c]] BY DEF BackTo
  <2>2. BackwardParallel(P) = [c \in Coefficient |-> BackwardSingleChild(P, c)]
    BY DEF BackwardParallel
  <2> QED BY <1>1, <2>1, <2>2, Zenon
<1>5. BackwardLifted(P) = BackwardParallel(P) BY <1>1, <1>4, LiftedSums
<1>6. ForwardLifted(BackwardParallel(P)) = P BY <1>1, <1>4, LiftedSums
<1>7. HaarBackward(P) = BackwardParallel(P) BY <1>5 DEF HaarBackward
<1>8. \A c \in Coefficient : BackwardSingleChild(P, c) \in Int
                             /\ HaarBackward(P)[c] = BackwardSingleChild(P, c)
  BY <1>1, <1>3, <1>7 DEF Arrays, BackwardParallel
<1> QED BY <1>3, <1>4, <1>5, <1>6, <1>7, <1>8

\* The sum that the parallel transform divides.
SignedSum(p, z) == SumOver([c \in Coefficient |-> Sign(p, c) * z[c]])

LEMMA SignedTerm ==
  ASSUME NEW z \in Arrays, NEW p \in Coefficient
  PROVE  /\ [c \in Coefficient |-> Sign(p, c) * z[c]] \in [Coefficient -> Int]
         /\ SignedSum(p, z) \in Int
<1>1. ASSUME NEW c \in Coefficient PROVE Sign(p, c) * z[c] \in Int
  <2>a. Sign(p, c) \in {-1, 1} /\ z[c] \in Int BY SignIs DEF Arrays
  <2>1. PICK s \in Int, y \in Int : s = Sign(p, c) /\ y = z[c] BY <2>a
  <2> QED BY <2>1
<1>2. [c \in Coefficient |-> Sign(p, c) * z[c]] \in [Coefficient -> Int] BY <1>1
<1> QED BY <1>2, SumIsInt DEF SignedSum

LEMMA SignedSumScales ==
  ASSUME NEW z \in Arrays, NEW y \in Arrays, NEW k \in Int, NEW p \in Coefficient,
         \A c \in Coefficient : y[c] = k * z[c]
  PROVE  SignedSum(p, y) = k * SignedSum(p, z)
<1>1. PICK f \in [Coefficient -> Int], h \in [Coefficient -> Int] :
        /\ f = [c \in Coefficient |-> Sign(p, c) * y[c]]
        /\ h = [c \in Coefficient |-> Sign(p, c) * z[c]]
  BY SignedTerm
<1>2. ASSUME NEW c \in Coefficient PROVE f[c] = k * h[c]
  <2>1. PICK s \in {-1, 1} : s = Sign(p, c) BY SignIs
  <2>2. PICK v \in Int : v = z[c] BY DEF Arrays
  <2>3. s * (k * v) = k * (s * v) BY <2>1
  <2> QED BY <1>1, <2>1, <2>2, <2>3
<1>3. SumOver(f) = k * SumOver(h) BY <1>2, SumScales
<1> QED BY <1>1, <1>3 DEF SignedSum

LEMMA ParallelIs ==
  ASSUME NEW z \in Arrays, NEW p \in Coefficient, NEW v \in Int,
         SignedSum(p, z) = ForwardDivisor[p] * v
  PROVE  ForwardParallel(z)[p] = v
<1>1. PICK f \in Nat \ {0} : f = ForwardDivisor[p] BY DivisorsAre
<1>2. (f * v + 0) \div f = v BY QuotientIs
<1>3. f * v \in Int /\ f * v + 0 = f * v OBVIOUS
<1>4. ForwardParallel(z)[p] = SignedSum(p, z) \div ForwardDivisor[p]
  BY SMTT(30) DEF ForwardParallel, SignedSum
<1> QED BY <1>1, <1>2, <1>3, <1>4

LEMMA WideIs ==
  ASSUME NEW C, Wide(C)
  PROVE  \E z \in Arrays :
           /\ z = [c \in Coefficient |-> C[c] \div Exp2(Dim)] /\ C = ForeTo(z, {})
           /\ \A c \in Coefficient : C[c] = Exp2(Dim) * z[c]
<1>1. C \in Arrays /\ \A c \in Coefficient : C[c] % Exp2(Dim) = 0 BY DEF Wide
<1>2. PICK z : z = [c \in Coefficient |-> C[c] \div Exp2(Dim)] OBVIOUS
<1>3. PICK w \in Nat \ {0} : w = Exp2(Dim) BY CoefficientsAre
<1>4. ASSUME NEW c \in Coefficient PROVE z[c] \in Int /\ C[c] = w * z[c] /\ C[c] = z[c] * w
  <2>1. PICK v \in Int : v = C[c] BY <1>1 DEF Arrays
  <2>2. PICK a \in Int, r \in 0..(w - 1) : v = w * a + r /\ v \div w = a /\ v % w = r BY DivisionIs
  <2>3. r = 0 BY <1>1, <1>3, <2>1, <2>2
  <2>4. v = w * a /\ w * a = a * w BY <2>2, <2>3
  <2> QED BY <1>2, <1>3, <2>1, <2>2, <2>4
<1>5. z \in [Coefficient -> Int] BY <1>2, <1>4
<1>6. \A c \in Coefficient : C[c] = ForeTo(z, {})[c] BY <1>3, <1>4, <1>5, ForeEnds
<1>7. C = ForeTo(z, {})
  <2>1. C = [c \in Coefficient |-> C[c]] BY <1>1 DEF Arrays
  <2>2. ForeTo(z, {}) = [c \in Coefficient |-> ForeTo(z, {})[c]] BY SMTT(30) DEF ForeTo
  <2> QED BY <1>6, <2>1, <2>2, Zenon
<1> QED BY <1>2, <1>3, <1>4, <1>5, <1>7 DEF Arrays

LEMMA ForwardIs ==
  ASSUME NEW C, Wide(C)
  PROVE  \E z \in Arrays :
           /\ z = [c \in Coefficient |-> C[c] \div Exp2(Dim)]
           /\ \A c \in Coefficient : C[c] = Exp2(Dim) * z[c]
           /\ HaarForward(C) = ForwardLifted(C) /\ HaarForward(C) = ForwardParallel(C)
           /\ HaarForward(C) \in Arrays
           /\ \A p \in Coefficient : HaarForward(C)[p] = Weight(Bits(p)) * SignedSum(p, z)
           /\ BackwardLifted(HaarForward(C)) = C
<1>1. PICK z \in Arrays :
        /\ z = [c \in Coefficient |-> C[c] \div Exp2(Dim)] /\ C = ForeTo(z, {})
        /\ \A c \in Coefficient : C[c] = Exp2(Dim) * z[c]
  BY WideIs
<1>a. C \in Arrays BY DEF Wide
<1>2. 0..Dim - 1 \in SomeAxes BY DEF SomeAxes
<1>3. PICK F \in Arrays : F = ForeTo(z, 0..Dim - 1) BY <1>2, SumsAreArrays
<1>4. \A p \in Coefficient : F[p] = Weight(Bits(p)) * SignedSum(p, z)
  BY SMTT(30), <1>3, ForeEnds DEF Arrays, SignedSum
<1>5. ForwardLifted(C) = F /\ BackwardLifted(F) = C BY <1>1, <1>3, LiftedSums
<1>6. ASSUME NEW p \in Coefficient PROVE ForwardParallel(C)[p] = F[p]
  <2>1. PICK w \in Nat \ {0}, f \in Nat \ {0} :
          Weight(Bits(p)) = w /\ ForwardDivisor[p] = f /\ Exp2(Dim) = w * f
    BY DivisorsAre
  <2>2. PICK s \in Int : s = SignedSum(p, z) BY SignedTerm
  <2>3. PICK d \in Int : d = Exp2(Dim) BY SMTT(30), <2>1
  <2>4. SignedSum(p, C) = d * SignedSum(p, z) BY <1>1, <1>a, <2>3, SignedSumScales
  <2>5. PICK v \in Int : v = w * s OBVIOUS
  <2>6. (w * f) * s = f * (w * s) OBVIOUS
  <2>7. SignedSum(p, C) = ForwardDivisor[p] * v BY <2>1, <2>2, <2>3, <2>4, <2>5, <2>6
  <2>8. ForwardParallel(C)[p] = v BY <1>a, <2>7, ParallelIs
  <2> QED BY <1>4, <2>1, <2>2, <2>5, <2>8
<1>7. ForwardParallel(C) = F
  <2>1. F = [p \in Coefficient |-> F[p]] BY DEF Arrays
  <2>2. ForwardParallel(C) = [p \in Coefficient |-> ForwardParallel(C)[p]] BY DEF ForwardParallel
  <2> QED BY <1>6, <2>1, <2>2, Zenon
<1>8. HaarForward(C) = F BY <1>5, <1>7 DEF HaarForward
<1> QED BY <1>1, <1>4, <1>5, <1>7, <1>8
LEMMA ForwardOfBackward ==
  ASSUME NEW P, Exact(P)
  PROVE  ForwardParallel(BackwardParallel(P)) = P
<1>1. PICK q \in Arrays :
        /\ P = BackTo(q, {})
        /\ \A c \in Coefficient : BackwardSingleChild(P, c) = BackTo(q, 0..Dim - 1)[c]
  BY ExactIs
<1>2. 0..Dim - 1 \in SomeAxes /\ {} \in SomeAxes BY DEF SomeAxes
<1>3. PICK K \in Arrays : K = BackTo(q, 0..Dim - 1) BY <1>2, SumsAreArrays
<1>4. K = BackwardParallel(P)
  <2>1. BackTo(q, 0..Dim - 1) = [c \in Coefficient |-> BackTo(q, 0..Dim - 1)[c]] BY DEF BackTo
  <2>2. BackwardParallel(P) = [c \in Coefficient |-> BackwardSingleChild(P, c)]
    BY DEF BackwardParallel
  <2> QED BY <1>1, <1>3, <2>1, <2>2, Zenon
<1>5. PICK d \in Nat \ {0} : d = Exp2(Dim) BY CoefficientsAre
<1>6. PICK y \in Arrays : \A p \in Coefficient : y[p] = d * q[p]
  <2>1. [p \in Coefficient |-> d * q[p]] \in [Coefficient -> Int] BY DEF Arrays
  <2> QED BY <2>1 DEF Arrays
<1>7. ForeTo(K, {}) = BackTo(y, 0..Dim - 1)
  <2>1. ASSUME NEW c \in Coefficient PROVE ForeTo(K, {})[c] = BackTo(y, 0..Dim - 1)[c]
    <3>1. ASSUME NEW x \in Arrays
          PROVE  [p \in Coefficient |-> Sign(p, c) * x[p]] \in [Coefficient -> Int]
      <4>1. ASSUME NEW p \in Coefficient PROVE Sign(p, c) * x[p] \in Int
        <5>a. Sign(p, c) \in {-1, 1} /\ x[p] \in Int BY SignIs DEF Arrays
        <5>1. PICK s \in Int, v \in Int : s = Sign(p, c) /\ v = x[p] BY <5>a
        <5> QED BY <5>1
      <4> QED BY <4>1
    <3>2. PICK f \in [Coefficient -> Int], h \in [Coefficient -> Int] :
            /\ f = [p \in Coefficient |-> Sign(p, c) * y[p]]
            /\ h = [p \in Coefficient |-> Sign(p, c) * q[p]]
      BY <3>1
    <3>3. ASSUME NEW p \in Coefficient PROVE f[p] = d * h[p]
      <4>1. PICK s \in {-1, 1} : s = Sign(p, c) BY SignIs
      <4>2. PICK v \in Int : v = q[p] BY DEF Arrays
      <4>3. s * (d * v) = d * (s * v) BY <4>1
      <4> QED BY <1>6, <3>2, <4>1, <4>2, <4>3
    <3>4. SumOver(f) = d * SumOver(h) BY <3>3, SumScales
    <3>5. K[c] = SumOver(h) BY <1>3, <3>2, BackEnds DEF Arrays
    <3>6. BackTo(y, 0..Dim - 1)[c] = SumOver(f) BY <3>2, BackEnds DEF Arrays
    <3>7. ForeTo(K, {})[c] = K[c] * d BY <1>5, ForeEnds DEF Arrays
    <3>8. PICK k \in Int : k = K[c] BY DEF Arrays
    <3>9. k * d = d * k OBVIOUS
    <3> QED BY <3>4, <3>5, <3>6, <3>7, <3>8, <3>9
  <2>2. ForeTo(K, {}) = [c \in Coefficient |-> ForeTo(K, {})[c]] BY DEF ForeTo
  <2>3. BackTo(y, 0..Dim - 1) = [c \in Coefficient |-> BackTo(y, 0..Dim - 1)[c]] BY DEF BackTo
  <2> QED BY <2>1, <2>2, <2>3, Zenon
<1>8. ForeTo(K, 0..Dim - 1) = BackTo(y, {}) BY <1>7, LiftedSums
<1>9. ASSUME NEW p \in Coefficient PROVE ForwardParallel(K)[p] = P[p]
  <2>1. PICK w \in Nat \ {0}, f \in Nat \ {0} :
          Weight(Bits(p)) = w /\ ForwardDivisor[p] = f /\ Exp2(Dim) = w * f
    BY DivisorsAre
  <2>2. PICK s \in Int : s = SignedSum(p, K) BY SignedTerm
  <2>3. PICK a \in Int : a = q[p] BY DEF Arrays
  <2>4. ForeTo(K, 0..Dim - 1)[p] = w * s BY <2>1, <2>2, ForeEnds DEF Arrays, SignedSum
  <2>5. BackTo(y, {})[p] = (d * a) * w BY <1>6, <2>1, <2>3, BackEnds DEF Arrays
  <2>6. P[p] = a * w BY <1>1, <2>1, <2>3, BackEnds DEF Arrays
  <2>7. w * s = w * (f * (a * w))
    <3>1. (d * a) * w = ((w * f) * a) * w BY <1>5, <2>1
    <3>2. ((w * f) * a) * w = w * (f * (a * w)) OBVIOUS
    <3> QED BY <1>8, <2>4, <2>5, <3>1, <3>2
  <2>8. PICK v \in Int : v = a * w OBVIOUS
  <2>9. s = f * v
    <3>1. PICK t \in Int : t = f * v OBVIOUS
    <3>2. w * s = w * t BY <2>7, <2>8, <3>1
    <3>3. w * (s - t) = w * s - w * t OBVIOUS
    <3>4. w * (s - t) = 0 BY <3>2, <3>3
    <3>5. s - t = 0 BY <3>4
    <3> QED BY <3>1, <3>5
  <2>10. SignedSum(p, K) = ForwardDivisor[p] * v BY <2>1, <2>2, <2>9
  <2> QED BY <2>6, <2>8, <2>10, ParallelIs
<1>10. ForwardParallel(K) = P
  <2>1. P = [p \in Coefficient |-> P[p]] BY DEF Exact, Arrays
  <2>2. ForwardParallel(K) = [p \in Coefficient |-> ForwardParallel(K)[p]] BY DEF ForwardParallel
  <2> QED BY <1>9, <2>1, <2>2, Zenon
<1> QED BY <1>4, <1>10

\* The lifted, the parallel and the single-child Haar transforms are the same,
\* and undo each other, for every number of axes, on all coefficients and all
\* children on which no division of the code rounds.
THEOREM TransformsUndoEachOther ==
  /\ \A P : Exact(P) => /\ TransformsAgree(P)
                        /\ \A c \in Coefficient : HaarBackward(P)[c] = BackwardSingleChild(P, c)
  /\ \A C : Wide(C) => /\ Exact(HaarForward(C)) /\ HaarBackward(HaarForward(C)) = C
                       /\ ForwardLifted(C) = ForwardParallel(C)
<1>1. ASSUME NEW P, Exact(P)
      PROVE  /\ TransformsAgree(P)
             /\ \A c \in Coefficient : HaarBackward(P)[c] = BackwardSingleChild(P, c)
  BY <1>1, BackwardIs, ForwardOfBackward DEF TransformsAgree
<1>2. ASSUME NEW C, Wide(C)
      PROVE  /\ Exact(HaarForward(C)) /\ HaarBackward(HaarForward(C)) = C
             /\ ForwardLifted(C) = ForwardParallel(C)
  <2>0. Wide(C) BY <1>2
  <2>1. PICK z \in Arrays :
          /\ HaarForward(C) = ForwardLifted(C) /\ HaarForward(C) = ForwardParallel(C)
          /\ HaarForward(C) \in Arrays
          /\ \A p \in Coefficient : HaarForward(C)[p] = Weight(Bits(p)) * SignedSum(p, z)
          /\ BackwardLifted(HaarForward(C)) = C
    BY <2>0, ForwardIs
  <2>2. ASSUME NEW p \in Coefficient PROVE HaarForward(C)[p] % Weight(Bits(p)) = 0
    <3>1. PICK w \in Nat \ {0} : w = Weight(Bits(p)) BY DivisorsAre
    <3>2. PICK s \in Int : s = SignedSum(p, z) BY SignedTerm
    <3>3. (w * s + 0) % w = 0 BY QuotientIs
    <3>4. w * s \in Int /\ w * s + 0 = w * s OBVIOUS
    <3> QED BY <2>1, <3>1, <3>2, <3>3, <3>4
  <2>3. Exact(HaarForward(C)) BY <2>1, <2>2 DEF Exact
  <2> QED BY <2>1, <2>3, BackwardIs
<1> QED BY <1>1, <1>2

-----------------------------------------------------------------------------
(* What changes of coefficients do                                         *)

LEMMA ScaleIs ==
  /\ Bits(0) = {} /\ Weight(Bits(0)) = 1 /\ BackwardDivisor[0] = 1 /\ 0 \in Coefficient
  /\ \A c \in Coefficient : Sign(0, c) = 1
<1>1. 0 \in Coefficient BY CoefficientsAre
<1>2. ASSUME NEW a \in 0..Dim - 1 PROVE ~IsBitSet(0, a)
  <2>1. a \in 0..Dim BY CoefficientsAre
  <2>2. PICK e \in Nat \ {0} : e = Exp2(a) BY <2>1, CoefficientsAre
  <2>3. (e * 0 + 0) \div e = 0 /\ (2 * 0 + 0) % 2 = 0 BY QuotientIs
  <2>4. 0 \div e = 0 /\ 0 % 2 = 0 BY <2>3
  <2> QED BY <2>2, <2>4 DEF IsBitSet
<1>3. Bits(0) = {} BY <1>2 DEF Bits
<1>4. Weight(Bits(0)) = 1 BY <1>3, ParityIs
<1>5. BackwardDivisor[0] = 1 BY <1>1, <1>4, DivisorsAre
<1>6. ASSUME NEW c \in Coefficient PROVE Sign(0, c) = 1
  <2>1. {} \ Bits(c) = {} OBVIOUS
  <2> QED BY <1>1, <1>3, <2>1, SignIs, ParityIs
<1> QED BY <1>1, <1>3, <1>4, <1>5, <1>6

LEMMA BackTermsAre ==
  ASSUME NEW P, Exact(P), NEW c \in Coefficient
  PROVE  \E f \in [Coefficient -> Int] :
           /\ BackwardSingleChild(P, c) = SumOver(f)
           /\ \A i \in Coefficient : f[i] = Sign(i, c) * (P[i] \div BackwardDivisor[i])
<1>1. ASSUME NEW i \in Coefficient PROVE Sign(i, c) * (P[i] \div BackwardDivisor[i]) \in Int
  <2>1. PICK w \in Nat \ {0} : BackwardDivisor[i] = w BY DivisorsAre
  <2>2. PICK v \in Int : v = P[i] BY DEF Exact, Arrays
  <2>3. v \div w \in Int BY DivisionIs
  <2>4. PICK y \in Int : y = P[i] \div BackwardDivisor[i] BY <2>1, <2>2, <2>3
  <2>5. PICK s \in {-1, 1} : s = Sign(i, c) BY SignIs
  <2> QED BY <2>4, <2>5
<1>2. PICK f : f = [i \in Coefficient |-> Sign(i, c) * (P[i] \div BackwardDivisor[i])] OBVIOUS
<1>3. f \in [Coefficient -> Int] BY <1>1, <1>2
<1>4. BackwardSingleChild(P, c) = SumOver(f) BY <1>2 DEF BackwardSingleChild
<1> QED BY <1>2, <1>3, <1>4

LEMMA BackwardAdds ==
  ASSUME NEW P, Exact(P), NEW Q, Exact(Q), NEW R \in Arrays,
         \A i \in Coefficient : R[i] = P[i] + Q[i]
  PROVE  /\ Exact(R)
         /\ \A c \in Coefficient :
              BackwardSingleChild(R, c) = BackwardSingleChild(P, c) + BackwardSingleChild(Q, c)
<1>1. ASSUME NEW i \in Coefficient
      PROVE  \E w \in Nat \ {0}, a \in Int, b \in Int :
               /\ w = BackwardDivisor[i] /\ w = Weight(Bits(i))
               /\ P[i] \div w = a /\ Q[i] \div w = b /\ R[i] \div w = a + b
               /\ R[i] \in Int /\ R[i] % w = 0
  <2>1. PICK w \in Nat \ {0} : w = BackwardDivisor[i] /\ w = Weight(Bits(i)) BY DivisorsAre
  <2>2. PICK v \in Int, u \in Int : v = P[i] /\ u = Q[i] BY DEF Exact, Arrays
  <2>3. v % w = 0 /\ u % w = 0 BY <2>1, <2>2 DEF Exact
  <2>4. PICK a \in Int, r \in 0..(w - 1) : v = w * a + r /\ v \div w = a /\ v % w = r BY DivisionIs
  <2>5. PICK b \in Int, s \in 0..(w - 1) : u = w * b + s /\ u \div w = b /\ u % w = s BY DivisionIs
  <2>6. PICK k \in Int : k = a + b OBVIOUS
  <2>7. v + u = w * k + 0
    <3>1. r = 0 /\ s = 0 BY <2>3, <2>4, <2>5
    <3>2. w * a + w * b = w * (a + b) OBVIOUS
    <3>3. PICK x \in Int, y \in Int : x = w * a /\ y = w * b OBVIOUS
    <3>4. v + u = x + y BY <2>4, <2>5, <3>1, <3>3
    <3>5. w * k \in Int /\ w * k = x + y BY <2>6, <3>2, <3>3
    <3> QED BY <3>4, <3>5
  <2>8. (w * k + 0) \div w = k /\ (w * k + 0) % w = 0 BY QuotientIs
  <2>9. R[i] = v + u BY <2>2
  <2>10. v + u \in Int /\ w * k + 0 \in Int OBVIOUS
  <2>11. R[i] \in Int /\ R[i] \div w = a + b /\ R[i] % w = 0
    BY <2>6, <2>7, <2>8, <2>9, <2>10, Zenon
  <2>12. P[i] \div w = a /\ Q[i] \div w = b BY <2>2, <2>4, <2>5
  <2> QED BY <2>1, <2>11, <2>12, Zenon
<1>2. Exact(R)
  <2>1. \A i \in Coefficient : R[i] % Weight(Bits(i)) = 0 BY <1>1
  <2> QED BY <2>1 DEF Exact
<1>3. ASSUME NEW c \in Coefficient
      PROVE  BackwardSingleChild(R, c) = BackwardSingleChild(P, c) + BackwardSingleChild(Q, c)
  <2>1. PICK f \in [Coefficient -> Int] :
          /\ BackwardSingleChild(P, c) = SumOver(f)
          /\ \A i \in Coefficient : f[i] = Sign(i, c) * (P[i] \div BackwardDivisor[i])
    BY BackTermsAre
  <2>2. PICK g \in [Coefficient -> Int] :
          /\ BackwardSingleChild(Q, c) = SumOver(g)
          /\ \A i \in Coefficient : g[i] = Sign(i, c) * (Q[i] \div BackwardDivisor[i])
    BY BackTermsAre
  <2>3. PICK h \in [Coefficient -> Int] :
          /\ BackwardSingleChild(R, c) = SumOver(h)
          /\ \A i \in Coefficient : h[i] = Sign(i, c) * (R[i] \div BackwardDivisor[i])
    BY <1>2, BackTermsAre
  <2>4. PICK k \in Int : k = 1 OBVIOUS
  <2>5. \A i \in Coefficient : h[i] = f[i] + k * g[i]
    <3> TAKE i \in Coefficient
    <3>1. PICK w \in Nat \ {0}, a \in Int, b \in Int :
            /\ w = BackwardDivisor[i] /\ P[i] \div w = a /\ Q[i] \div w = b /\ R[i] \div w = a + b
      BY <1>1
    <3>2. PICK s \in {-1, 1} : s = Sign(i, c) BY SignIs
    <3>3. s * (a + b) = s * a + k * (s * b) BY <2>4, <3>2
    <3> QED BY <2>1, <2>2, <2>3, <3>1, <3>2, <3>3
  <2>6. IsCombination(h, f, g, k) BY <2>5 DEF IsCombination
  <2>7. SumOver(h) = SumOver(f) + k * SumOver(g) BY <2>6, SumOfCombination
  <2>8. SumOver(g) \in Int BY SumIsInt
  <2> QED BY <2>1, <2>2, <2>3, <2>4, <2>7, <2>8
<1> QED BY <1>2, <1>3

LEMMA BackwardOfScale ==
  ASSUME NEW P \in Arrays, \A i \in Detail : P[i] = 0
  PROVE  Exact(P) /\ \A c \in Coefficient : BackwardSingleChild(P, c) = P[0]
<1>1. ASSUME NEW i \in Coefficient, i # 0
      PROVE  P[i] % Weight(Bits(i)) = 0 /\ P[i] \div BackwardDivisor[i] = 0
  <2>1. PICK w \in Nat \ {0} : w = BackwardDivisor[i] /\ w = Weight(Bits(i)) BY DivisorsAre
  <2>2. P[i] = 0 BY <1>1 DEF Detail
  <2>3. (w * 0 + 0) \div w = 0 /\ (w * 0 + 0) % w = 0 BY QuotientIs
  <2>4. w * 0 + 0 = 0 OBVIOUS
  <2> QED BY <2>1, <2>2, <2>3, <2>4
<1>2. PICK v \in Int : v = P[0] BY ScaleIs DEF Arrays
<1>3. v % 1 = 0 /\ v \div 1 = v
  <2>1. (1 * v + 0) \div 1 = v /\ (1 * v + 0) % 1 = 0 BY QuotientIs
  <2> QED BY <2>1
<1>4. Exact(P) BY <1>1, <1>2, <1>3, ScaleIs DEF Exact
<1>5. ASSUME NEW c \in Coefficient PROVE BackwardSingleChild(P, c) = P[0]
  <2>1. PICK f \in [Coefficient -> Int] :
          /\ BackwardSingleChild(P, c) = SumOver(f)
          /\ \A i \in Coefficient : f[i] = Sign(i, c) * (P[i] \div BackwardDivisor[i])
    BY <1>4, BackTermsAre
  <2>2. ASSUME NEW i \in Coefficient \ {0} PROVE f[i] = 0
    <3>1. PICK s \in {-1, 1} : s = Sign(i, c) BY SignIs
    <3> QED BY <1>1, <2>1, <3>1
  <2>3. PICK j \in Coefficient : j = 0 BY ScaleIs
  <2>4. SumOver(f) = f[j] BY <2>2, <2>3, SumOfSingle
  <2>5. f[j] = v BY <1>2, <1>3, <2>1, <2>3, ScaleIs
  <2> QED BY <1>2, <2>1, <2>4, <2>5
<1> QED BY <1>4, <1>5

LEMMA ForwardOfChildren ==
  ASSUME NEW C, Wide(C)
  PROVE  /\ Exact(HaarForward(C))
         /\ \A c \in Coefficient : BackwardSingleChild(HaarForward(C), c) = C[c]
BY TransformsUndoEachOther

\* If the changes of the children are multiples, so is that of the scale.
LEMMA ForwardScale ==
  ASSUME NEW C \in Arrays, NEW e \in Nat \ {0},
         \A c \in Coefficient : C[c] % (Exp2(Dim) * e) = 0
  PROVE  Wide(C) /\ HaarForward(C)[0] \in Int /\ HaarForward(C)[0] % e = 0
<1>1. PICK d \in Nat \ {0} : d = Exp2(Dim) BY CoefficientsAre
<1>2. PICK m \in Nat \ {0} : m = d * e
  <2>1. d * e # 0 /\ d * e \in Nat OBVIOUS
  <2> QED BY <2>1
<1>3. ASSUME NEW c \in Coefficient
      PROVE  \E a \in Int : C[c] \div m = a /\ C[c] % d = 0 /\ C[c] \div d = e * a
  <2>1. PICK v \in Int : v = C[c] BY DEF Arrays
  <2>2. PICK a \in Int, r \in 0..(m - 1) : v = m * a + r /\ v \div m = a /\ v % m = r BY DivisionIs
  <2>3. r = 0 BY <1>1, <1>2, <2>1, <2>2
  <2>4. PICK k \in Int : k = e * a OBVIOUS
  <2>5. v = d * k + 0
    <3>1. (d * e) * a = d * (e * a) OBVIOUS
    <3>2. d * k \in Int OBVIOUS
    <3> QED BY <1>2, <2>2, <2>3, <2>4, <3>1, <3>2
  <2>6. (d * k + 0) \div d = k /\ (d * k + 0) % d = 0 BY QuotientIs
  <2> QED BY <2>1, <2>2, <2>4, <2>5, <2>6
<1>4. Wide(C) BY <1>1, <1>3 DEF Wide
<1>5. PICK z \in Arrays :
        /\ z = [c \in Coefficient |-> C[c] \div Exp2(Dim)]
        /\ \A p \in Coefficient : HaarForward(C)[p] = Weight(Bits(p)) * SignedSum(p, z)
  BY <1>4, ForwardIs
<1>6. PICK y \in Arrays : \A c \in Coefficient : z[c] = e * y[c]
  <2>1. PICK y : y = [c \in Coefficient |-> C[c] \div m] OBVIOUS
  <2>2. \A c \in Coefficient : y[c] \in Int /\ z[c] = e * y[c] BY <1>1, <1>3, <1>5, <2>1
  <2>3. y \in Arrays BY <2>1, <2>2 DEF Arrays
  <2> QED BY <2>2, <2>3
<1>7. PICK p \in Coefficient : p = 0 BY ScaleIs
<1>8. PICK s \in Int : s = SignedSum(p, y) BY SignedTerm
<1>9. PICK k \in Int : k = e OBVIOUS
<1>10. SignedSum(p, z) = k * SignedSum(p, y) BY <1>6, <1>9, SignedSumScales
<1>11. HaarForward(C)[0] = 1 * (e * s) BY <1>5, <1>7, <1>8, <1>9, <1>10, ScaleIs
<1>12. (e * s + 0) % e = 0 BY QuotientIs
<1>13. e * s \in Int /\ 1 * (e * s) = e * s + 0 OBVIOUS
<1> QED BY <1>4, <1>11, <1>12, <1>13

\* The transform of a single child is that of all, of which only one is changed.
LEMMA ForwardOfOne ==
  ASSUME NEW v \in Int, NEW j \in Coefficient, v % Exp2(Dim) = 0,
         NEW C \in Arrays, \A c \in Coefficient : C[c] = IF c = j THEN v ELSE 0
  PROVE  Wide(C) /\ ForwardSingleChild(v, j) = HaarForward(C)
<1>1. PICK d \in Nat \ {0} : d = Exp2(Dim) BY CoefficientsAre
<1>2. PICK a \in Int, r \in 0..(d - 1) : v = d * a + r /\ v \div d = a /\ v % d = r BY DivisionIs
<1>3. v = d * a /\ v \div d = a BY <1>1, <1>2
<1>4. 0 % d = 0 /\ 0 \div d = 0
  <2>1. (d * 0 + 0) \div d = 0 /\ (d * 0 + 0) % d = 0 BY QuotientIs
  <2>2. d * 0 + 0 = 0 OBVIOUS
  <2> QED BY <2>1, <2>2
<1>5. Wide(C) BY <1>1, <1>4 DEF Wide
<1>6. PICK z \in Arrays :
        /\ z = [c \in Coefficient |-> C[c] \div Exp2(Dim)] /\ HaarForward(C) \in Arrays
        /\ \A p \in Coefficient : HaarForward(C)[p] = Weight(Bits(p)) * SignedSum(p, z)
  BY <1>5, ForwardIs
<1>7. z[j] = a /\ \A c \in Coefficient \ {j} : z[c] = 0 BY <1>1, <1>3, <1>4, <1>6
<1>8. ASSUME NEW p \in Coefficient PROVE ForwardSingleChild(v, j)[p] = HaarForward(C)[p]
  <2>1. PICK w \in Nat \ {0}, f \in Nat \ {0} :
          Weight(Bits(p)) = w /\ ForwardDivisor[p] = f /\ Exp2(Dim) = w * f
    BY DivisorsAre
  <2>2. PICK h \in [Coefficient -> Int] : h = [c \in Coefficient |-> Sign(p, c) * z[c]]
    BY SignedTerm
  <2>3. PICK s \in {-1, 1} : s = Sign(p, j) BY SignIs
  <2>4. ASSUME NEW c \in Coefficient \ {j} PROVE h[c] = 0
    <3>1. PICK t \in {-1, 1} : t = Sign(p, c) BY SignIs
    <3> QED BY <1>7, <2>2, <3>1
  <2>5. SumOver(h) = h[j] BY <2>4, SumOfSingle
  <2>6. SignedSum(p, z) = s * a BY <1>7, <2>2, <2>3, <2>5 DEF SignedSum
  <2>7. PICK k \in Int : k = w * (s * a) BY <2>3
  <2>8. s * v = f * k + 0
    <3>1. s * ((w * f) * a) = f * (w * (s * a)) BY <2>3
    <3>2. f * k \in Int OBVIOUS
    <3> QED BY <1>1, <1>3, <2>1, <2>7, <3>1, <3>2
  <2>9. (f * k + 0) \div f = k BY QuotientIs
  <2>10. ForwardSingleChild(v, j)[p] = k BY <2>1, <2>3, <2>8, <2>9 DEF ForwardSingleChild
  <2> QED BY <1>6, <2>1, <2>6, <2>7, <2>10
<1>9. ForwardSingleChild(v, j) = HaarForward(C)
  <2>1. HaarForward(C) = [p \in Coefficient |-> HaarForward(C)[p]] BY <1>6 DEF Arrays
  <2>2. ForwardSingleChild(v, j) = [p \in Coefficient |-> ForwardSingleChild(v, j)[p]]
    BY DEF ForwardSingleChild
  <2> QED BY <1>8, <2>1, <2>2, Zenon
<1> QED BY <1>5, <1>9

-----------------------------------------------------------------------------
(* Nodes of the wavelet octree                                             *)

LEMMA LevelsAre ==
  /\ TreeLevels \in Nat \ {0} /\ TreeLevels = MaxHeight + 1 /\ TreeLevels \in 0..Word
  /\ \A h \in 0..TreeLevels : h \in 0..Word /\ h \in 0..PowerLimit /\ Exp2(h) \in Nat \ {0}
  /\ \A a, b \in Nat : a + b <= TreeLevels => Exp2(a + b) = Exp2(a) * Exp2(b)
  /\ \A a \in 0..MaxHeight : Exp2(a + 1) = 2 * Exp2(a)
<1>1. MaxHeight \in Nat \ {0} /\ Word \in Nat /\ MaxHeight <= Word /\ Word \in Nat \ {0}
      /\ Coordinate \subseteq -2^(Word - 1)..2^(Word - 1) - 1
  BY IndexAssumption
<1>2. PICK T \in Nat \ {0} : T = Exp2(MaxHeight)
  <2>1. MaxHeight <= PowerLimit /\ PowerLimit \in Nat BY <1>1, CoefficientsAre, LimitIs
  <2>2. MaxHeight \in 0..PowerLimit BY <1>1, <2>1
  <2> QED BY <2>2, PowersAre
<1>3. MaxHeight # Word
  <2> SUFFICES ASSUME MaxHeight = Word PROVE FALSE OBVIOUS
  <2>1. PICK v \in Nat : v = Word - 1 BY <1>1
  <2>2. v \in 0..PowerLimit /\ v + 1 = Word
    <3>1. Word <= PowerLimit
      <4>1. Word \in 0..Word /\ 0 \in 0..Word BY <1>1
      <4>2. Word \in 0..PowerLimit BY <4>1, SizesAre
      <4> QED BY <4>2, PowersAre
    <3> QED BY <1>1, <2>1, <3>1, PowersAre
  <2>3. PICK e \in Nat \ {0} : e = Exp2(v) BY <2>2, PowersAre
  <2>4. T = 2 * e BY <1>2, <2>2, <2>3, PowersAre
  <2>5. T - 1 \in Coordinate BY <1>2, TreeAssumption
  <2>6. T - 1 <= e - 1
    <3>1. e = 2^(Word - 1) BY <2>1, <2>3 DEF Exp2
    <3> QED BY <1>1, <2>5, <3>1
  <2> QED BY <2>4, <2>6
<1>4. PICK w \in Nat, m \in Nat : w = Word /\ m = MaxHeight /\ m + 1 <= w
  BY <1>1, <1>3
<1>5. TreeLevels = m + 1 BY <1>4 DEF TreeLevels
<1>6. ASSUME NEW h \in 0..TreeLevels PROVE h \in 0..Word /\ h \in 0..PowerLimit /\ Exp2(h) \in Nat \ {0}
  <2>1. h \in 0..w /\ 0 \in 0..h BY <1>4, <1>5
  <2>2. h \in 0..PowerLimit BY <1>4, <2>1, SizesAre
  <2> QED BY <1>4, <2>1, <2>2, PowersAre
<1>7. ASSUME NEW a \in Nat, NEW b \in Nat, a + b <= TreeLevels PROVE Exp2(a + b) = Exp2(a) * Exp2(b)
  <2>1. a + b \in 0..TreeLevels BY <1>5, <1>7
  <2>2. a + b <= PowerLimit BY <1>6, <2>1, PowersAre
  <2> QED BY <2>2, PowersMultiply
<1>8. ASSUME NEW a \in 0..MaxHeight PROVE Exp2(a + 1) = 2 * Exp2(a)
  <2>1. a \in 0..TreeLevels BY <1>4, <1>5
  <2> QED BY <1>6, <2>1, PowersAre
<1> QED BY <1>4, <1>5, <1>6, <1>7, <1>8

Places(h) == [Axis -> 0..Exp2(TreeLevels - h) - 1]

\* Where the origin of the map is, at each height.
LEMMA OffsetIs ==
  ASSUME NEW h \in 0..MaxHeight
  PROVE  \E f \in Nat \ {0}, e \in Nat \ {0} :
           /\ RootOffset(h) = f /\ Exp2(h) = e /\ Exp2(MaxHeight) = f * e
           /\ Exp2(TreeLevels - h) = 2 * f
<1>1. PICK L \in Nat, m \in Nat : L = TreeLevels /\ m = MaxHeight /\ L = m + 1
  <2>1. TreeLevels \in Nat /\ MaxHeight \in Nat /\ TreeLevels = MaxHeight + 1
    BY LevelsAre, IndexAssumption
  <2> QED BY <2>1
<1>2. PICK k \in Nat : k = m - h /\ k + h = m BY <1>1
<1>3. k \in 0..TreeLevels /\ h \in 0..TreeLevels /\ k \in Nat /\ h \in Nat /\ k + h <= TreeLevels
  BY <1>1, <1>2
<1>4. PICK f \in Nat \ {0}, e \in Nat \ {0} : f = Exp2(k) /\ e = Exp2(h)
  <2>1. Exp2(k) \in Nat \ {0} /\ Exp2(h) \in Nat \ {0} BY <1>3, LevelsAre
  <2> QED BY <2>1
<1>5. Exp2(k + h) = f * e BY <1>3, <1>4, LevelsAre
<1>6. k \in 0..MaxHeight /\ k + 1 = TreeLevels - h BY <1>1, <1>2
<1>7. Exp2(TreeLevels - h) = 2 * f BY <1>4, <1>6, LevelsAre
<1>8. TreeLevels - 1 = k + h BY <1>1, <1>2
<1>9. (e * f + 0) \div e = f BY QuotientIs
<1>10. e * f + 0 = f * e OBVIOUS
<1>11. RootOffset(h) = f BY <1>4, <1>5, <1>8, <1>9, <1>10 DEF RootOffset, DivExp2Floor
<1> QED BY <1>1, <1>2, <1>4, <1>5, <1>7, <1>11

LEMMA InternalIs ==
  /\ \A h \in 0..TreeLevels : \A p \in Places(h) : Node(h, p) \in InternalIndex
  /\ \A n \in InternalIndex : /\ n.height \in 0..TreeLevels /\ n.position \in Places(n.height)
                              /\ n = Node(n.height, n.position)
                              /\ n.height = TreeLevels => n = TreeRoot
  /\ TreeRoot \in InternalIndex /\ TreeRoot.height = TreeLevels
<1>1. TreeLevels \in Nat /\ TreeLevels = MaxHeight + 1 /\ MaxHeight \in Nat
  BY LevelsAre, IndexAssumption
<1>2. Places(TreeLevels) = {[d \in Axis |-> 0]}
  <2>1. TreeLevels - TreeLevels = 0 BY <1>1
  <2>2. Exp2(TreeLevels - TreeLevels) = 1 BY <2>1, PowersAre
  <2>3. 0..Exp2(TreeLevels - TreeLevels) - 1 = {0} BY <2>2
  <2>4. [Axis -> {0}] = {[d \in Axis |-> 0]} OBVIOUS
  <2> QED BY <2>3, <2>4 DEF Places
<1>3. /\ TreeRoot \in InternalIndex /\ TreeRoot.height = TreeLevels
      /\ TreeRoot.position = [d \in Axis |-> 0] /\ TreeRoot = Node(TreeRoot.height, TreeRoot.position)
  BY DEF InternalIndex, TreeRoot, Node
<1>4. ASSUME NEW h \in 0..TreeLevels, NEW p \in Places(h) PROVE Node(h, p) \in InternalIndex
  <2>1. CASE h = TreeLevels
    <3>1. p = [d \in Axis |-> 0] BY <1>2, <2>1
    <3> QED BY <2>1, <3>1 DEF InternalIndex, TreeRoot
  <2>2. CASE h # TreeLevels
    <3>1. h \in 0..MaxHeight BY <1>1, <2>2
    <3>2. PICK f \in Nat \ {0}, e \in Nat \ {0} :
            /\ RootOffset(h) = f /\ Exp2(h) = e /\ Exp2(MaxHeight) = f * e
            /\ Exp2(TreeLevels - h) = 2 * f
      BY <3>1, OffsetIs
    <3>3. PICK T \in Nat : T = f * e OBVIOUS
    <3> DEFINE c == [d \in Axis |-> e * p[d] - T]
    <3>4. ASSUME NEW d \in Axis PROVE c[d] \in Coordinate /\ c[d] \in Int /\ c[d] \div e = p[d] - f
      <4>1. PICK x \in Int : x = p[d] /\ 0 <= x /\ x <= 2 * f - 1 BY <3>2 DEF Places
      <4>2. PICK y \in Int : y = e * x OBVIOUS
      <4>3. 0 <= y /\ y <= T + T - 1
        <5>1. x * e \in Int /\ 0 * e <= x * e /\ x * e + e <= (2 * f) * e
          <6>1. PICK z \in Int : z = 2 * f OBVIOUS
          <6>2. 0 <= x /\ x < z /\ 0 \in Int BY <4>1, <6>1
          <6> QED BY <6>1, <6>2, ProductOrder
        <5>2. (2 * f) * e = T + T BY <3>3
        <5>3. x * e = y BY <4>2
        <5> QED BY <5>1, <5>2, <5>3
      <4>4. c[d] = y - T BY <4>1, <4>2
      <4>5. c[d] \in -T..T - 1 BY <4>3, <4>4
      <4>6. Coordinate = -T..T - 1 BY <3>2, <3>3, TreeAssumption
      <4>7. y - T = e * (x - f) + 0 BY <3>3, <4>2
      <4>8. PICK k \in Int : k = x - f OBVIOUS
      <4>9. (e * k + 0) \div e = k BY QuotientIs
      <4> QED BY <4>1, <4>4, <4>5, <4>6, <4>7, <4>8, <4>9
    <3>5. c \in CellIndex /\ c \in [Axis -> Int] BY <3>4 DEF CellIndex
    <3>6. 0 \in 0..MaxHeight /\ h \in 0..MaxHeight /\ h - 0 = h BY <1>1, <3>1
    <3>7. ParentIndex(Node(0, c), h) = Node(h, [d \in Axis |-> c[d] \div Exp2(h)])
      BY <3>6 DEF ParentIndex, Node, DivExp2Floor
    <3>8. [d \in Axis |-> c[d] \div Exp2(h)] = [d \in Axis |-> p[d] - f] BY <3>2, <3>4
    <3> HIDE DEF c
    <3>9. Node(h, [d \in Axis |-> p[d] - f]) \in NodeIndex BY <3>1, <3>5, <3>7, <3>8 DEF NodeIndex
    <3>10. ToInternal(Node(h, [d \in Axis |-> p[d] - f])) = Node(h, p)
      <4>1. ASSUME NEW d \in Axis PROVE (p[d] - f) + f = p[d] BY <3>2 DEF Places
      <4>2. [d \in Axis |-> (p[d] - f) + f] = p BY <4>1 DEF Places
      <4>3. ToInternal(Node(h, [d \in Axis |-> p[d] - f])) = Node(h, [d \in Axis |-> (p[d] - f) + f])
        BY <3>2 DEF ToInternal, Node
      <4> QED BY <4>2, <4>3
    <3> QED BY <3>9, <3>10 DEF InternalIndex
  <2> QED BY <2>1, <2>2
<1>5. ASSUME NEW n \in InternalIndex, n # TreeRoot
      PROVE  n.height \in 0..MaxHeight /\ n.position \in Places(n.height) /\ n = Node(n.height, n.position)
  <2>1. PICK h \in 0..MaxHeight, c \in CellIndex : n = ToInternal(ParentIndex(Node(0, c), h))
    BY <1>5 DEF InternalIndex, NodeIndex
  <2>2. PICK f \in Nat \ {0}, e \in Nat \ {0} :
          /\ RootOffset(h) = f /\ Exp2(h) = e /\ Exp2(MaxHeight) = f * e
          /\ Exp2(TreeLevels - h) = 2 * f
    BY OffsetIs
  <2>3. ParentIndex(Node(0, c), h) = Node(h, [d \in Axis |-> c[d] \div e])
    <3>1. h - 0 = h OBVIOUS
    <3> QED BY <2>2, <3>1 DEF ParentIndex, Node, DivExp2Floor
  <2>4. n = Node(h, [d \in Axis |-> (c[d] \div e) + f]) BY <2>1, <2>2, <2>3 DEF ToInternal, Node
  <2>5. ASSUME NEW d \in Axis PROVE (c[d] \div e) + f \in 0..2 * f - 1
    <3>1. PICK T \in Nat : T = f * e OBVIOUS
    <3>2. Coordinate = -T..T - 1 BY <2>2, <3>1, TreeAssumption
    <3>3. PICK y \in Int : y = c[d] /\ -T <= y /\ y <= T - 1 BY <3>2 DEF CellIndex
    <3>4. PICK a \in Int, r \in 0..(e - 1) : y = e * a + r /\ y \div e = a /\ y % e = r BY DivisionIs
    <3>5. a < f
      <4>1. e * f = T BY <3>1
      <4>2. y < e * f BY <3>3, <4>1
      <4> QED BY <3>4, <4>2, QuotientsKeepOrder
    <3>6. -f <= a
      <4>1. PICK g \in Int, z \in Int : g = -f /\ z = -T OBVIOUS
      <4>2. z = e * g + 0 BY <3>1, <4>1
      <4>3. z \div e = g BY <4>2, QuotientIs
      <4>4. z <= y BY <3>3, <4>1
      <4>5. z \div e <= y \div e BY <4>4, QuotientsKeepOrder
      <4> QED BY <3>4, <4>1, <4>3, <4>5
    <3> QED BY <3>3, <3>4, <3>5, <3>6
  <2>6. [d \in Axis |-> (c[d] \div e) + f] \in Places(h) BY <2>2, <2>5 DEF Places
  <2> QED BY <2>4, <2>6 DEF Node
<1>6. ASSUME NEW n \in InternalIndex
      PROVE  /\ n.height \in 0..TreeLevels /\ n.position \in Places(n.height)
             /\ n = Node(n.height, n.position) /\ (n.height = TreeLevels => n = TreeRoot)
  <2>1. CASE n = TreeRoot
    <3>1. TreeLevels \in 0..TreeLevels BY <1>1
    <3> QED BY <1>2, <1>3, <2>1, <3>1
  <2>2. CASE n # TreeRoot
    <3>1. n.height \in 0..TreeLevels /\ n.height # TreeLevels BY <1>1, <1>5, <2>2
    <3> QED BY <1>5, <2>2, <3>1
  <2> QED BY <2>1, <2>2
<1> QED BY <1>3, <1>4, <1>6

LEMMA AncestorsAre ==
  ASSUME NEW n \in InternalIndex, NEW h \in n.height..TreeLevels
  PROVE  /\ Ancestor(n, h) \in InternalIndex /\ Ancestor(n, h).height = h /\ h \in 0..TreeLevels
         /\ Ancestor(n, h) = Node(h, [d \in Axis |-> n.position[d] \div Exp2(h - n.height)])
         /\ Ancestor(n, n.height) = n
         /\ \A g \in h..TreeLevels : Ancestor(Ancestor(n, h), g) = Ancestor(n, g)
         /\ Ancestor(n, TreeLevels) = TreeRoot
<1>0. TreeLevels \in Nat /\ n.height \in 0..TreeLevels /\ n.height \in Nat
      /\ n.position \in Places(n.height) /\ n = Node(n.height, n.position)
  BY LevelsAre, InternalIs
<1>1. PICK L \in Nat, a \in Nat :
        L = TreeLevels /\ a = n.height /\ a <= L /\ h \in a..L /\ n.position \in Places(a)
        /\ n = Node(a, n.position)
  BY <1>0
<1>2. ASSUME NEW g \in a..L
      PROVE  /\ Ancestor(n, g) = Node(g, [d \in Axis |-> n.position[d] \div Exp2(g - a)])
             /\ [d \in Axis |-> n.position[d] \div Exp2(g - a)] \in Places(g)
             /\ Ancestor(n, g) \in InternalIndex /\ Ancestor(n, g).height = g
  <2>1. Ancestor(n, g) = Node(g, [d \in Axis |-> n.position[d] \div Exp2(g - a)])
    BY <1>1 DEF Ancestor, ParentIndex, DivExp2Floor
  <2>2. PICK j \in Nat, k \in Nat : j = L - g /\ k = g - a /\ j + k = L - a
    <3>1. a <= g /\ g <= L /\ g \in Int BY <1>1
    <3> QED BY <3>1
  <2>3. j \in 0..L /\ k \in 0..L /\ j + k <= L BY <1>1, <2>2
  <2>4. PICK x \in Nat \ {0}, w \in Nat \ {0} : x = Exp2(j) /\ w = Exp2(k) BY <1>1, <2>3, LevelsAre
  <2>5. Exp2(j + k) = w * x
    <3>1. Exp2(j + k) = x * w BY <1>1, <2>3, <2>4, LevelsAre
    <3>2. x * w = w * x OBVIOUS
    <3> QED BY <3>1, <3>2
  <2>6. ASSUME NEW d \in Axis PROVE n.position[d] \div w \in 0..x - 1
    <3>1. PICK y \in Int : y = n.position[d] /\ 0 <= y /\ y < w * x
      <4>1. n.position[d] \in 0..w * x - 1 BY <1>1, <2>2, <2>5 DEF Places
      <4>2. w * x \in Nat OBVIOUS
      <4> QED BY <4>1, <4>2
    <3>2. y \div w \in Int /\ y \div w < x BY <3>1, QuotientsKeepOrder
    <3>3. PICK z \in Int : z = 0 OBVIOUS
    <3>4. z \div w <= y \div w BY <3>1, <3>3, QuotientsKeepOrder
    <3>5. (w * z + 0) \div w = z BY QuotientIs
    <3>6. w * z + 0 = z BY <3>3
    <3> QED BY <3>1, <3>2, <3>3, <3>4, <3>5, <3>6
  <2>7. [d \in Axis |-> n.position[d] \div Exp2(g - a)] \in Places(g)
    BY <1>1, <2>2, <2>4, <2>6 DEF Places
  <2>8. g \in 0..TreeLevels BY <1>1
  <2> QED BY <2>1, <2>7, <2>8, InternalIs DEF Node
<1>3. Ancestor(n, a) = n
  <2>1. a \in a..L /\ a - a = 0 BY <1>1
  <2>2. Ancestor(n, a) = Node(a, [d \in Axis |-> n.position[d] \div Exp2(0)]) BY <1>2, <2>1
  <2>3. ASSUME NEW d \in Axis PROVE n.position[d] \div Exp2(0) = n.position[d]
    <3>1. PICK y \in Int : y = n.position[d] BY <1>1 DEF Places
    <3>2. (1 * y + 0) \div 1 = y BY QuotientIs
    <3> QED BY <3>1, <3>2, PowersAre
  <2>4. [d \in Axis |-> n.position[d] \div Exp2(0)] = n.position BY <1>1, <2>3 DEF Places
  <2> QED BY <1>1, <2>2, <2>4
<1>4. ASSUME NEW g \in h..L PROVE Ancestor(Ancestor(n, h), g) = Ancestor(n, g)
  <2>1. g \in a..L BY <1>1
  <2> DEFINE q == [d \in Axis |-> n.position[d] \div Exp2(h - a)]
  <2>2. Ancestor(Ancestor(n, h), g) = Node(g, [d \in Axis |-> q[d] \div Exp2(g - h)])
    BY <1>1, <1>2 DEF Ancestor, ParentIndex, DivExp2Floor, Node
  <2>3. PICK j \in Nat, k \in Nat : j = h - a /\ k = g - h /\ j + k = g - a BY <1>1
  <2>4. j \in 0..L /\ k \in 0..L /\ j + k <= L BY <1>1, <2>3
  <2>5. PICK x \in Nat \ {0}, w \in Nat \ {0} : x = Exp2(j) /\ w = Exp2(k) BY <1>1, <2>4, LevelsAre
  <2>6. Exp2(j + k) = x * w BY <1>1, <2>4, <2>5, LevelsAre
  <2>7. ASSUME NEW d \in Axis PROVE q[d] \div Exp2(g - h) = n.position[d] \div Exp2(g - a)
    <3>1. PICK y \in Int : y = n.position[d] BY <1>1 DEF Places
    <3>2. (y \div x) \div w = y \div (x * w) BY ShiftTwice
    <3> QED BY <2>3, <2>5, <2>6, <3>1, <3>2
  <2>8. [d \in Axis |-> q[d] \div Exp2(g - h)] = [d \in Axis |-> n.position[d] \div Exp2(g - a)]
    BY <2>7
  <2> QED BY <1>2, <2>1, <2>2, <2>8
<1>5. Ancestor(n, TreeLevels) = TreeRoot
  <2>1. L \in a..L BY <1>1
  <2> QED BY <1>1, <1>2, <2>1, InternalIs
<1>6. h \in 0..L BY <1>1
<1> QED BY <1>1, <1>2, <1>3, <1>4, <1>5, <1>6

\* Which child a node is, as the bits of its position say.
LEMMA WhichIs ==
  ASSUME NEW n \in InternalIndex
  PROVE  /\ Which[n] \in Coefficient
         /\ \A a \in 0..Dim - 1 : IsBitSet(Which[n], a) = IsBitSet(n.position[a + 1], 0)
<1>0. TreeLevels \in Nat /\ n.height \in 0..TreeLevels /\ n.height \in Nat
      /\ n.position \in Places(n.height) /\ n = Node(n.height, n.position)
  BY LevelsAre, InternalIs
<1>1. PICK L \in Nat, h \in Nat :
        L = TreeLevels /\ h = n.height /\ h \in 0..L /\ n.position \in Places(h)
  BY <1>0
<1>2. PICK D \in Nat \ {0} : D = Dim /\ D \in 0..PowerLimit BY CoefficientsAre
<1>3. PICK k \in Nat : k = L - h /\ k \in 0..TreeLevels BY <1>1
<1>4. h \in 0..Word /\ k \in 0..Word BY <1>1, <1>3, LevelsAre
<1>5. PICK s \in Nat : s = h * D /\ s \in 0..PowerLimit
  <2>1. Word \in 0..Word BY IndexAssumption
  <2>2. h * Dim \in 0..Word * Dim /\ Word * Dim \in 0..PowerLimit BY <1>4, <2>1, SizesAre
  <2>3. PICK t \in Nat : t = Word * Dim /\ h * Dim \in 0..t /\ t <= PowerLimit BY <2>2, PowersAre
  <2>4. PICK s \in Nat : s = h * D OBVIOUS
  <2>5. s <= t /\ s <= PowerLimit BY <1>2, <2>3, <2>4, PowersAre
  <2>6. s \in 0..PowerLimit BY <2>5, PowersAre
  <2> QED BY <2>4, <2>6
<1>6. PICK w \in Nat \ {0}, v \in Nat \ {0} : w = Exp2(s) /\ v = Exp2(D)
  BY <1>2, <1>5, PowersAre
<1>7. n.position \in [Axis -> 0..Exp2(k) - 1] BY <1>1, <1>3 DEF Places
<1>8. PICK E \in Int : E = Encode(n.position)
  <2>1. Encode(n.position) \in 0..Exp2(k * Dim) - 1 BY <1>4, <1>7, EncodeIs
  <2> QED BY <2>1
<1>9. \A d \in Axis : IsBitSet(E, Place(0, d)) = IsBitSet(n.position[d], 0)
  <2>1. 0 \in 0..Word - 1 BY IndexAssumption
  <2> QED BY <1>4, <1>7, <1>8, <2>1, EncodeIs
<1>10. (h + 1) - 1 = h OBVIOUS
<1>11. Which[n] = ((E * w) \div w) % v
  BY <1>1, <1>2, <1>5, <1>6, <1>8, <1>10
     DEF Which, RelativeChild, NodeToMorton, DivExp2Floor, DivExp2Remainder
<1>12. (E * w) \div w = E
  <2>1. (w * E + 0) \div w = E BY QuotientIs
  <2>2. w * E + 0 = E * w OBVIOUS
  <2> QED BY <2>1, <2>2
<1>13. Which[n] = E % Exp2(D) BY <1>6, <1>11, <1>12
<1>14. E % v \in 0..v - 1
  <2>1. PICK a \in Int, r \in 0..(v - 1) : E = v * a + r /\ E \div v = a /\ E % v = r BY DivisionIs
  <2> QED BY <2>1
<1>15. ASSUME NEW a \in 0..Dim - 1 PROVE IsBitSet(Which[n], a) = IsBitSet(n.position[a + 1], 0)
  <2>1. a \in Nat /\ a < D BY <1>2
  <2>2. IsBitSet(E % Exp2(D), a) = IsBitSet(E, a) BY <1>2, <2>1, BitOfRemainder
  <2>3. PICK d \in Axis : d = a + 1 BY <1>2 DEF Axis
  <2>4. Place(0, d) = a BY <1>2, <2>1, <2>3 DEF Place
  <2> QED BY <1>9, <1>13, <2>2, <2>3, <2>4
<1>16. Which[n] \in Coefficient BY <1>2, <1>6, <1>13, <1>14 DEF Coefficient
<1> QED BY <1>15, <1>16

LEMMA ParentIs ==
  ASSUME NEW n \in InternalIndex, n # TreeRoot
  PROVE  /\ n.height + 1 \in n.height..TreeLevels /\ n.height \in 0..TreeLevels - 1
         /\ Ancestor(n, n.height + 1) \in InnerIndex
         /\ Ancestor(n, n.height + 1).height = n.height + 1
         /\ Which[n] \in Coefficient /\ ChildIndex(Ancestor(n, n.height + 1), Which[n]) = n
<1>0. TreeLevels \in Nat /\ n.height \in 0..TreeLevels /\ n.height \in Nat
      /\ n.position \in Places(n.height) /\ n = Node(n.height, n.position) /\ n.height # TreeLevels
  BY LevelsAre, InternalIs
<1>1. PICK L \in Nat, h \in Nat :
        L = TreeLevels /\ h = n.height /\ h \in 0..L - 1 /\ n.position \in Places(h)
        /\ n = Node(h, n.position)
  BY <1>0
<1>2. h + 1 \in h..L /\ (h + 1) - h = 1 /\ (h + 1) - 1 = h /\ h + 1 > 0 BY <1>1
<1>3. /\ Ancestor(n, h + 1) \in InternalIndex /\ Ancestor(n, h + 1).height = h + 1
      /\ Ancestor(n, h + 1) = Node(h + 1, [d \in Axis |-> n.position[d] \div Exp2(1)])
  <2>1. PICK g \in n.height..TreeLevels : g = h + 1 /\ g - n.height = 1 BY <1>1, <1>2
  <2>2. /\ Ancestor(n, g) \in InternalIndex /\ Ancestor(n, g).height = g
        /\ Ancestor(n, g) = Node(g, [d \in Axis |-> n.position[d] \div Exp2(g - n.height)])
    BY AncestorsAre
  <2> QED BY <2>1, <2>2
<1>4. PICK c \in Coefficient : c = Which[n] BY WhichIs
<1>5. ASSUME NEW d \in Axis
      PROVE  2 * (n.position[d] \div Exp2(1)) + (IF IsBitSet(c, d - 1) THEN 1 ELSE 0) = n.position[d]
  <2>1. d - 1 \in 0..Dim - 1 /\ (d - 1) + 1 = d BY CoefficientsAre DEF Axis
  <2>2. IsBitSet(c, d - 1) = IsBitSet(n.position[d], 0) BY <1>4, <2>1, WhichIs
  <2>3. PICK x \in Int : x = n.position[d] BY <1>1 DEF Places
  <2>4. 0 + 1 <= PowerLimit
    <3>1. Dim \in Nat \ {0} /\ Dim \in 0..PowerLimit BY CoefficientsAre
    <3> QED BY <3>1, PowersAre
  <2>5. PICK z \in Nat : z = 0 OBVIOUS
  <2>6. x \div Exp2(z) = 2 * (x \div Exp2(z + 1)) + IF IsBitSet(x, z) THEN 1 ELSE 0
    BY <2>4, <2>5, HalfAndBit
  <2>7. x \div Exp2(0) = x
    <3>1. (1 * x + 0) \div 1 = x BY QuotientIs
    <3> QED BY <3>1, PowersAre
  <2>8. z + 1 = 1 BY <2>5
  <2> QED BY <2>2, <2>3, <2>5, <2>6, <2>7, <2>8
<1>6. ChildIndex(Ancestor(n, h + 1), c) =
        Node(h, [d \in Axis |-> 2 * (n.position[d] \div Exp2(1)) + IF IsBitSet(c, d - 1) THEN 1 ELSE 0])
  BY <1>2, <1>3 DEF ChildIndex, Node
<1>7. [d \in Axis |-> 2 * (n.position[d] \div Exp2(1)) + IF IsBitSet(c, d - 1) THEN 1 ELSE 0]
        = n.position
  BY <1>1, <1>5 DEF Places
<1> QED BY <1>1, <1>2, <1>3, <1>4, <1>6, <1>7 DEF InnerIndex

LEMMA ChildrenAre ==
  ASSUME NEW n \in InnerIndex, NEW c \in Coefficient
  PROVE  /\ ChildIndex(n, c) \in InternalIndex /\ ChildIndex(n, c) # TreeRoot
         /\ ChildIndex(n, c).height = n.height - 1 /\ ChildIndex(n, c).height + 1 = n.height
         /\ Ancestor(ChildIndex(n, c), n.height) = n /\ Which[ChildIndex(n, c)] = c
         /\ ChildIndex(n, c).position =
              [d \in Axis |-> 2 * n.position[d] + IF IsBitSet(c, d - 1) THEN 1 ELSE 0]
<1>0. TreeLevels \in Nat /\ n.height \in 0..TreeLevels /\ n.height \in Nat
      /\ n.position \in Places(n.height) /\ n = Node(n.height, n.position) /\ n.height > 0
  BY SMTT(30), LevelsAre, InternalIs DEF InnerIndex
<1>1. PICK L \in Nat, h \in Nat :
        L = TreeLevels /\ h = n.height /\ h \in 1..L /\ n.position \in Places(h)
        /\ n = Node(h, n.position)
  BY <1>0
<1> DEFINE q == [d \in Axis |-> 2 * n.position[d] + IF IsBitSet(c, d - 1) THEN 1 ELSE 0]
<1>2. ChildIndex(n, c) = Node(h - 1, q) BY <1>1 DEF ChildIndex
<1>3. PICK k \in Nat : k = L - h /\ k + 1 = L - (h - 1) /\ k \in 0..L /\ k \in 0..MaxHeight
  <2>1. L = MaxHeight + 1 /\ MaxHeight \in Nat BY <1>1, LevelsAre, IndexAssumption
  <2> QED BY <1>1, <2>1
<1>4. PICK e \in Nat \ {0} : e = Exp2(k) /\ Exp2(k + 1) = 2 * e BY <1>1, <1>3, LevelsAre
<1>5. ASSUME NEW d \in Axis
      PROVE  /\ q[d] \in 0..2 * e - 1 /\ q[d] \div 2 = n.position[d]
             /\ IsBitSet(q[d], 0) <=> IsBitSet(c, d - 1)
  <2>1. PICK x \in Int : x = n.position[d] /\ 0 <= x /\ x <= e - 1 BY <1>1, <1>3, <1>4 DEF Places
  <2>2. PICK r \in 0..1 : r = (IF IsBitSet(c, d - 1) THEN 1 ELSE 0) /\ (r = 1 <=> IsBitSet(c, d - 1))
    OBVIOUS
  <2>3. q[d] = 2 * x + r BY <2>1, <2>2
  <2>4. (2 * x + r) \div 2 = x /\ (2 * x + r) % 2 = r
    <3>1. PICK t \in Nat \ {0} : t = 2 OBVIOUS
    <3>2. r \in 0..t - 1 BY <3>1
    <3>3. (t * x + r) \div t = x /\ (t * x + r) % t = r BY <3>2, QuotientIs
    <3> QED BY <3>1, <3>3
  <2>5. PICK y \in Int : y = 2 * x + r OBVIOUS
  <2>6. y \div Exp2(0) = y
    <3>1. (1 * y + 0) \div 1 = y BY QuotientIs
    <3> QED BY <3>1, PowersAre
  <2>7. IsBitSet(y, 0) <=> r = 1 BY <2>4, <2>5, <2>6 DEF IsBitSet
  <2>8. y \in 0..2 * e - 1 BY <2>1, <2>5
  <2> QED BY <2>1, <2>2, <2>3, <2>4, <2>5, <2>7, <2>8
<1>6. q \in Places(h - 1)
  <2>1. \A d \in Axis : q[d] \in 0..Exp2(L - (h - 1)) - 1 BY <1>3, <1>4, <1>5
  <2>2. q = [d \in Axis |-> q[d]] OBVIOUS
  <2> HIDE DEF q
  <2>3. q \in [Axis -> 0..Exp2(L - (h - 1)) - 1] BY <2>1, <2>2
  <2> QED BY <1>1, <2>3 DEF Places
<1>7. PICK m : m = ChildIndex(n, c) OBVIOUS
<1>8. m \in InternalIndex /\ m.height = h - 1 /\ m.position = q
  <2>1. h - 1 \in 0..TreeLevels BY <1>1
  <2> HIDE DEF q
  <2> QED BY <1>2, <1>6, <1>7, <2>1, InternalIs DEF Node
<1>9. m # TreeRoot /\ m.height + 1 = h BY <1>1, <1>8, InternalIs
<1>10. Ancestor(m, h) = n
  <2>1. h \in m.height..TreeLevels /\ h - m.height = 1 BY <1>1, <1>8
  <2>2. Ancestor(m, h) = Node(h, [d \in Axis |-> m.position[d] \div Exp2(1)])
    BY <1>8, <2>1, AncestorsAre
  <2>3. Exp2(1) = 2
    <3>1. 0 \in 0..PowerLimit /\ 0 + 1 = 1 BY PowersAre
    <3>2. Exp2(0 + 1) = 2 * Exp2(0) BY <3>1, PowersAre
    <3> QED BY <3>1, <3>2, PowersAre
  <2>4. [d \in Axis |-> m.position[d] \div Exp2(1)] = n.position BY <1>1, <1>5, <1>8, <2>3 DEF Places
  <2> QED BY <1>1, <2>2, <2>4
<1>11. Which[m] = c
  <2>1. Which[m] \in Coefficient BY <1>8, WhichIs
  <2>2. ASSUME NEW a \in 0..Dim - 1 PROVE IsBitSet(Which[m], a) <=> IsBitSet(c, a)
    <3>1. a + 1 \in Axis /\ (a + 1) - 1 = a BY CoefficientsAre DEF Axis
    <3>2. PICK d \in Axis : d = a + 1 /\ d - 1 = a BY <3>1
    <3>3. IsBitSet(Which[m], a) = IsBitSet(m.position[d], 0) BY <1>8, <3>2, WhichIs
    <3> QED BY <1>5, <1>8, <3>2, <3>3
  <2>3. Bits(Which[m]) = Bits(c) BY <2>2 DEF Bits
  <2> QED BY <2>1, <2>3, BitsOfCoefficients
<1> HIDE DEF q
<1>12. m.position = [d \in Axis |-> 2 * n.position[d] + IF IsBitSet(c, d - 1) THEN 1 ELSE 0]
  BY <1>8 DEF q
<1> QED BY <1>1, <1>7, <1>8, <1>9, <1>10, <1>11, <1>12

LEMMA OffspringIs ==
  ASSUME NEW n \in InnerIndex, NEW c \in Coefficient, NEW m, m = ChildIndex(n, c)
  PROVE  /\ m \in InternalIndex /\ m # TreeRoot /\ m.height = n.height - 1
         /\ m.height + 1 = n.height /\ Ancestor(m, n.height) = n /\ Which[m] = c
BY ChildrenAre, Zenon

-----------------------------------------------------------------------------
(* Ways through the tree                                                   *)

Above(n) == Ancestor(n, n.height + 1)

\* What holds for the root and below what it holds for holds everywhere.
LEMMA DownFromRoot ==
  ASSUME NEW S, TreeRoot \in S, \A n \in InternalIndex \ {TreeRoot} : Above(n) \in S => n \in S
  PROVE  InternalIndex \subseteq S
<1>1. PICK L \in Nat : L = TreeLevels BY LevelsAre
<1> DEFINE K == {k \in Nat : \A n \in InternalIndex : n.height + k = L => n \in S}
<1>2. 0 \in K
  <2>1. ASSUME NEW n \in InternalIndex, n.height + 0 = L PROVE n = TreeRoot
    <3>1. n.height \in 0..L BY <1>1, InternalIs
    <3> QED BY <1>1, <2>1, <3>1, InternalIs
  <2> QED BY <2>1
<1>3. ASSUME NEW k \in Nat, k \in K PROVE k + 1 \in K
  <2> SUFFICES ASSUME NEW n \in InternalIndex, n.height + (k + 1) = L PROVE n \in S OBVIOUS
  <2>1. CASE n = TreeRoot BY <2>1
  <2>2. CASE n # TreeRoot
    <3>1. n.height \in 0..L BY <1>1, InternalIs
    <3>2. Above(n) \in InternalIndex /\ Above(n).height = n.height + 1
      BY <2>2, ParentIs DEF Above, InnerIndex
    <3>3. Above(n).height + k = L BY <3>1, <3>2
    <3> QED BY <1>3, <2>2, <3>2, <3>3
  <2> QED BY <2>1, <2>2
<1> HIDE DEF K
<1>4. Nat \subseteq K BY <1>2, <1>3, NatInductionSet
<1>5. ASSUME NEW n \in InternalIndex PROVE n \in S
  <2>1. n.height \in 0..L BY <1>1, InternalIs
  <2>2. PICK k \in Nat : n.height + k = L
    <3>1. L - n.height \in Nat /\ n.height + (L - n.height) = L BY <2>1
    <3> QED BY <3>1
  <2> QED BY <1>4, <2>2 DEF K
<1> QED BY <1>5

\* What holds where it holds for all children holds everywhere.
LEMMA UpFromCells ==
  ASSUME NEW S, \A n \in InternalIndex :
                  (n \in InnerIndex => \A c \in Coefficient : ChildIndex(n, c) \in S) => n \in S
  PROVE  InternalIndex \subseteq S
<1>1. PICK L \in Nat : L = TreeLevels BY LevelsAre
<1> DEFINE K == {k \in Nat : \A n \in InternalIndex : n.height = k => n \in S}
<1>a. \A n \in InnerIndex, c \in Coefficient :
        ChildIndex(n, c) \in InternalIndex /\ ChildIndex(n, c).height = n.height - 1
  BY ChildrenAre
<1>2. 0 \in K BY DEF InnerIndex
<1>3. ASSUME NEW k \in Nat, k \in K PROVE k + 1 \in K
  <2> SUFFICES ASSUME NEW n \in InternalIndex, n.height = k + 1 PROVE n \in S OBVIOUS
  <2>1. ASSUME n \in InnerIndex, NEW c \in Coefficient PROVE ChildIndex(n, c) \in S
    <3>1. ChildIndex(n, c) \in InternalIndex /\ ChildIndex(n, c).height = n.height - 1
      BY <1>a, <2>1
    <3>2. ChildIndex(n, c).height = k BY <3>1
    <3> QED BY <1>3, <3>1, <3>2
  <2> QED BY <2>1
<1> HIDE DEF K
<1>4. Nat \subseteq K BY <1>2, <1>3, NatInductionSet
<1>5. ASSUME NEW n \in InternalIndex PROVE n \in S
  <2>1. n.height \in Nat BY <1>1, InternalIs
  <2> QED BY <1>4, <2>1 DEF K
<1> QED BY <1>5

LEMMA AboveIs ==
  ASSUME NEW n \in InternalIndex, n # TreeRoot
  PROVE  /\ Above(n) \in InnerIndex /\ Above(n) \in InternalIndex /\ Above(n).height = n.height + 1
         /\ n.height + 1 \in 0..TreeLevels /\ n.height \in Nat
         /\ Which[n] \in Coefficient /\ ChildIndex(Above(n), Which[n]) = n
         /\ \A h \in n.height + 1..TreeLevels : Ancestor(n, h) = Ancestor(Above(n), h)
<1>1. n.height \in 0..TreeLevels - 1 /\ n.height + 1 \in n.height..TreeLevels BY ParentIs
<1>2. \A h \in n.height + 1..TreeLevels : Ancestor(Ancestor(n, n.height + 1), h) = Ancestor(n, h)
  <2>1. PICK g \in n.height..TreeLevels : g = n.height + 1 BY <1>1
  <2>2. \A h \in g..TreeLevels : Ancestor(Ancestor(n, g), h) = Ancestor(n, h) BY AncestorsAre
  <2> QED BY <2>1, <2>2
<1>3. n.height + 1 \in 0..TreeLevels /\ n.height \in Nat BY <1>1, LevelsAre
<1> QED BY <1>2, <1>3, ParentIs DEF Above, InnerIndex

\* Nodes with all that is above them.
Rooted(over) == /\ over \subseteq InnerIndex /\ TreeRoot \in over
                /\ \A n \in over : n # TreeRoot => Above(n) \in over

LEMMA RootedAncestors ==
  ASSUME NEW over, Rooted(over), NEW n \in over, NEW h \in n.height..TreeLevels
  PROVE  Ancestor(n, h) \in over
<1>1. over \subseteq InternalIndex BY DEF Rooted, InnerIndex
<1> DEFINE S == {m \in InternalIndex : m \in over => \A g \in m.height..TreeLevels : Ancestor(m, g) \in over}
<1>2. TreeRoot \in S
  <2>1. TreeRoot \in InternalIndex /\ TreeRoot.height = TreeLevels BY InternalIs
  <2>2. TreeLevels..TreeLevels = {TreeLevels} BY LevelsAre
  <2>3. TreeLevels \in TreeRoot.height..TreeLevels BY <2>1, <2>2
  <2>4. Ancestor(TreeRoot, TreeLevels) = TreeRoot BY <2>1, <2>3, AncestorsAre
  <2> QED BY <2>1, <2>2, <2>4
<1>3. ASSUME NEW m \in InternalIndex \ {TreeRoot}, Above(m) \in S PROVE m \in S
  <2> SUFFICES ASSUME m \in over, NEW g \in m.height..TreeLevels PROVE Ancestor(m, g) \in over OBVIOUS
  <2>1. m.height \in Nat /\ TreeLevels \in Nat BY AboveIs, LevelsAre
  <2>2. CASE g = m.height
    <3>1. Ancestor(m, m.height) = m BY AncestorsAre
    <3> QED BY <2>2, <3>1
  <2>3. CASE g # m.height
    <3>1. g \in m.height + 1..TreeLevels BY <2>1, <2>3
    <3>2. Above(m) \in over BY DEF Rooted
    <3>3. Ancestor(m, g) = Ancestor(Above(m), g) /\ Above(m).height = m.height + 1 BY <3>1, AboveIs
    <3> QED BY <1>3, <3>1, <3>2, <3>3
  <2> QED BY <2>2, <2>3
<1> HIDE DEF S
<1>4. InternalIndex \subseteq S BY <1>2, <1>3, DownFromRoot
<1> QED BY <1>1, <1>4 DEF S

\* The node just below over that n is in the subtree of.
IsTop(over, m, n) == m \in JustBelow(over) /\ m.height \in n.height..TreeLevels /\ m = Ancestor(n, m.height)

LEMMA OneTop ==
  ASSUME NEW over, Rooted(over)
  PROVE  /\ \A n \in InternalIndex \ over : \E m : IsTop(over, m, n)
         /\ \A n \in InternalIndex : \A m, k : IsTop(over, m, n) /\ IsTop(over, k, n) => m = k
         /\ \A n \in InternalIndex : \A m : IsTop(over, m, n) => n \notin over
         /\ \A n \in InternalIndex \ {TreeRoot} : \A m : IsTop(over, m, Above(n)) => IsTop(over, m, n)
<1>0. over \subseteq InternalIndex /\ over \subseteq InnerIndex BY DEF Rooted, InnerIndex
<1>1. ASSUME NEW n \in InternalIndex \ {TreeRoot}, NEW m, IsTop(over, m, Above(n))
      PROVE  IsTop(over, m, n)
  <2>1. PICK h : h = m.height OBVIOUS
  <2>2. h \in Above(n).height..TreeLevels /\ m = Ancestor(Above(n), h) BY <1>1, <2>1 DEF IsTop
  <2>3. Above(n).height = n.height + 1 /\ n.height \in Nat BY AboveIs
  <2>4. h \in n.height + 1..TreeLevels BY <2>2, <2>3
  <2>5. h \in n.height..TreeLevels BY <2>3, <2>4, LevelsAre
  <2>6. m = Ancestor(n, h) BY <2>2, <2>4, AboveIs
  <2> QED BY <1>1, <2>1, <2>5, <2>6 DEF IsTop
<1> DEFINE S == {n \in InternalIndex : n \notin over => \E m : IsTop(over, m, n)}
<1>2. TreeRoot \in S BY InternalIs DEF Rooted
<1>3. ASSUME NEW n \in InternalIndex \ {TreeRoot}, Above(n) \in S PROVE n \in S
  <2> SUFFICES ASSUME n \notin over PROVE \E m : IsTop(over, m, n) OBVIOUS
  <2>1. CASE Above(n) \in over
    <3>1. n \in JustBelow(over) BY <2>1 DEF JustBelow, Above
    <3>2. n.height \in n.height..TreeLevels BY AboveIs, LevelsAre
    <3>3. Ancestor(n, n.height) = n BY <3>2, AncestorsAre
    <3> QED BY <3>1, <3>2, <3>3 DEF IsTop
  <2>2. CASE Above(n) \notin over
    <3>1. PICK m : IsTop(over, m, Above(n)) BY <1>3, <2>2
    <3> QED BY <1>1, <3>1
  <2> QED BY <2>1, <2>2
<1> HIDE DEF S
<1>4. InternalIndex \subseteq S BY <1>2, <1>3, DownFromRoot
<1>5. ASSUME NEW n \in InternalIndex, NEW m, NEW k, IsTop(over, m, n), IsTop(over, k, n),
             m.height < k.height
      PROVE  FALSE
  <2>1. PICK L \in Nat, g \in Nat, h \in Nat, b \in Nat :
          L = TreeLevels /\ g = m.height /\ h = k.height /\ b = n.height /\ g \in b..L /\ h \in b..L
    <3>1. TreeLevels \in Nat /\ n.height \in 0..TreeLevels BY LevelsAre, InternalIs
    <3>2. m.height \in n.height..TreeLevels /\ k.height \in n.height..TreeLevels BY <1>5 DEF IsTop
    <3>3. n.height \in Nat /\ m.height \in Nat /\ k.height \in Nat BY <3>1, <3>2
    <3> QED BY <3>1, <3>2, <3>3
  <2>2. m \in InternalIndex /\ m \notin over /\ Above(m) \in over BY <1>5 DEF IsTop, JustBelow, Above
  <2>3. m # TreeRoot BY <2>2 DEF Rooted
  <2>4. Above(m).height = g + 1 BY <2>1, <2>2, <2>3, AboveIs
  <2>5. h \in Above(m).height..TreeLevels BY <1>5, <2>1, <2>4
  <2>6. Ancestor(Above(m), h) \in over BY <2>2, <2>5, RootedAncestors
  <2>7. Ancestor(Above(m), h) = Ancestor(m, h)
    <3>1. h \in m.height + 1..TreeLevels BY <2>1, <2>4, <2>5
    <3> QED BY <2>2, <2>3, <3>1, AboveIs
  <2>8. Ancestor(m, h) = k
    <3>1. g \in n.height..TreeLevels /\ h \in g..TreeLevels BY <1>5, <2>1
    <3>2. Ancestor(Ancestor(n, g), h) = Ancestor(n, h) BY <3>1, AncestorsAre
    <3> QED BY <1>5, <2>1, <3>2 DEF IsTop
  <2> QED BY <1>5, <2>6, <2>7, <2>8 DEF IsTop, JustBelow
<1>6. ASSUME NEW n \in InternalIndex, NEW m, NEW k, IsTop(over, m, n), IsTop(over, k, n)
      PROVE  m = k
  <2>1. m.height \in Int /\ k.height \in Int
    <3>1. TreeLevels \in Nat /\ n.height \in 0..TreeLevels BY LevelsAre, InternalIs
    <3> QED BY <1>6, <3>1 DEF IsTop
  <2>2. ~(m.height < k.height) /\ ~(k.height < m.height) BY <1>5, <1>6
  <2>3. m.height = k.height BY <2>1, <2>2
  <2> QED BY <1>6, <2>3 DEF IsTop
<1>7. ASSUME NEW n \in InternalIndex, NEW m, IsTop(over, m, n), n \in over PROVE FALSE
  <2>1. Ancestor(n, m.height) \in over BY <1>7, RootedAncestors DEF IsTop
  <2> QED BY <1>7, <2>1 DEF IsTop, JustBelow
<1> QED BY <1>1, <1>4, <1>6, <1>7 DEF S

-----------------------------------------------------------------------------
(* What coefficients carry to the cells                                    *)

Column(scale, detail) == [i \in Coefficient |-> IF i = 0 THEN scale ELSE detail[i]]

\* Details that the transform back divides without a remainder.
ExactDetails(details) ==
  /\ details \in [InnerIndex -> [Detail -> Int]]
  /\ \A n \in InnerIndex, i \in Detail : details[n][i] % Weight(Bits(i)) = 0

Carried(v, details) ==
  /\ v \in [InternalIndex -> Int]
  /\ \A n \in InnerIndex, c \in Coefficient :
       v[ChildIndex(n, c)] = BackwardSingleChild(Column(v[n], details[n]), c)

LEMMA ColumnIsExact ==
  ASSUME NEW details, ExactDetails(details), NEW n \in InnerIndex, NEW s \in Int
  PROVE  /\ Exact(Column(s, details[n])) /\ Column(s, details[n])[0] = s
         /\ \A i \in Detail : Column(s, details[n])[i] = details[n][i]
<1>0. 0 \in Coefficient /\ Detail = Coefficient \ {0} BY ScaleIs DEF Detail
<1>1. ASSUME NEW i \in Coefficient
      PROVE  Column(s, details[n])[i] \in Int /\ Column(s, details[n])[i] % Weight(Bits(i)) = 0
  <2>1. CASE i = 0
    <3>1. Column(s, details[n])[i] = s /\ Weight(Bits(i)) = 1 BY <2>1, ScaleIs DEF Column
    <3>2. (1 * s + 0) % 1 = 0 BY QuotientIs
    <3> QED BY <3>1, <3>2
  <2>2. CASE i # 0
    <3>1. i \in Detail BY <1>0, <2>2
    <3>2. Column(s, details[n])[i] = details[n][i] BY <2>2 DEF Column
    <3> QED BY <3>1, <3>2 DEF ExactDetails
  <2> QED BY <2>1, <2>2
<1>2. Column(s, details[n]) \in Arrays
  <2>1. Column(s, details[n]) = [i \in Coefficient |-> Column(s, details[n])[i]] BY DEF Column
  <2>2. [i \in Coefficient |-> Column(s, details[n])[i]] \in [Coefficient -> Int] BY <1>1
  <2> QED BY <2>1, <2>2, Zenon DEF Arrays
<1>3. /\ Column(s, details[n])[0] = s
      /\ \A i \in Detail : Column(s, details[n])[i] = details[n][i]
  BY <1>0 DEF Column
<1> QED BY <1>1, <1>2, <1>3 DEF Exact

\* Coefficients that are added carry what is added.
LEMMA CarriedAdds ==
  ASSUME NEW v, NEW d, Carried(v, d), ExactDetails(d), NEW u, NEW e, Carried(u, e), ExactDetails(e),
         NEW w, w = [n \in InternalIndex |-> v[n] + u[n]],
         NEW f, f = [n \in InnerIndex |-> [i \in Detail |-> d[n][i] + e[n][i]]]
  PROVE  ExactDetails(f) /\ Carried(w, f)
<1>0. /\ v \in [InternalIndex -> Int] /\ u \in [InternalIndex -> Int]
      /\ d \in [InnerIndex -> [Detail -> Int]] /\ e \in [InnerIndex -> [Detail -> Int]]
      /\ InnerIndex \subseteq InternalIndex
  BY DEF Carried, ExactDetails, InnerIndex
<1>1. w \in [InternalIndex -> Int] /\ f \in [InnerIndex -> [Detail -> Int]] BY <1>0
<1>2. ASSUME NEW n \in InnerIndex
      PROVE  /\ Exact(Column(w[n], f[n]))
             /\ \A c \in Coefficient : BackwardSingleChild(Column(w[n], f[n]), c) =
                  BackwardSingleChild(Column(v[n], d[n]), c) + BackwardSingleChild(Column(u[n], e[n]), c)
  <2>1. v[n] \in Int /\ u[n] \in Int /\ w[n] \in Int /\ w[n] = v[n] + u[n] BY <1>0, <1>1
  <2>2. Exact(Column(v[n], d[n])) /\ Exact(Column(u[n], e[n])) BY <2>1, ColumnIsExact
  <2>3. \A i \in Detail : f[n][i] \in Int /\ f[n][i] = d[n][i] + e[n][i] BY <1>0, <1>1
  <2>4. PICK P, Q, R : P = Column(v[n], d[n]) /\ Q = Column(u[n], e[n]) /\ R = Column(w[n], f[n])
    OBVIOUS
  <2>5. \A i \in Coefficient : R[i] = P[i] + Q[i] /\ R[i] \in Int
    BY <2>1, <2>3, <2>4 DEF Column, Detail
  <2>6. R \in Arrays
    <3>1. R = [i \in Coefficient |-> R[i]] BY <2>4 DEF Column
    <3> QED BY <2>5, <3>1 DEF Arrays
  <2>7. /\ Exact(R)
        /\ \A c \in Coefficient :
             BackwardSingleChild(R, c) = BackwardSingleChild(P, c) + BackwardSingleChild(Q, c)
    BY <2>2, <2>4, <2>5, <2>6, BackwardAdds
  <2> QED BY <2>4, <2>7
<1>3. ASSUME NEW n \in InnerIndex, NEW i \in Detail PROVE f[n][i] % Weight(Bits(i)) = 0
  <2>1. i \in Coefficient /\ i # 0 BY DEF Detail
  <2>2. Column(w[n], f[n])[i] = f[n][i] BY <2>1 DEF Column
  <2>3. Column(w[n], f[n])[i] % Weight(Bits(i)) = 0 BY <1>2, <2>1 DEF Exact
  <2> QED BY <2>2, <2>3
<1>4. ASSUME NEW n \in InnerIndex, NEW c \in Coefficient
      PROVE  w[ChildIndex(n, c)] = BackwardSingleChild(Column(w[n], f[n]), c)
  <2>1. ChildIndex(n, c) \in InternalIndex BY ChildrenAre
  <2>2. w[ChildIndex(n, c)] = v[ChildIndex(n, c)] + u[ChildIndex(n, c)] BY <2>1
  <2>3. /\ v[ChildIndex(n, c)] = BackwardSingleChild(Column(v[n], d[n]), c)
        /\ u[ChildIndex(n, c)] = BackwardSingleChild(Column(u[n], e[n]), c)
    BY DEF Carried
  <2> QED BY <1>2, <2>2, <2>3
<1>5. ExactDetails(f) BY <1>1, <1>3 DEF ExactDetails
<1>6. Carried(w, f) BY <1>1, <1>4 DEF Carried
<1> QED BY <1>5, <1>6

LEMMA CarriedOnce ==
  ASSUME NEW v, NEW u, NEW d, Carried(v, d), Carried(u, d), v[TreeRoot] = u[TreeRoot]
  PROVE  v = u
<1> DEFINE S == {n \in InternalIndex : v[n] = u[n]}
<1>1. TreeRoot \in S BY InternalIs
<1>2. ASSUME NEW n \in InternalIndex \ {TreeRoot}, Above(n) \in S PROVE n \in S
  <2>1. PICK m \in InnerIndex, c \in Coefficient : m = Above(n) /\ ChildIndex(m, c) = n BY AboveIs
  <2>2. v[m] = u[m] BY <1>2, <2>1
  <2>3. v[n] = BackwardSingleChild(Column(v[m], d[m]), c) /\ u[n] = BackwardSingleChild(Column(u[m], d[m]), c)
    BY <2>1 DEF Carried
  <2> QED BY <2>2, <2>3
<1> HIDE DEF S
<1>3. InternalIndex \subseteq S BY <1>1, <1>2, DownFromRoot
<1>4. \A n \in InternalIndex : v[n] = u[n] BY <1>3 DEF S
<1>5. v = [n \in InternalIndex |-> v[n]] /\ u = [n \in InternalIndex |-> u[n]] BY DEF Carried
<1> QED BY <1>4, <1>5, Zenon

\* A change of the values of all nodes and the coefficients that carry it: those
\* of the nodes in over collect the changes of their children.
IsChange(over, added, details) ==
  /\ over \subseteq InnerIndex
  /\ added \in [InternalIndex -> Int] /\ details \in [InnerIndex -> [Detail -> Int]]
  /\ \A n \in over : \E C \in Arrays :
       /\ Wide(C) /\ \A c \in Coefficient : C[c] = added[ChildIndex(n, c)]
       /\ added[n] = HaarForward(C)[0] /\ \A i \in Detail : details[n][i] = HaarForward(C)[i]
  /\ \A n \in InnerIndex \ over :
       details[n] = NoDetails /\ \A c \in Coefficient : added[ChildIndex(n, c)] = added[n]

LEMMA ChangeIsCarried ==
  ASSUME NEW over, NEW added, NEW details, IsChange(over, added, details)
  PROVE  ExactDetails(details) /\ Carried(added, details)
<1>0. /\ added \in [InternalIndex -> Int] /\ details \in [InnerIndex -> [Detail -> Int]]
      /\ InnerIndex \subseteq InternalIndex
  BY DEF IsChange, InnerIndex
<1>1. ASSUME NEW n \in InnerIndex
      PROVE  /\ Exact(Column(added[n], details[n]))
             /\ \A c \in Coefficient :
                  added[ChildIndex(n, c)] = BackwardSingleChild(Column(added[n], details[n]), c)
  <2>1. PICK P : P = Column(added[n], details[n]) OBVIOUS
  <2>2. P = [i \in Coefficient |-> P[i]] BY <2>1 DEF Column
  <2>3. P[0] = added[n] /\ \A i \in Detail : P[i] = details[n][i] BY <2>1, ScaleIs DEF Column, Detail
  <2>4. added[n] \in Int /\ \A i \in Detail : details[n][i] \in Int BY <1>0
  <2>5. P \in Arrays
    <3>1. \A i \in Coefficient : P[i] \in Int BY <2>3, <2>4 DEF Detail
    <3> QED BY <2>2, <3>1 DEF Arrays
  <2>6. CASE n \in over
    <3>1. PICK C \in Arrays :
            /\ Wide(C) /\ \A c \in Coefficient : C[c] = added[ChildIndex(n, c)]
            /\ added[n] = HaarForward(C)[0] /\ \A i \in Detail : details[n][i] = HaarForward(C)[i]
      BY <2>6 DEF IsChange
    <3>2. /\ Exact(HaarForward(C))
          /\ \A c \in Coefficient : BackwardSingleChild(HaarForward(C), c) = C[c]
      BY <3>1, ForwardOfChildren
    <3>3. P = HaarForward(C)
      <4>1. HaarForward(C) = [i \in Coefficient |-> HaarForward(C)[i]] BY <3>2 DEF Exact, Arrays
      <4>2. \A i \in Coefficient : P[i] = HaarForward(C)[i] BY <2>3, <3>1 DEF Detail
      <4> QED BY <2>2, <4>1, <4>2, Zenon
    <3> QED BY <2>1, <3>1, <3>2, <3>3
  <2>7. CASE n \notin over
    <3>1. details[n] = NoDetails /\ \A c \in Coefficient : added[ChildIndex(n, c)] = added[n]
      BY <2>7 DEF IsChange
    <3>2. \A i \in Detail : P[i] = 0 BY <2>3, <3>1 DEF NoDetails
    <3>3. Exact(P) /\ \A c \in Coefficient : BackwardSingleChild(P, c) = P[0]
      BY <2>5, <3>2, BackwardOfScale
    <3> QED BY <2>1, <2>3, <3>1, <3>3
  <2> QED BY <2>6, <2>7
<1>2. ASSUME NEW n \in InnerIndex, NEW i \in Detail PROVE details[n][i] % Weight(Bits(i)) = 0
  <2>1. i \in Coefficient /\ i # 0 BY DEF Detail
  <2>2. Column(added[n], details[n])[i] = details[n][i] BY <2>1 DEF Column
  <2>3. Column(added[n], details[n])[i] % Weight(Bits(i)) = 0 BY <1>1, <2>1 DEF Exact
  <2> QED BY <2>2, <2>3
<1>3. ExactDetails(details) BY <1>0, <1>2 DEF ExactDetails
<1>4. Carried(added, details) BY <1>0, <1>1 DEF Carried
<1> QED BY <1>3, <1>4

-----------------------------------------------------------------------------
(* The tree and the array of cells                                         *)

CellNode(c) == ToInternal(Node(0, c))
CellsOf(v) == [c \in CellIndex |-> v[CellNode(c)]]

\* Nodes are there with all that is above them, those that are not have no
\* details, and the coefficients carry the values of the array to its cells.
NodesSound(nodes, details) ==
  Rooted(nodes) /\ \A n \in InnerIndex \ nodes : details[n] = NoDetails
ValuesSound ==
  \E v : /\ Carried(v, detail_coefficients) /\ scale_coefficient = v[TreeRoot]
         /\ cells = CellsOf(v)
TreeSound == /\ NodesSound(tree_nodes, detail_coefficients)
             /\ ExactDetails(detail_coefficients) /\ ValuesSound

LEMMA CellNodeIs ==
  ASSUME NEW c \in CellIndex
  PROVE  /\ CellNode(c) \in InternalIndex /\ CellNode(c).height = 0
         /\ \A d \in Axis : CellNode(c).position[d] = c[d] + Exp2(MaxHeight)
<1>1. 0 \in 0..MaxHeight BY IndexAssumption
<1>2. c \in [Axis -> Int]
  <2>1. Coordinate \subseteq Int BY IndexAssumption
  <2> QED BY <2>1 DEF CellIndex
<1>3. Node(0, c) \in NodeIndex
  <2>1. ParentIndex(Node(0, c), 0) = Node(0, c) BY <1>1, <1>2, AncestorOfSelf
  <2> QED BY <1>1, <2>1 DEF NodeIndex
<1>4. RootOffset(0) = Exp2(MaxHeight)
  <2>1. PICK f \in Nat \ {0}, e \in Nat \ {0} :
          RootOffset(0) = f /\ Exp2(0) = e /\ Exp2(MaxHeight) = f * e
    BY <1>1, OffsetIs
  <2>2. e = 1 BY <2>1, PowersAre
  <2> QED BY <2>1, <2>2
<1>5. CellNode(c) \in InternalIndex BY <1>3 DEF CellNode, InternalIndex
<1>6. CellNode(c) = Node(0, [d \in Axis |-> c[d] + RootOffset(0)]) BY DEF CellNode, ToInternal, Node
<1> QED BY <1>4, <1>5, <1>6 DEF Node

\* What a change does to the tree.
Applied(added, details) ==
  /\ scale_coefficient' = scale_coefficient + added[TreeRoot]
  /\ detail_coefficients' =
       [n \in InnerIndex |-> [i \in Detail |-> detail_coefficients[n][i] + details[n][i]]]
  /\ cells' = [c \in CellIndex |-> cells[c] + added[CellNode(c)]]

LEMMA AppliedIsSound ==
  ASSUME TreeSound, NEW over, NEW added, NEW details, IsChange(over, added, details),
         Applied(added, details)
  PROVE  /\ ExactDetails(detail_coefficients') /\ ValuesSound'
         /\ \A n \in InnerIndex \ (tree_nodes \cup over) : detail_coefficients'[n] = NoDetails
<1>1. ExactDetails(details) /\ Carried(added, details) BY ChangeIsCarried
<1>2. PICK v : Carried(v, detail_coefficients) /\ scale_coefficient = v[TreeRoot] /\ cells = CellsOf(v)
  BY DEF TreeSound, ValuesSound
<1>3. ExactDetails(detail_coefficients) BY DEF TreeSound
<1>4. PICK w : w = [n \in InternalIndex |-> v[n] + added[n]] OBVIOUS
<1>5. PICK f : f = [n \in InnerIndex |-> [i \in Detail |-> detail_coefficients[n][i] + details[n][i]]]
  OBVIOUS
<1>6. ExactDetails(f) /\ Carried(w, f) BY <1>1, <1>2, <1>3, <1>4, <1>5, CarriedAdds
<1>7. detail_coefficients' = f BY <1>5 DEF Applied
<1>8. scale_coefficient' = w[TreeRoot] BY <1>2, <1>4, InternalIs DEF Applied
<1>9. cells' = CellsOf(w)
  <2>1. ASSUME NEW c \in CellIndex PROVE cells[c] + added[CellNode(c)] = w[CellNode(c)]
    BY <1>2, <1>4, CellNodeIs DEF CellsOf
  <2> QED BY <2>1 DEF Applied, CellsOf
<1>10. ValuesSound' BY <1>6, <1>7, <1>8, <1>9 DEF ValuesSound
<1>11. ASSUME NEW n \in InnerIndex \ (tree_nodes \cup over) PROVE f[n] = NoDetails
  <2>1. detail_coefficients[n] = NoDetails BY DEF TreeSound, NodesSound
  <2>2. details[n] = NoDetails BY DEF IsChange
  <2>3. f[n] = [i \in Detail |-> detail_coefficients[n][i] + details[n][i]] BY <1>5
  <2>4. \A i \in Detail : detail_coefficients[n][i] + details[n][i] = 0 BY <2>1, <2>2 DEF NoDetails
  <2> QED BY <2>3, <2>4 DEF NoDetails
<1> QED BY <1>6, <1>7, <1>10, <1>11

\* What can be divided once for each level above a node.
LEMMA LevelScales ==
  /\ \A h \in 0..TreeLevels : Exp2(Dim * (TreeLevels - h)) \in Nat \ {0}
  /\ \A h \in 1..TreeLevels :
       Exp2(Dim * (TreeLevels - (h - 1))) = Exp2(Dim) * Exp2(Dim * (TreeLevels - h))
<1>1. PICK L \in Nat, D \in Nat, W \in Nat, P \in Nat :
        L = TreeLevels /\ D = Dim /\ W = Word /\ P = PowerLimit /\ L <= W /\ W * D <= P
  <2>1. TreeLevels \in Nat /\ TreeLevels <= Word /\ Word \in Nat /\ Dim \in Nat
    BY LevelsAre, IndexAssumption
  <2>2. Word * Dim \in Nat /\ Word * Dim <= PowerLimit
    <3>1. Word \in 0..Word BY <2>1
    <3> QED BY <3>1, SizesAre, PowersAre
  <2> QED BY <2>1, <2>2, PowersAre
<1>2. ASSUME NEW k \in 0..L
      PROVE  D * k \in Nat /\ D * k <= P /\ Exp2(D * k) \in Nat \ {0}
  <2>1. k * D <= W * D
    <3>1. CASE D = 0 BY <3>1
    <3>2. CASE D # 0
      <4>1. D \in Nat \ {0} /\ k <= W /\ k \in Int /\ W \in Int BY <1>1, <3>2
      <4> QED BY <4>1, ProductOrder
    <3> QED BY <3>1, <3>2
  <2>2. PICK x \in Nat, y \in Nat : x = D * k /\ x = k * D /\ y = W * D /\ x <= y /\ y <= P
    <3>1. D * k = k * D /\ D * k \in Nat /\ W * D \in Nat OBVIOUS
    <3> QED BY <1>1, <2>1, <3>1
  <2>3. x \in 0..PowerLimit BY <1>1, <2>2
  <2> QED BY <2>2, <2>3, PowersAre
<1>3. ASSUME NEW h \in 0..TreeLevels PROVE Exp2(Dim * (TreeLevels - h)) \in Nat \ {0}
  <2>1. PICK k \in 0..L : k = L - h BY <1>1
  <2> QED BY <1>1, <1>2, <2>1
<1>4. ASSUME NEW h \in 1..TreeLevels
      PROVE  Exp2(Dim * (TreeLevels - (h - 1))) = Exp2(Dim) * Exp2(Dim * (TreeLevels - h))
  <2>1. PICK k \in 0..L : k = L - h /\ k + 1 = L - (h - 1) /\ k + 1 \in 0..L BY <1>1
  <2>2. D * (k + 1) = D + D * k OBVIOUS
  <2>3. PICK x \in Nat : x = D * k /\ D + x <= P
    <3>1. D * (k + 1) <= P BY <1>2, <2>1
    <3>2. D * k \in Nat BY <1>2
    <3> QED BY <2>2, <3>1, <3>2
  <2>4. Exp2(D + x) = Exp2(D) * Exp2(x) BY <1>1, <2>3, PowersMultiply
  <2> QED BY <1>1, <2>1, <2>2, <2>3, <2>4
<1> QED BY <1>3, <1>4

LEMMA ForwardIsArray == ASSUME NEW C \in Arrays PROVE HaarForward(C) \in Arrays
<1>1. ForwardLifted(C) \in Arrays
  <2>1. PICK s \in [0..Dim -> Arrays] : ForwardLifted(C) = s[Dim] BY LiftedForward
  <2>2. Dim \in 0..Dim BY CoefficientsAre
  <2> QED BY <2>1, <2>2
<1>2. ForwardParallel(C) \in Arrays
  <2>1. ASSUME NEW p \in Coefficient PROVE SignedSum(p, C) \div ForwardDivisor[p] \in Int
    <3>1. PICK f \in Nat \ {0} : f = ForwardDivisor[p] BY DivisorsAre
    <3>2. PICK s \in Int : s = SignedSum(p, C) BY SignedTerm
    <3>3. s \div f \in Int BY DivisionIs
    <3> QED BY <3>1, <3>2, <3>3
  <2>2. ForwardParallel(C) = [p \in Coefficient |-> SignedSum(p, C) \div ForwardDivisor[p]]
    BY DEF ForwardParallel, SignedSum
  <2> QED BY <2>1, <2>2 DEF Arrays
<1> QED BY <1>1, <1>2 DEF HaarForward

\* What changes just below some nodes make of the tree.
LEMMA ChangesAreApplied ==
  ASSUME ExactDetails(detail_coefficients),
         NEW over, Rooted(over), NEW change \in [JustBelow(over) -> Int], AddChanges(over, change)
  PROVE  \E added, details : IsChange(over, added, details) /\ Applied(added, details)
<1> DEFINE D == over \cup DOMAIN change
           Body(f, n) ==
             IF n \in over THEN HaarForward([c \in Coefficient |-> f[ChildIndex(n, c)]])[0]
             ELSE change[n]
           choice == CHOOSE f : f = [n \in D |-> Body(f, n)]
<1>1. DOMAIN change = JustBelow(over) /\ D = over \cup JustBelow(over) OBVIOUS
<1>2. /\ over \subseteq InnerIndex /\ over \subseteq InternalIndex /\ TreeRoot \in over
      /\ D \subseteq InternalIndex
  BY <1>1 DEF Rooted, InnerIndex, JustBelow
<1>3. /\ \A n \in DOMAIN change : Halves(n, change[n])
      /\ scale_coefficient' = scale_coefficient + choice[TreeRoot]
      /\ detail_coefficients' =
           [n \in InnerIndex |->
              IF n \in over
              THEN [i \in Detail |->
                      detail_coefficients[n][i]
                        + HaarForward([c \in Coefficient |-> choice[ChildIndex(n, c)]])[i]]
              ELSE detail_coefficients[n]]
      /\ cells' = [c \in CellIndex |->
                     cells[c] + change[CHOOSE n \in DOMAIN change : n = Over(c, n.height)]]
  BY Zenon DEF AddChanges
<1>4. ASSUME NEW n \in over, NEW c \in Coefficient
      PROVE  /\ n \in InnerIndex /\ ChildIndex(n, c) \in D /\ ChildIndex(n, c) \in InternalIndex
             /\ ChildIndex(n, c).height = n.height - 1 /\ n.height \in 1..TreeLevels
             /\ ChildIndex(n, c).height \in Nat
  <2>1. n \in InnerIndex BY <1>2
  <2>2. PICK m : m = ChildIndex(n, c) OBVIOUS
  <2>3. m \in InternalIndex /\ m.height + 1 = n.height /\ Ancestor(m, n.height) = n
    BY <2>1, <2>2, OffspringIs
  <2>4. m \notin over => m \in JustBelow(over) BY <2>3 DEF JustBelow
  <2>5. m.height \in 0..TreeLevels /\ n.height \in 0..TreeLevels /\ n.height > 0
    BY <2>1, <2>3, InternalIs DEF InnerIndex
  <2> QED BY <1>1, <2>1, <2>2, <2>3, <2>4, <2>5, LevelsAre
<1>5. \E f \in [D -> Int] : f = [n \in D |-> Body(f, n)]
  <2> DEFINE rank == [n \in D |-> n.height]
             G == [f \in [D -> Int] |-> [n \in D |-> Body(f, n)]]
  <2>0. PICK L \in Nat : L = TreeLevels BY LevelsAre
  <2>1. rank \in [D -> 0..L] BY <1>2, <2>0, InternalIs
  <2>2. ASSUME NEW f \in [D -> Int], NEW n \in D PROVE Body(f, n) \in Int
    <3>1. CASE n \in over
      <4>1. PICK C : C = [c \in Coefficient |-> f[ChildIndex(n, c)]] OBVIOUS
      <4>a. \A c \in Coefficient : ChildIndex(n, c) \in D BY <1>4, <3>1
      <4>2. \A c \in Coefficient : f[ChildIndex(n, c)] \in Int
        <5> HIDE DEF D
        <5> QED BY <4>a
      <4>3. C \in Arrays BY <4>1, <4>2 DEF Arrays
      <4>4. HaarForward(C)[0] \in Int BY <4>3, ForwardIsArray, ScaleIs DEF Arrays
      <4> QED BY <3>1, <4>1, <4>4
    <3>2. CASE n \notin over
      <4>1. n \in JustBelow(over) BY <1>1, <3>2
      <4> QED BY <3>2, <4>1
    <3> QED BY <3>1, <3>2
  <2>3. G \in [[D -> Int] -> [D -> Int]]
    <3> HIDE DEF D, Body
    <3> QED BY <2>2
  <2>4. [D -> Int] # {}
    <3> HIDE DEF D
    <3>1. [n \in D |-> 0] \in [D -> Int] OBVIOUS
    <3> QED BY <3>1
  <2>5. ASSUME NEW f \in [D -> Int], NEW g \in [D -> Int], NEW n \in D,
               \A m \in D : rank[m] < rank[n] => f[m] = g[m]
        PROVE  Body(f, n) = Body(g, n)
    <3>1. CASE n \in over
      <4>1. ASSUME NEW c \in Coefficient PROVE f[ChildIndex(n, c)] = g[ChildIndex(n, c)]
        <5>1. PICK m \in D : m = ChildIndex(n, c) /\ m.height = n.height - 1 BY <1>4, <3>1
        <5>2. n.height \in 1..TreeLevels BY <1>4, <3>1
        <5>3. rank[m] < rank[n] BY <5>1, <5>2, LevelsAre
        <5> QED BY <2>5, <5>1, <5>3
      <4>2. [c \in Coefficient |-> f[ChildIndex(n, c)]] = [c \in Coefficient |-> g[ChildIndex(n, c)]]
        BY <4>1, Zenon
      <4> QED BY <3>1, <4>2
    <3>2. CASE n \notin over BY <3>2
    <3> QED BY <3>1, <3>2
  <2>6. \A f, g \in [D -> Int] : \A n \in D :
          (\A m \in D : rank[m] < rank[n] => f[m] = g[m]) => G[f][n] = G[g][n]
    <3> HIDE DEF D, Body, rank
    <3> QED BY <2>5
  <2> HIDE DEF D, rank, G, Body
  <2>7. IsRecursion(G, D, Int, rank, L) BY <2>1, <2>3, <2>4, <2>6 DEF IsRecursion
  <2>8. \E f \in [D -> Int] : f = G[f] BY <2>0, <2>7, FixedPoint
  <2> QED BY <2>8 DEF G
<1>6. choice = [n \in D |-> Body(choice, n)]
  <2> HIDE DEF D, Body
  <2> QED BY <1>5, Zenon
<1> HIDE DEF choice
<1>7. PICK sum : sum = choice OBVIOUS
<1>8. \A n \in over : sum[n] = HaarForward([c \in Coefficient |-> sum[ChildIndex(n, c)]])[0]
  BY <1>6, <1>7
<1>9. \A n \in JustBelow(over) : sum[n] = change[n] /\ change[n] \in Int /\ n \notin over
  BY <1>1, <1>6, <1>7 DEF JustBelow
<1> DEFINE Column0(n) == [c \in Coefficient |-> sum[ChildIndex(n, c)]]
           Divided(n) == sum[n] \in Int /\ sum[n] % Exp2(Dim * (TreeLevels - n.height)) = 0
           S == {n \in InternalIndex : n \in D => Divided(n)}
<1>10. ASSUME NEW n \in over, \A c \in Coefficient : ChildIndex(n, c) \in S
       PROVE  Column0(n) \in Arrays /\ Wide(Column0(n)) /\ Divided(n)
  <2>1. PICK h \in 1..TreeLevels : h = n.height BY <1>4, ScaleIs
  <2>2. PICK e \in Nat \ {0} : e = Exp2(Dim * (TreeLevels - h)) BY <2>1, LevelsAre, LevelScales
  <2>3. Exp2(Dim * (TreeLevels - (h - 1))) = Exp2(Dim) * e BY <2>2, LevelScales
  <2>4. ASSUME NEW c \in Coefficient
        PROVE  sum[ChildIndex(n, c)] \in Int /\ sum[ChildIndex(n, c)] % (Exp2(Dim) * e) = 0
    <3>1. Divided(ChildIndex(n, c)) BY <1>4, <1>10
    <3>2. ChildIndex(n, c).height = h - 1 BY <1>4, <2>1
    <3> QED BY <2>3, <3>1, <3>2
  <2>5. PICK C \in Arrays : C = Column0(n)
    <3>1. Column0(n) \in [Coefficient -> Int] BY <2>4
    <3> QED BY <3>1 DEF Arrays
  <2>6. \A c \in Coefficient : C[c] % (Exp2(Dim) * e) = 0 BY <2>4, <2>5
  <2>7. Wide(C) /\ HaarForward(C)[0] \in Int /\ HaarForward(C)[0] % e = 0 BY <2>6, ForwardScale
  <2>8. sum[n] = HaarForward(C)[0] BY <1>8, <2>5
  <2> QED BY <2>1, <2>2, <2>5, <2>7, <2>8
<1>11. InternalIndex \subseteq S
  <2>1. ASSUME NEW n \in InternalIndex, n \in InnerIndex => \A c \in Coefficient : ChildIndex(n, c) \in S
        PROVE  n \in S
    <3>1. CASE n \in over BY <1>2, <1>10, <2>1, <3>1
    <3>2. CASE n \in JustBelow(over)
      <4>1. sum[n] = change[n] /\ change[n] \in Int BY <1>9, <3>2
      <4>2. Halves(n, change[n]) BY <1>1, <1>3, <3>2
      <4> QED BY <4>1, <4>2 DEF Halves
    <3>3. CASE n \notin D BY <3>3
    <3> QED BY <1>1, <3>1, <3>2, <3>3
  <2> HIDE DEF S
  <2> QED BY <2>1, UpFromCells
<1>12. ASSUME NEW n \in over
       PROVE  /\ Column0(n) \in Arrays /\ Wide(Column0(n))
              /\ sum[n] \in Int /\ sum[n] = HaarForward(Column0(n))[0]
              /\ HaarForward(Column0(n)) \in Arrays
  <2>1. \A c \in Coefficient : ChildIndex(n, c) \in S BY <1>4, <1>11
  <2> QED BY <1>8, <1>10, <2>1, ForwardIsArray
<1> HIDE DEF S
<1> DEFINE Top(n) == CHOOSE m : IsTop(over, m, n)
           added == [n \in InternalIndex |-> IF n \in over THEN sum[n] ELSE change[Top(n)]]
           details == [n \in InnerIndex |-> IF n \in over THEN [i \in Detail |-> HaarForward(Column0(n))[i]]
                                            ELSE NoDetails]
<1>13. ASSUME NEW n \in InternalIndex, n \notin over
       PROVE  /\ IsTop(over, Top(n), n) /\ Top(n) \in JustBelow(over) /\ change[Top(n)] \in Int
              /\ \A m : IsTop(over, m, n) => m = Top(n)
  <2>1. \E m : IsTop(over, m, n) BY <1>13, OneTop
  <2>2. IsTop(over, Top(n), n) BY <2>1
  <2> HIDE DEF Top
  <2>3. Top(n) \in JustBelow(over) BY <2>2 DEF IsTop
  <2> QED BY <1>9, <2>2, <2>3, OneTop
<1>14. added \in [InternalIndex -> Int]
  <2>1. ASSUME NEW n \in InternalIndex PROVE (IF n \in over THEN sum[n] ELSE change[Top(n)]) \in Int
    <3> HIDE DEF Top
    <3> QED BY <1>12, <1>13
  <2> HIDE DEF Top
  <2> QED BY <2>1
<1>15. details \in [InnerIndex -> [Detail -> Int]]
  <2>1. ASSUME NEW n \in InnerIndex
        PROVE  (IF n \in over THEN [i \in Detail |-> HaarForward(Column0(n))[i]] ELSE NoDetails)
                 \in [Detail -> Int]
    <3>1. n \in over => \A i \in Detail : HaarForward(Column0(n))[i] \in Int
      BY <1>12 DEF Arrays, Detail
    <3>2. NoDetails \in [Detail -> Int] BY DEF NoDetails
    <3> HIDE DEF Column0
    <3> QED BY <3>1, <3>2
  <2> HIDE DEF Column0
  <2> QED BY <2>1
<1>16. ASSUME NEW n \in over, NEW c \in Coefficient PROVE added[ChildIndex(n, c)] = Column0(n)[c]
  <2>1. PICK m : m = ChildIndex(n, c) OBVIOUS
  <2>2. m \in D /\ m \in InternalIndex BY <1>4, <2>1
  <2>3. m \notin over => sum[m] = change[Top(m)]
    <3> SUFFICES ASSUME m \notin over PROVE sum[m] = change[Top(m)] OBVIOUS
    <3>1. m \in JustBelow(over) BY <1>1, <2>2
    <3>2. m.height \in m.height..TreeLevels
      <4>1. m.height \in 0..TreeLevels BY <2>2, InternalIs
      <4> QED BY <4>1, LevelsAre
    <3>3. IsTop(over, m, m)
      <4>1. Ancestor(m, m.height) = m BY <2>2, <3>2, AncestorsAre
      <4> QED BY <3>1, <3>2, <4>1 DEF IsTop
    <3>4. Top(m) = m BY <1>13, <2>2, <3>3
    <3> QED BY <1>9, <3>1, <3>4
  <2>4. added[m] = sum[m]
    <3> HIDE DEF Top
    <3> QED BY <2>2, <2>3
  <2> QED BY <2>1, <2>4
<1>17. ASSUME NEW n \in InnerIndex, n \notin over, NEW c \in Coefficient
       PROVE  added[ChildIndex(n, c)] = added[n]
  <2>1. PICK m : m = ChildIndex(n, c) OBVIOUS
  <2>2. m \in InternalIndex /\ m # TreeRoot /\ m.height + 1 = n.height /\ Ancestor(m, n.height) = n
    BY <2>1, OffspringIs
  <2>3. Above(m) = n BY <2>2 DEF Above
  <2>4. m \notin over BY <1>17, <2>2, <2>3 DEF Rooted
  <2>5. n \in InternalIndex BY DEF InnerIndex
  <2>6. IsTop(over, Top(n), m)
    <3>1. IsTop(over, Top(n), Above(m)) BY <1>13, <1>17, <2>3, <2>5
    <3> HIDE DEF Top
    <3> QED BY <2>2, <3>1, OneTop
  <2>7. Top(m) = Top(n) BY <1>13, <2>2, <2>4, <2>6
  <2> HIDE DEF Top
  <2> QED BY <1>17, <2>1, <2>2, <2>4, <2>5, <2>7
<1>18. IsChange(over, added, details)
  <2>1. ASSUME NEW n \in over
        PROVE  \E C \in Arrays :
                 /\ Wide(C) /\ \A c \in Coefficient : C[c] = added[ChildIndex(n, c)]
                 /\ added[n] = HaarForward(C)[0] /\ \A i \in Detail : details[n][i] = HaarForward(C)[i]
    <3>1. PICK C \in Arrays : C = Column0(n) BY <1>12
    <3>2. Wide(C) /\ \A c \in Coefficient : C[c] = added[ChildIndex(n, c)] BY <1>12, <1>16, <3>1
    <3>3. added[n] = sum[n] /\ sum[n] = HaarForward(C)[0] BY <1>2, <1>12, <3>1
    <3>4. details[n] = [i \in Detail |-> HaarForward(C)[i]] BY <1>2, <3>1
    <3> HIDE DEF added, details, Column0
    <3> QED BY <3>2, <3>3, <3>4
  <2>2. ASSUME NEW n \in InnerIndex \ over PROVE details[n] = NoDetails BY <2>2
  <2> HIDE DEF added, details
  <2> QED BY <1>2, <1>14, <1>15, <1>17, <2>1, <2>2 DEF IsChange
<1>19. Applied(added, details)
  <2>1. added[TreeRoot] = choice[TreeRoot] BY <1>2, <1>7, InternalIs
  <2>2. ASSUME NEW n \in InnerIndex
        PROVE  [i \in Detail |-> detail_coefficients[n][i] + details[n][i]] =
                 IF n \in over
                 THEN [i \in Detail |->
                         detail_coefficients[n][i]
                           + HaarForward([c \in Coefficient |-> choice[ChildIndex(n, c)]])[i]]
                 ELSE detail_coefficients[n]
    <3>1. CASE n \in over
      <4>1. details[n] = [i \in Detail |-> HaarForward(Column0(n))[i]] BY <3>1
      <4>2. Column0(n) = [c \in Coefficient |-> choice[ChildIndex(n, c)]] BY <1>7
      <4> HIDE DEF Column0, details
      <4> QED BY <3>1, <4>1, <4>2
    <3>2. CASE n \notin over
      <4>1. details[n] = NoDetails BY <3>2
      <4>2. detail_coefficients[n] \in [Detail -> Int] BY DEF ExactDetails
      <4>3. \A i \in Detail : detail_coefficients[n][i] + details[n][i] = detail_coefficients[n][i]
        <5> HIDE DEF details
        <5> QED BY <4>1, <4>2 DEF NoDetails
      <4> HIDE DEF details
      <4> QED BY <3>2, <4>2, <4>3
    <3> QED BY <3>1, <3>2
  <2>3. detail_coefficients' =
          [n \in InnerIndex |-> [i \in Detail |-> detail_coefficients[n][i] + details[n][i]]]
    <3> HIDE DEF details
    <3> QED BY <1>3, <2>2
  <2>4. ASSUME NEW c \in CellIndex
        PROVE  change[CHOOSE n \in DOMAIN change : n = Over(c, n.height)] = added[CellNode(c)]
    <3>1. PICK x : x = CellNode(c) OBVIOUS
    <3>2. x \in InternalIndex /\ x.height = 0 BY <3>1, CellNodeIs
    <3>3. x \notin over BY <1>2, <3>2 DEF InnerIndex
    <3>4. PICK m : m = Top(x) OBVIOUS
    <3>5. IsTop(over, m, x) /\ \A k : IsTop(over, k, x) => k = m BY <1>13, <3>2, <3>3, <3>4, Zenon
    <3>6. m \in DOMAIN change /\ m = Over(c, m.height)
      BY <1>1, <3>1, <3>5 DEF IsTop, Over, CellNode
    <3>7. ASSUME NEW k \in DOMAIN change, k = Over(c, k.height) PROVE k = m
      <4>1. k \in JustBelow(over) /\ k \in InternalIndex BY <1>1, <3>7 DEF JustBelow
      <4>2. k.height \in x.height..TreeLevels BY <3>2, <4>1, InternalIs
      <4>3. IsTop(over, k, x) BY <3>1, <3>7, <4>1, <4>2 DEF IsTop, Over, CellNode
      <4> QED BY <3>5, <4>3
    <3>8. (CHOOSE n \in DOMAIN change : n = Over(c, n.height)) = m BY <3>6, <3>7, Zenon
    <3>9. added[x] = change[m]
      <4> HIDE DEF Top
      <4> QED BY <3>2, <3>3, <3>4
    <3> QED BY <3>1, <3>8, <3>9
  <2>5. cells' = [c \in CellIndex |-> cells[c] + added[CellNode(c)]]
    <3> HIDE DEF added
    <3> QED BY <1>3, <2>4
  <2> HIDE DEF added, details
  <2> QED BY <1>3, <2>1, <2>3, <2>5 DEF Applied
<1> HIDE DEF added, details
<1> QED BY <1>18, <1>19

LEMMA ForwardOfOneIsArray ==
  ASSUME NEW v \in Int, NEW j \in Coefficient PROVE ForwardSingleChild(v, j) \in Arrays
<1>1. ASSUME NEW p \in Coefficient PROVE (Sign(p, j) * v) \div ForwardDivisor[p] \in Int
  <2>1. PICK f \in Nat \ {0} : f = ForwardDivisor[p] BY DivisorsAre
  <2>2. PICK s \in {-1, 1} : s = Sign(p, j) BY SignIs
  <2>3. PICK x \in Int : x = s * v OBVIOUS
  <2>4. x \div f \in Int BY DivisionIs
  <2> QED BY <2>1, <2>2, <2>3, <2>4
<1> QED BY <1>1 DEF ForwardSingleChild, Arrays

\* What addToNodeValue computes on the way up.
LEMMA UpIs ==
  ASSUME NEW n \in InternalIndex, n # TreeRoot, NEW change \in Int, AddToNodeValue(n, change)
  PROVE  \E up \in [n.height..TreeLevels -> Arrays] :
           /\ up[n.height][0] = change
           /\ \A h \in n.height + 1..TreeLevels :
                up[h] = ForwardSingleChild(up[h - 1][0], Which[Ancestor(n, h - 1)])
           /\ Halves(n, change)
           /\ scale_coefficient' = scale_coefficient + up[TreeLevels][0]
           /\ detail_coefficients' =
                [m \in InnerIndex |-> IF m \in AncestorsOf(n)
                                      THEN [i \in Detail |-> detail_coefficients[m][i] + up[m.height][i]]
                                      ELSE detail_coefficients[m]]
           /\ tree_nodes' = tree_nodes \cup AncestorsOf(n)
           /\ cells' = [c \in CellIndex |-> IF n = Over(c, n.height) THEN cells[c] + change ELSE cells[c]]
<1> DEFINE D == n.height..TreeLevels
           Body(f, h) ==
             IF h = n.height THEN [i \in Coefficient |-> IF i = 0 THEN change ELSE 0]
             ELSE ForwardSingleChild(f[h - 1][0], Which[Ancestor(n, h - 1)])
           choice == CHOOSE f : f = [h \in D |-> Body(f, h)]
<1>1. PICK L \in Nat, a \in Nat : L = TreeLevels /\ a = n.height /\ a < L /\ D = a..L
  <2>1. TreeLevels \in Nat /\ n.height \in 0..TreeLevels /\ n.height # TreeLevels
    BY LevelsAre, InternalIs
  <2> QED BY <2>1
<1>2. /\ Halves(n, change)
      /\ scale_coefficient' = scale_coefficient + choice[TreeLevels][0]
      /\ detail_coefficients' =
           [m \in InnerIndex |-> IF m \in AncestorsOf(n)
                                 THEN [i \in Detail |-> detail_coefficients[m][i] + choice[m.height][i]]
                                 ELSE detail_coefficients[m]]
      /\ tree_nodes' = tree_nodes \cup AncestorsOf(n)
      /\ cells' = [c \in CellIndex |-> IF n = Over(c, n.height) THEN cells[c] + change ELSE cells[c]]
  BY Zenon DEF AddToNodeValue
<1>3. \E f \in [D -> Arrays] : f = [h \in D |-> Body(f, h)]
  <2> DEFINE rank == [h \in D |-> h]
             G == [f \in [D -> Arrays] |-> [h \in D |-> Body(f, h)]]
  <2>1. rank \in [D -> 0..L] BY <1>1
  <2>2. ASSUME NEW f \in [D -> Arrays], NEW h \in D PROVE Body(f, h) \in Arrays
    <3>1. CASE h = n.height
      <4>1. [i \in Coefficient |-> IF i = 0 THEN change ELSE 0] \in Arrays BY DEF Arrays
      <4> QED BY <3>1, <4>1
    <3>2. CASE h # n.height
      <4>1. h - 1 \in D BY <1>1, <3>2
      <4>2. Which[Ancestor(n, h - 1)] \in Coefficient
        <5>1. PICK g \in n.height..TreeLevels : g = h - 1 BY <4>1
        <5>2. Ancestor(n, g) \in InternalIndex BY AncestorsAre
        <5> QED BY <5>1, <5>2, WhichIs
      <4>3. f[h - 1][0] \in Int BY <4>1, ScaleIs DEF Arrays
      <4> QED BY <3>2, <4>2, <4>3, ForwardOfOneIsArray
    <3> QED BY <3>1, <3>2
  <2>3. G \in [[D -> Arrays] -> [D -> Arrays]]
    <3> HIDE DEF D, Body
    <3> QED BY <2>2
  <2>4. [D -> Arrays] # {}
    <3> HIDE DEF D
    <3>1. [h \in D |-> [i \in Coefficient |-> 0]] \in [D -> Arrays] BY DEF Arrays
    <3> QED BY <3>1
  <2>5. ASSUME NEW f \in [D -> Arrays], NEW g \in [D -> Arrays], NEW h \in D,
               \A m \in D : rank[m] < rank[h] => f[m] = g[m]
        PROVE  Body(f, h) = Body(g, h)
    <3>1. CASE h = n.height BY <3>1
    <3>2. CASE h # n.height
      <4>1. h - 1 \in D /\ h - 1 < h BY <1>1, <3>2
      <4>2. f[h - 1] = g[h - 1] BY <2>5, <4>1
      <4> QED BY <3>2, <4>2
    <3> QED BY <3>1, <3>2
  <2>6. \A f, g \in [D -> Arrays] : \A h \in D :
          (\A m \in D : rank[m] < rank[h] => f[m] = g[m]) => G[f][h] = G[g][h]
    <3> HIDE DEF D, Body, rank
    <3> QED BY <2>5
  <2> HIDE DEF D, rank, G, Body
  <2>7. IsRecursion(G, D, Arrays, rank, L) BY <2>1, <2>3, <2>4, <2>6 DEF IsRecursion
  <2>8. \E f \in [D -> Arrays] : f = G[f] BY <2>7, FixedPoint
  <2> QED BY <2>8 DEF G
<1>4. choice = [h \in D |-> Body(choice, h)]
  <2> HIDE DEF D, Body
  <2> QED BY <1>3, Zenon
<1> HIDE DEF choice
<1>5. PICK up : up = choice OBVIOUS
<1>6. up[n.height][0] = change
  <2>1. n.height \in D BY <1>1
  <2> QED BY <1>4, <1>5, <2>1, ScaleIs
<1>7. ASSUME NEW h \in n.height + 1..TreeLevels
      PROVE  /\ up[h] = ForwardSingleChild(up[h - 1][0], Which[Ancestor(n, h - 1)])
             /\ Which[Ancestor(n, h - 1)] \in Coefficient
  <2>1. h \in D /\ h # n.height /\ h - 1 \in D BY <1>1
  <2>2. PICK g \in n.height..TreeLevels : g = h - 1 BY <2>1
  <2>3. Ancestor(n, g) \in InternalIndex BY AncestorsAre
  <2> QED BY <1>4, <1>5, <2>1, <2>2, <2>3, WhichIs
<1> DEFINE K == {k \in Nat : a + k <= L => up[a + k] \in Arrays}
<1>8. 0 \in K
  <2>1. up[a] = [i \in Coefficient |-> IF i = 0 THEN change ELSE 0] /\ a + 0 = a
    BY <1>1, <1>4, <1>5
  <2>2. [i \in Coefficient |-> IF i = 0 THEN change ELSE 0] \in Arrays BY DEF Arrays
  <2> QED BY <2>1, <2>2
<1>9. ASSUME NEW k \in Nat, k \in K PROVE k + 1 \in K
  <2> SUFFICES ASSUME a + (k + 1) <= L PROVE up[a + (k + 1)] \in Arrays OBVIOUS
  <2>1. PICK h \in n.height + 1..TreeLevels : h = a + (k + 1) /\ h - 1 = a + k BY <1>1
  <2>2. up[h - 1] \in Arrays BY <1>9, <2>1
  <2>3. up[h - 1][0] \in Int BY <2>2, ScaleIs DEF Arrays
  <2>4. PICK j \in Coefficient : j = Which[Ancestor(n, h - 1)] BY <1>7
  <2>5. ForwardSingleChild(up[h - 1][0], j) \in Arrays BY <2>3, ForwardOfOneIsArray
  <2> QED BY <1>7, <2>1, <2>4, <2>5
<1> HIDE DEF K
<1>10. Nat \subseteq K BY <1>8, <1>9, NatInductionSet
<1>11. ASSUME NEW h \in D PROVE up[h] \in Arrays
  <2>1. PICK k \in Nat : h = a + k /\ a + k <= L
    <3>1. h - a \in Nat /\ h = a + (h - a) BY <1>1
    <3> QED BY <1>1, <3>1
  <2> QED BY <1>10, <2>1 DEF K
<1>12. up \in [n.height..TreeLevels -> Arrays]
  <2>1. up = [h \in D |-> up[h]]
    <3> HIDE DEF D, Body
    <3> QED BY <1>4, <1>5
  <2> QED BY <1>11, <2>1
<1> HIDE DEF D
<1> QED BY <1>2, <1>5, <1>6, <1>7, <1>12

LEMMA AncestorsAreRooted ==
  ASSUME NEW n \in InternalIndex, n # TreeRoot
  PROVE  /\ Rooted(AncestorsOf(n))
         /\ \A m \in InternalIndex :
              m \in AncestorsOf(n) <=> m.height \in n.height + 1..TreeLevels /\ m = Ancestor(n, m.height)
<1>1. PICK L \in Nat, a \in Nat : L = TreeLevels /\ a = n.height /\ a < L
  <2>1. TreeLevels \in Nat /\ n.height \in 0..TreeLevels /\ n.height # TreeLevels
    BY LevelsAre, InternalIs
  <2> QED BY <2>1
<1>2. ASSUME NEW h \in n.height + 1..TreeLevels
      PROVE  /\ Ancestor(n, h) \in InternalIndex /\ Ancestor(n, h).height = h /\ h > 0 /\ h \in Nat
             /\ h \in n.height..TreeLevels
             /\ \A g \in h..TreeLevels : Ancestor(Ancestor(n, h), g) = Ancestor(n, g)
  <2>1. h \in n.height..TreeLevels /\ h > 0 /\ h \in Nat BY <1>1
  <2> QED BY <2>1, AncestorsAre
<1>3. ASSUME NEW m \in AncestorsOf(n)
      PROVE  /\ m \in InnerIndex /\ m.height \in n.height + 1..TreeLevels /\ m = Ancestor(n, m.height)
             /\ m # TreeRoot => Above(m) \in AncestorsOf(n)
  <2>1. PICK h \in n.height + 1..TreeLevels : m = Ancestor(n, h) BY DEF AncestorsOf
  <2>2. m.height = h /\ m \in InnerIndex /\ m = Ancestor(n, m.height) BY <1>2, <2>1 DEF InnerIndex
  <2>3. ASSUME m # TreeRoot PROVE Above(m) \in AncestorsOf(n)
    <3>1. m.height # TreeLevels BY <2>2, <2>3, InternalIs DEF InnerIndex
    <3>2. PICK g \in n.height + 1..TreeLevels : g = h + 1 /\ g \in h..TreeLevels BY <1>1, <2>2, <3>1
    <3>3. Above(m) = Ancestor(n, g) BY <1>2, <2>1, <2>2, <3>2 DEF Above
    <3> QED BY <3>3 DEF AncestorsOf
  <2> QED BY <2>1, <2>2, <2>3
<1>4. TreeRoot \in AncestorsOf(n)
  <2>1. TreeLevels \in n.height + 1..TreeLevels /\ TreeLevels \in n.height..TreeLevels BY <1>1
  <2>2. Ancestor(n, TreeLevels) = TreeRoot BY <2>1, AncestorsAre
  <2> QED BY <2>1, <2>2 DEF AncestorsOf
<1>5. Rooted(AncestorsOf(n)) BY <1>3, <1>4 DEF Rooted
<1>6. ASSUME NEW m \in InternalIndex, m.height \in n.height + 1..TreeLevels, m = Ancestor(n, m.height)
      PROVE  m \in AncestorsOf(n)
  BY <1>6 DEF AncestorsOf
<1> QED BY <1>3, <1>5, <1>6

\* What the change of a node makes of the tree.
LEMMA NodeChangeIsApplied ==
  ASSUME TreeSound, NEW n \in InternalIndex, n # TreeRoot, NEW change \in Int,
         AddToNodeValue(n, change)
  PROVE  \E added, details : IsChange(AncestorsOf(n), added, details) /\ Applied(added, details)
<1>1. PICK L \in Nat, a \in Nat : L = TreeLevels /\ a = n.height /\ a < L
  <2>1. TreeLevels \in Nat /\ n.height \in 0..TreeLevels /\ n.height # TreeLevels
    BY LevelsAre, InternalIs
  <2> QED BY <2>1
<1>2. PICK over : over = AncestorsOf(n) OBVIOUS
<1>3. /\ Rooted(over) /\ TreeRoot \in over /\ over \subseteq InnerIndex /\ over \subseteq InternalIndex
      /\ \A m \in InternalIndex :
           m \in over <=> m.height \in n.height + 1..TreeLevels /\ m = Ancestor(n, m.height)
  BY <1>2, AncestorsAreRooted DEF Rooted, InnerIndex
<1>4. PICK up \in [n.height..TreeLevels -> Arrays] :
        /\ up[n.height][0] = change
        /\ \A h \in n.height + 1..TreeLevels :
             up[h] = ForwardSingleChild(up[h - 1][0], Which[Ancestor(n, h - 1)])
        /\ Halves(n, change)
        /\ scale_coefficient' = scale_coefficient + up[TreeLevels][0]
        /\ detail_coefficients' =
             [m \in InnerIndex |-> IF m \in over
                                   THEN [i \in Detail |-> detail_coefficients[m][i] + up[m.height][i]]
                                   ELSE detail_coefficients[m]]
        /\ cells' = [c \in CellIndex |-> IF n = Over(c, n.height) THEN cells[c] + change ELSE cells[c]]
  BY <1>2, UpIs
<1>5. \A h \in a..L : up[h] \in Arrays /\ up[h][0] \in Int BY <1>1, <1>4, ScaleIs DEF Arrays
\* Going up one level.
<1> DEFINE Divided(h) == up[h][0] % Exp2(Dim * (TreeLevels - h)) = 0
           Single(h) == [c \in Coefficient |-> IF c = Which[Ancestor(n, h)] THEN up[h][0] ELSE 0]
<1>6. ASSUME NEW h \in a + 1..L, Divided(h - 1)
      PROVE  /\ Divided(h) /\ Single(h - 1) \in Arrays /\ Wide(Single(h - 1))
             /\ up[h] = HaarForward(Single(h - 1))
  <2>1. PICK g \in a..L : g = h - 1 BY <1>1
  <2>2. PICK v \in Int : v = up[g][0] BY <1>5
  <2>3. PICK j \in Coefficient : j = Which[Ancestor(n, g)]
    <3>1. Ancestor(n, g) \in InternalIndex BY <1>1, AncestorsAre
    <3> QED BY <3>1, WhichIs
  <2>4. PICK C \in Arrays : C = Single(g)
    <3>1. Single(g) \in [Coefficient -> Int] BY <2>2
    <3> QED BY <3>1 DEF Arrays
  <2>5. \A c \in Coefficient : C[c] = IF c = j THEN v ELSE 0 BY <2>2, <2>3, <2>4
  <2>6. h \in 1..TreeLevels /\ h \in 0..TreeLevels BY <1>1
  <2>7. PICK e \in Nat \ {0} : e = Exp2(Dim * (TreeLevels - h)) BY <2>6, LevelScales
  <2>8. Exp2(Dim * (TreeLevels - (h - 1))) = Exp2(Dim) * e BY <2>6, <2>7, LevelScales
  <2>9. PICK d \in Nat \ {0} : d = Exp2(Dim) BY CoefficientsAre
  <2>10. 0 % (d * e) = 0
    <3>1. PICK x \in Nat \ {0} : x = d * e
      <4>1. d * e \in Nat /\ d * e # 0 OBVIOUS
      <4> QED BY <4>1
    <3>2. PICK z \in Int : z = 0 OBVIOUS
    <3>a. 0 \in 0..x - 1 OBVIOUS
    <3>3. (x * z + 0) % x = 0 BY <3>a, QuotientIs
    <3>4. x * z + 0 = 0 BY <3>2
    <3> QED BY <3>1, <3>3, <3>4
  <2>11. v % (d * e) = 0 BY <1>6, <2>1, <2>2, <2>8, <2>9
  <2>12. \A c \in Coefficient : C[c] % (Exp2(Dim) * e) = 0 BY <2>5, <2>9, <2>10, <2>11
  <2>13. Wide(C) /\ HaarForward(C)[0] \in Int /\ HaarForward(C)[0] % e = 0 BY <2>12, ForwardScale
  <2>14. v % Exp2(Dim) = 0
    <3>1. C[j] = v BY <2>5
    <3> QED BY <2>13, <3>1 DEF Wide
  <2>15. ForwardSingleChild(v, j) = HaarForward(C) BY <2>5, <2>14, ForwardOfOne
  <2>16. up[h] = ForwardSingleChild(v, j) BY <1>1, <1>4, <2>1, <2>2, <2>3
  <2> QED BY <2>1, <2>4, <2>7, <2>13, <2>15, <2>16
<1> DEFINE K == {k \in Nat : a + k <= L => Divided(a + k)}
<1>7. 0 \in K
  <2>1. a + 0 = a /\ Divided(a) BY <1>1, <1>4 DEF Halves
  <2> QED BY <2>1
<1>8. ASSUME NEW k \in Nat, k \in K PROVE k + 1 \in K
  <2> SUFFICES ASSUME a + (k + 1) <= L PROVE Divided(a + (k + 1)) OBVIOUS
  <2>1. PICK h \in a + 1..L : h = a + (k + 1) /\ h - 1 = a + k BY SMTT(30), <1>1
  <2>2. Divided(h - 1) BY <1>8, <2>1
  <2> HIDE DEF Divided
  <2> QED BY <1>6, <2>1, <2>2
<1> HIDE DEF K
<1>9. Nat \subseteq K BY <1>7, <1>8, NatInductionSet
<1>10. ASSUME NEW h \in a..L PROVE Divided(h)
  <2>1. PICK k \in Nat : h = a + k /\ a + k <= L
    <3>1. h - a \in Nat /\ h = a + (h - a) BY <1>1
    <3> QED BY <1>1, <3>1
  <2> QED BY <1>9, <2>1 DEF K
<1>11. ASSUME NEW h \in a + 1..L
       PROVE  Single(h - 1) \in Arrays /\ Wide(Single(h - 1)) /\ up[h] = HaarForward(Single(h - 1))
  <2>1. h - 1 \in a..L BY <1>1
  <2>2. Divided(h - 1) BY <1>10, <2>1
  <2> HIDE DEF Divided, Single
  <2> QED BY <1>6, <2>2
<1> HIDE DEF Divided
\* The change of each node.
<1> DEFINE In(m) == m.height <= n.height /\ Ancestor(m, n.height) = n
           Added(m) == IF m \in over THEN up[m.height][0] ELSE IF In(m) THEN change ELSE 0
           added == [m \in InternalIndex |-> Added(m)]
           details == [m \in InnerIndex |-> IF m \in over THEN [i \in Detail |-> up[m.height][i]]
                                            ELSE NoDetails]
<1>12. ASSUME NEW m \in over PROVE m.height \in a + 1..L /\ m.height \in a..L /\ m = Ancestor(n, m.height)
  <2>1. m.height \in a + 1..L /\ m = Ancestor(n, m.height) BY <1>1, <1>3
  <2> QED BY <1>1, <2>1
<1>13. added \in [InternalIndex -> Int]
  <2>1. ASSUME NEW m \in InternalIndex PROVE Added(m) \in Int BY <1>5, <1>12
  <2> HIDE DEF Added
  <2> QED BY <2>1
<1>14. details \in [InnerIndex -> [Detail -> Int]]
  <2>1. ASSUME NEW m \in InnerIndex
        PROVE  (IF m \in over THEN [i \in Detail |-> up[m.height][i]] ELSE NoDetails) \in [Detail -> Int]
    <3>1. m \in over => \A i \in Detail : up[m.height][i] \in Int BY <1>5, <1>12 DEF Arrays, Detail
    <3>2. NoDetails \in [Detail -> Int] BY DEF NoDetails
    <3> QED BY <3>1, <3>2
  <2> QED BY <2>1
<1>15. ASSUME NEW m \in over, NEW c \in Coefficient
       PROVE  added[ChildIndex(m, c)] = Single(m.height - 1)[c]
  <2>1. PICK h \in a + 1..L : h = m.height /\ m = Ancestor(n, h) BY <1>12
  <2>2. PICK k : k = ChildIndex(m, c) OBVIOUS
  <2>3. m \in InnerIndex BY <1>3
  <2>4. k \in InternalIndex /\ k # TreeRoot /\ k.height = h - 1 /\ Which[k] = c /\ Ancestor(k, h) = m
    BY <2>1, <2>2, <2>3, OffspringIs
  <2>5. PICK g \in n.height..TreeLevels : g = h - 1 /\ g + 1 = h BY <1>1, <2>1
  <2>6. PICK x : x = Ancestor(n, g) OBVIOUS
  <2>7. x \in InternalIndex /\ x.height = g BY <2>6, AncestorsAre
  <2>8. x # TreeRoot BY <1>1, <2>1, <2>5, <2>7, InternalIs
  <2>9. Above(x) = m
    <3>1. h \in g..TreeLevels BY <1>1, <2>1, <2>5
    <3>2. Ancestor(Ancestor(n, g), h) = Ancestor(n, h) BY <3>1, AncestorsAre
    <3> QED BY <2>1, <2>5, <2>6, <2>7, <3>2 DEF Above
  <2>10. ChildIndex(m, Which[x]) = x BY <2>7, <2>8, <2>9, AboveIs
  <2>11. k = x <=> c = Which[x] BY <2>2, <2>4, <2>10
  <2>12. Single(m.height - 1)[c] = IF c = Which[x] THEN up[g][0] ELSE 0 BY <2>1, <2>5, <2>6
  <2>13. CASE k = x
    <3>1. Added(k) = up[g][0]
      <4>1. CASE k \in over BY <2>4, <2>5, <4>1
      <4>2. CASE k \notin over
        <5>1. g = n.height
          <6> SUFFICES ASSUME g # n.height PROVE FALSE OBVIOUS
          <6>1. g \in n.height + 1..TreeLevels BY <1>1, <2>5
          <6> QED BY <1>3, <2>4, <2>5, <2>6, <2>13, <4>2, <6>1
        <5>2. n.height \in n.height..TreeLevels BY <1>1
        <5>3. Ancestor(n, n.height) = n BY <5>2, AncestorsAre
        <5>4. k = n BY <2>6, <2>13, <5>1, <5>3
        <5>5. In(k) BY <1>1, <5>3, <5>4
        <5> QED BY <1>4, <4>2, <5>1, <5>5
      <4> QED BY <4>1, <4>2
    <3> HIDE DEF Added
    <3> QED BY <2>2, <2>4, <2>11, <2>12, <2>13, <3>1
  <2>14. CASE k # x
    <3>1. k \notin over BY <1>3, <2>4, <2>5, <2>6, <2>14
    <3>2. ~In(k)
      <4> SUFFICES ASSUME In(k) PROVE FALSE OBVIOUS
      <4>1. g = n.height /\ n.height \in k.height..TreeLevels BY <1>1, <2>4, <2>5
      <4>2. Ancestor(k, g) = k
        <5>1. k.height \in k.height..TreeLevels BY <2>4, <4>1, <1>1
        <5> QED BY <2>4, <2>5, <5>1, AncestorsAre
      <4>3. Ancestor(n, n.height) = n
        <5>1. n.height \in n.height..TreeLevels BY <1>1
        <5> QED BY <5>1, AncestorsAre
      <4> QED BY <2>6, <2>14, <4>1, <4>2, <4>3
    <3>3. Added(k) = 0 BY <3>1, <3>2
    <3> HIDE DEF Added
    <3> QED BY <2>2, <2>4, <2>11, <2>12, <2>14, <3>3
  <2> QED BY <2>13, <2>14
<1>16. ASSUME NEW m \in InnerIndex, m \notin over, NEW c \in Coefficient
       PROVE  added[ChildIndex(m, c)] = added[m]
  <2>1. PICK k : k = ChildIndex(m, c) OBVIOUS
  <2>2. /\ k \in InternalIndex /\ k # TreeRoot /\ k.height + 1 = m.height /\ Above(k) = m
        /\ m \in InternalIndex
    BY <2>1, OffspringIs DEF Above, InnerIndex
  <2>3. k \notin over BY <1>3, <1>16, <2>2 DEF Rooted
  <2>4. k.height \in Nat /\ m.height \in 0..TreeLevels BY <2>2, InternalIs, AboveIs
  <2>5. In(k) <=> In(m)
    <3>1. CASE m.height <= n.height
      <4>1. n.height \in k.height + 1..TreeLevels /\ k.height <= n.height BY <1>1, <2>2, <2>4, <3>1
      <4>2. Ancestor(k, n.height) = Ancestor(m, n.height) BY <2>2, <4>1, AboveIs
      <4> QED BY <3>1, <4>1, <4>2
    <3>2. CASE ~(m.height <= n.height)
      <4> SUFFICES ASSUME In(k) PROVE FALSE BY <3>2
      <4>1. k.height = n.height BY <1>1, <2>2, <2>4, <3>2
      <4>2. k = n
        <5>1. k.height \in k.height..TreeLevels BY <1>1, <2>2, <2>4, <4>1
        <5> QED BY <2>2, <4>1, <5>1, AncestorsAre
      <4>3. m = Ancestor(n, m.height) BY <2>2, <4>1, <4>2 DEF Above
      <4>4. m.height \in n.height + 1..TreeLevels BY <1>1, <2>2, <2>4, <4>1
      <4> QED BY <1>3, <1>16, <2>2, <4>3, <4>4
    <3> QED BY <3>1, <3>2
  <2>6. Added(k) = Added(m)
    <3> HIDE DEF In
    <3> QED BY <1>16, <2>3, <2>5
  <2> HIDE DEF Added
  <2> QED BY <2>1, <2>2, <2>6
<1> HIDE DEF Added, In
<1>17. IsChange(over, added, details)
  <2>1. ASSUME NEW m \in over
        PROVE  \E C \in Arrays :
                 /\ Wide(C) /\ \A c \in Coefficient : C[c] = added[ChildIndex(m, c)]
                 /\ added[m] = HaarForward(C)[0] /\ \A i \in Detail : details[m][i] = HaarForward(C)[i]
    <3>1. m.height \in a + 1..L BY <1>12
    <3>2. Single(m.height - 1) \in Arrays BY <1>11, <3>1
    <3>3. PICK C \in Arrays : C = Single(m.height - 1) BY <3>2
    <3>4. Wide(C) /\ up[m.height] = HaarForward(C) BY <1>11, <3>1, <3>3
    <3>5. \A c \in Coefficient : C[c] = added[ChildIndex(m, c)] BY <1>15, <3>3
    <3>6. added[m] = up[m.height][0] BY <1>3 DEF Added
    <3>7. details[m] = [i \in Detail |-> up[m.height][i]] BY <1>3
    <3> HIDE DEF added, details, Single
    <3> QED BY <3>4, <3>5, <3>6, <3>7
  <2>2. ASSUME NEW m \in InnerIndex \ over PROVE details[m] = NoDetails BY <2>2
  <2> HIDE DEF added, details
  <2> QED BY <1>3, <1>13, <1>14, <1>16, <2>1, <2>2 DEF IsChange
<1>18. Applied(added, details)
  <2>1. added[TreeRoot] = up[TreeLevels][0] BY <1>3, InternalIs DEF Added
  <2>2. ASSUME NEW m \in InnerIndex
        PROVE  [i \in Detail |-> detail_coefficients[m][i] + details[m][i]] =
                 IF m \in over THEN [i \in Detail |-> detail_coefficients[m][i] + up[m.height][i]]
                 ELSE detail_coefficients[m]
    <3>1. CASE m \in over
      <4>1. details[m] = [i \in Detail |-> up[m.height][i]] BY <3>1
      <4> HIDE DEF details
      <4> QED BY <3>1, <4>1
    <3>2. CASE m \notin over
      <4>1. details[m] = NoDetails BY <3>2
      <4>2. detail_coefficients[m] \in [Detail -> Int] BY DEF TreeSound, ExactDetails
      <4>3. \A i \in Detail : detail_coefficients[m][i] + details[m][i] = detail_coefficients[m][i]
        <5> HIDE DEF details
        <5> QED BY <4>1, <4>2 DEF NoDetails
      <4> HIDE DEF details
      <4> QED BY <3>2, <4>2, <4>3
    <3> QED BY <3>1, <3>2
  <2>3. detail_coefficients' =
          [m \in InnerIndex |-> [i \in Detail |-> detail_coefficients[m][i] + details[m][i]]]
    <3> HIDE DEF details
    <3> QED BY <1>4, <2>2
  <2>4. ASSUME NEW c \in CellIndex
        PROVE  cells[c] + added[CellNode(c)] =
                 IF n = Over(c, n.height) THEN cells[c] + change ELSE cells[c]
    <3>1. PICK x : x = CellNode(c) OBVIOUS
    <3>2. x \in InternalIndex /\ x.height = 0 BY <3>1, CellNodeIs
    <3>3. x \notin over BY <1>3, <3>2 DEF InnerIndex
    <3>4. In(x) <=> n = Over(c, n.height) BY <1>1, <3>1, <3>2 DEF In, Over, CellNode
    <3>5. added[x] = IF n = Over(c, n.height) THEN change ELSE 0 BY <3>2, <3>3, <3>4 DEF Added
    <3>6. PICK y \in Int : y = cells[c]
      <4>1. PICK v : Carried(v, detail_coefficients) /\ cells = CellsOf(v) BY DEF TreeSound, ValuesSound
      <4>2. cells[c] = v[x] /\ v[x] \in Int BY <3>1, <3>2, <4>1 DEF CellsOf, Carried
      <4> QED BY <4>2
    <3> HIDE DEF added
    <3> QED BY <3>1, <3>5, <3>6
  <2>5. cells' = [c \in CellIndex |-> cells[c] + added[CellNode(c)]]
    <3> HIDE DEF added
    <3> QED BY <1>4, <2>4
  <2> HIDE DEF added, details
  <2> QED BY <1>4, <2>1, <2>3, <2>5 DEF Applied
<1> HIDE DEF added, details
<1> QED BY <1>2, <1>17, <1>18

-----------------------------------------------------------------------------
(* What is read                                                            *)

LEMMA ScaledIsExact ==
  ASSUME ExactDetails(detail_coefficients), NEW n \in InnerIndex, NEW s \in Int
  PROVE  /\ Exact(WithScale(s, n)) /\ WithScale(s, n) = Column(s, detail_coefficients[n])
         /\ \A c \in Coefficient : /\ HaarBackward(WithScale(s, n))[c] = BackwardSingleChild(WithScale(s, n), c)
                                   /\ HaarBackward(WithScale(s, n))[c] \in Int
<1>1. WithScale(s, n) = Column(s, detail_coefficients[n]) BY DEF WithScale, Column
<1>2. Exact(Column(s, detail_coefficients[n])) BY ColumnIsExact
<1>3. PICK P : P = WithScale(s, n) OBVIOUS
<1>4. Exact(P) BY <1>1, <1>2, <1>3
<1>5. \A c \in Coefficient : HaarBackward(P)[c] = BackwardSingleChild(P, c) /\ BackwardSingleChild(P, c) \in Int
  BY <1>4, BackwardIs
<1> QED BY <1>1, <1>3, <1>4, <1>5

\* The value of a node, from that of its parent.
LEMMA ValueBelow ==
  ASSUME TreeSound, NEW v, Carried(v, detail_coefficients), NEW n \in InternalIndex, n # TreeRoot
  PROVE  /\ v[Above(n)] \in Int /\ v[n] \in Int /\ Above(n) \in InnerIndex
         /\ v[n] = BackwardSingleChild(WithScale(v[Above(n)], Above(n)), Which[n])
         /\ v[n] = HaarBackward(WithScale(v[Above(n)], Above(n)))[Which[n]]
         /\ Above(n) \notin tree_nodes => v[n] = v[Above(n)]
<1>1. PICK p \in InnerIndex, c \in Coefficient : p = Above(n) /\ c = Which[n] /\ ChildIndex(p, c) = n
  BY AboveIs
<1>2. v[p] \in Int /\ v[n] \in Int BY DEF Carried, InnerIndex
<1>3. PICK P : P = WithScale(v[p], p) OBVIOUS
<1>4. /\ Exact(P) /\ P = Column(v[p], detail_coefficients[p]) /\ HaarBackward(P)[c] = BackwardSingleChild(P, c)
  BY <1>2, <1>3, ScaledIsExact DEF TreeSound
<1>5. v[n] = BackwardSingleChild(P, c) BY <1>1, <1>4 DEF Carried
<1>6. ASSUME p \notin tree_nodes PROVE v[n] = v[p]
  <2>1. detail_coefficients[p] = NoDetails BY <1>6 DEF TreeSound, NodesSound
  <2>2. \A i \in Detail : P[i] = 0 BY <1>4, <2>1 DEF NoDetails, Column, Detail
  <2>3. P[0] = v[p] BY <1>4, ScaleIs DEF Column
  <2>4. P \in Arrays BY <1>4 DEF Exact
  <2> QED BY <1>5, <2>2, <2>3, <2>4, BackwardOfScale
<1> QED BY <1>1, <1>2, <1>3, <1>4, <1>5, <1>6

LEMMA ValuesAre ==
  ASSUME TreeSound, NEW v, Carried(v, detail_coefficients), scale_coefficient = v[TreeRoot]
  PROVE  NodeValueAt = v
<1> DEFINE Body(f, n) ==
             IF n = TreeRoot THEN scale_coefficient
             ELSE IF Ancestor(n, n.height + 1) \in tree_nodes
                  THEN BackwardSingleChild(WithScale(f[Ancestor(n, n.height + 1)], Ancestor(n, n.height + 1)), Which[n])
                  ELSE f[Ancestor(n, n.height + 1)]
           choice == CHOOSE f : f = [n \in InternalIndex |-> Body(f, n)]
<1>1. NodeValueAt = choice BY Zenon DEF NodeValueAt
<1>2. ASSUME NEW n \in InternalIndex PROVE Body(v, n) = v[n]
  <2>1. CASE n = TreeRoot BY <2>1
  <2>2. CASE n # TreeRoot BY <2>2, ValueBelow DEF Above
  <2> QED BY <2>1, <2>2
<1>3. v = [n \in InternalIndex |-> Body(v, n)]
  <2>1. v = [n \in InternalIndex |-> v[n]] BY DEF Carried
  <2> HIDE DEF Body
  <2> QED BY <1>2, <2>1
<1>4. choice = [n \in InternalIndex |-> Body(choice, n)]
  <2> HIDE DEF Body
  <2> QED BY <1>3, Zenon
<1>5. PICK f : f = choice OBVIOUS
<1>6. f = [n \in InternalIndex |-> Body(f, n)]
  <2> HIDE DEF Body
  <2> QED BY <1>4, <1>5
<1> HIDE DEF choice
<1>7. \A n \in InternalIndex : f[n] = Body(f, n)
  <2> HIDE DEF Body
  <2> QED BY <1>6
<1> DEFINE S == {n \in InternalIndex : f[n] = v[n]}
<1>8. TreeRoot \in S BY <1>7, InternalIs
<1>9. ASSUME NEW n \in InternalIndex \ {TreeRoot}, Above(n) \in S PROVE n \in S
  <2>1. f[Ancestor(n, n.height + 1)] = v[Ancestor(n, n.height + 1)] BY <1>9 DEF Above
  <2>2. Body(f, n) = Body(v, n) BY <2>1
  <2> HIDE DEF Body
  <2> QED BY <1>2, <1>7, <2>2
<1> HIDE DEF S
<1>10. InternalIndex \subseteq S BY <1>8, <1>9, DownFromRoot
<1>11. \A n \in InternalIndex : f[n] = v[n] BY <1>10 DEF S
<1>12. f = [n \in InternalIndex |-> f[n]]
  <2> HIDE DEF Body
  <2> QED BY <1>6
<1>13. v = [n \in InternalIndex |-> v[n]] BY DEF Carried
<1> QED BY <1>1, <1>5, <1>11, <1>12, <1>13, Zenon

LEMMA LeavesOfValues ==
  ASSUME TreeSound, ~TreeIsEmpty, NEW v, Carried(v, detail_coefficients), scale_coefficient = v[TreeRoot]
  PROVE  TreeLeaves = {[node |-> ToExternal(n), value |-> v[n]] :
                         n \in (UNION {Offspring(m) : m \in tree_nodes}) \ tree_nodes}
<1> DEFINE Body(f, n) ==
             IF n = TreeRoot THEN scale_coefficient
             ELSE HaarBackward(WithScale(f[Ancestor(n, n.height + 1)], Ancestor(n, n.height + 1)))[Which[n]]
           choice == CHOOSE f : f = [n \in InternalIndex |-> Body(f, n)]
           AllLeaves(f) == {[node |-> ToExternal(n), value |-> f[n]] :
                           n \in (UNION {Offspring(m) : m \in tree_nodes}) \ tree_nodes}
<1>1. TreeLeaves = AllLeaves(choice) BY Zenon DEF TreeLeaves
<1>2. ASSUME NEW n \in InternalIndex PROVE Body(v, n) = v[n]
  <2>1. CASE n = TreeRoot BY <2>1
  <2>2. CASE n # TreeRoot BY <2>2, ValueBelow DEF Above
  <2> QED BY <2>1, <2>2
<1>3. v = [n \in InternalIndex |-> Body(v, n)]
  <2>1. v = [n \in InternalIndex |-> v[n]] BY DEF Carried
  <2> HIDE DEF Body
  <2> QED BY <1>2, <2>1
<1>4. choice = [n \in InternalIndex |-> Body(choice, n)]
  <2> HIDE DEF Body
  <2> QED BY <1>3, Zenon
<1>5. PICK f : f = choice OBVIOUS
<1>6. f = [n \in InternalIndex |-> Body(f, n)]
  <2> HIDE DEF Body
  <2> QED BY <1>4, <1>5
<1> HIDE DEF choice
<1>7. \A n \in InternalIndex : f[n] = Body(f, n)
  <2> HIDE DEF Body
  <2> QED BY <1>6
<1> DEFINE S == {n \in InternalIndex : f[n] = v[n]}
<1>8. TreeRoot \in S BY <1>7, InternalIs
<1>9. ASSUME NEW n \in InternalIndex \ {TreeRoot}, Above(n) \in S PROVE n \in S
  <2>1. f[Ancestor(n, n.height + 1)] = v[Ancestor(n, n.height + 1)] BY <1>9 DEF Above
  <2>2. Body(f, n) = Body(v, n) BY <2>1
  <2> HIDE DEF Body
  <2> QED BY <1>2, <1>7, <2>2
<1> HIDE DEF S
<1>10. InternalIndex \subseteq S BY <1>8, <1>9, DownFromRoot
<1>11. \A n \in InternalIndex : f[n] = v[n] BY <1>10 DEF S
<1>12. f = [n \in InternalIndex |-> f[n]]
  <2> HIDE DEF Body
  <2> QED BY <1>6
<1>13. v = [n \in InternalIndex |-> v[n]] BY DEF Carried
<1>14. f = v BY <1>11, <1>12, <1>13, Zenon
<1> HIDE DEF AllLeaves
<1>15. TreeLeaves = AllLeaves(v) BY <1>1, <1>5, <1>14
<1> QED BY <1>15, Zenon DEF AllLeaves

LEMMA BelievedIs ==
  ASSUME ExactDetails(detail_coefficients), scale_coefficient \in Int
  PROVE  ValueBelieved \in [InternalIndex -> Int]
<1> DEFINE D == InternalIndex
           Body(f, n) ==
             IF n.height >= TreeLevels - 1 THEN scale_coefficient
             ELSE HaarBackward(WithScale(f[Ancestor(n, n.height + 1)], Ancestor(n, n.height + 1)))[Which[n]]
           choice == CHOOSE f : f = [n \in InternalIndex |-> Body(f, n)]
<1>1. ValueBelieved = choice BY Zenon DEF ValueBelieved
<1>2. PICK L \in Nat : L = TreeLevels BY LevelsAre
<1>3. ASSUME NEW n \in InternalIndex, ~(n.height >= TreeLevels - 1)
      PROVE  /\ n # TreeRoot /\ Ancestor(n, n.height + 1) = Above(n)
             /\ Above(n) \in InnerIndex /\ Above(n) \in InternalIndex
             /\ Above(n).height = n.height + 1 /\ Which[n] \in Coefficient
  <2>1. n # TreeRoot
    <3>1. TreeRoot.height = L BY <1>2, InternalIs
    <3> QED BY <1>2, <1>3, <3>1
  <2> QED BY <2>1, AboveIs DEF Above
<1>4. ASSUME NEW f, NEW n \in InternalIndex, n # TreeRoot => f[Above(n)] \in Int PROVE Body(f, n) \in Int
  <2>1. CASE n.height >= TreeLevels - 1 BY <2>1
  <2>2. CASE ~(n.height >= TreeLevels - 1)
    <3>1. PICK p \in InnerIndex, c \in Coefficient : p = Above(n) /\ c = Which[n] BY <1>3, <2>2
    <3>2. f[p] \in Int BY <1>3, <1>4, <2>2, <3>1
    <3>3. HaarBackward(WithScale(f[p], p))[c] \in Int BY <3>2, ScaledIsExact
    <3>4. Ancestor(n, n.height + 1) = p BY <1>3, <2>2, <3>1
    <3> QED BY <2>2, <3>1, <3>3, <3>4
  <2> QED BY <2>1, <2>2
<1>5. \E f \in [D -> Int] : f = [n \in D |-> Body(f, n)]
  <2> DEFINE rank == [n \in D |-> L - n.height]
             G == [f \in [D -> Int] |-> [n \in D |-> Body(f, n)]]
  <2>1. rank \in [D -> 0..L]
    <3>1. ASSUME NEW n \in D PROVE L - n.height \in 0..L BY <1>2, InternalIs
    <3> QED BY <3>1
  <2>2. ASSUME NEW f \in [D -> Int], NEW n \in D PROVE Body(f, n) \in Int
    <3>1. n # TreeRoot => f[Above(n)] \in Int BY AboveIs
    <3> HIDE DEF Body
    <3> QED BY <1>4, <3>1
  <2>3. G \in [[D -> Int] -> [D -> Int]]
    <3> HIDE DEF D, Body
    <3> QED BY <2>2
  <2>4. [D -> Int] # {}
    <3> HIDE DEF D
    <3>1. [n \in D |-> 0] \in [D -> Int] OBVIOUS
    <3> QED BY <3>1
  <2>5. ASSUME NEW f \in [D -> Int], NEW g \in [D -> Int], NEW n \in D,
               \A m \in D : rank[m] < rank[n] => f[m] = g[m]
        PROVE  Body(f, n) = Body(g, n)
    <3>1. CASE n.height >= TreeLevels - 1 BY <3>1
    <3>2. CASE ~(n.height >= TreeLevels - 1)
      <4>1. Above(n) \in D /\ Above(n).height = n.height + 1 BY <1>3, <3>2
      <4>2. n.height \in 0..L BY <1>2, InternalIs
      <4>3. rank[Above(n)] < rank[n] BY <1>2, <4>1, <4>2
      <4>4. f[Ancestor(n, n.height + 1)] = g[Ancestor(n, n.height + 1)] BY <1>3, <2>5, <3>2, <4>1, <4>3
      <4> QED BY <3>2, <4>4
    <3> QED BY <3>1, <3>2
  <2>6. \A f, g \in [D -> Int] : \A n \in D :
          (\A m \in D : rank[m] < rank[n] => f[m] = g[m]) => G[f][n] = G[g][n]
    <3> HIDE DEF D, Body, rank
    <3> QED BY <2>5
  <2> HIDE DEF D, rank, G, Body
  <2>7. IsRecursion(G, D, Int, rank, L) BY <2>1, <2>3, <2>4, <2>6 DEF IsRecursion
  <2>8. \E f \in [D -> Int] : f = G[f] BY <2>7, FixedPoint
  <2> QED BY <2>8 DEF G
<1>6. choice = [n \in InternalIndex |-> Body(choice, n)]
  <2> HIDE DEF Body
  <2> QED BY <1>5, Zenon
<1>7. PICK f : f = choice OBVIOUS
<1>8. f = [n \in InternalIndex |-> Body(f, n)]
  <2> HIDE DEF Body
  <2> QED BY <1>6, <1>7
<1> HIDE DEF choice, Body
<1>9. \A n \in InternalIndex : f[n] = Body(f, n) BY <1>8
<1> DEFINE S == {n \in InternalIndex : f[n] \in Int}
<1>10. TreeRoot \in S BY <1>4, <1>9, InternalIs
<1>11. ASSUME NEW n \in InternalIndex \ {TreeRoot}, Above(n) \in S PROVE n \in S BY <1>4, <1>9, <1>11
<1> HIDE DEF S
<1>12. InternalIndex \subseteq S BY <1>10, <1>11, DownFromRoot
<1>13. \A n \in InternalIndex : f[n] \in Int BY <1>12 DEF S
<1>14. f \in [InternalIndex -> Int]
  <2>1. f = [n \in InternalIndex |-> f[n]] BY <1>8
  <2> QED BY <1>13, <2>1
<1> QED BY <1>1, <1>7, <1>14

-----------------------------------------------------------------------------
(* Every step keeps the tree sound                                         *)

LEMMA SoundAfter ==
  ASSUME TreeSound, NEW over, NEW added, NEW details, IsChange(over, added, details),
         Applied(added, details), Rooted(tree_nodes'),
         \A n \in InnerIndex \ tree_nodes' : n \in tree_nodes \cup over => detail_coefficients'[n] = NoDetails
  PROVE  TreeSound'
<1>1. /\ ExactDetails(detail_coefficients') /\ ValuesSound'
      /\ \A n \in InnerIndex \ (tree_nodes \cup over) : detail_coefficients'[n] = NoDetails
  BY AppliedIsSound
<1>2. NodesSound(tree_nodes', detail_coefficients') BY <1>1 DEF NodesSound
<1> QED BY <1>1, <1>2 DEF TreeSound

LEMMA RootedUnion ==
  ASSUME NEW A, NEW B, Rooted(A), Rooted(B) PROVE Rooted(A \cup B)
BY DEF Rooted

\* A tree without details.
LEMMA EmptyIsSound ==
  ASSUME scale_coefficient = 0, detail_coefficients = [n \in InnerIndex |-> NoDetails],
         tree_nodes = {TreeRoot}, cells = [c \in CellIndex |-> 0]
  PROVE  TreeSound
<1>1. PICK v : v = [n \in InternalIndex |-> 0] OBVIOUS
<1>2. PICK d : d = detail_coefficients OBVIOUS
<1>3. d \in [InnerIndex -> [Detail -> Int]] BY <1>2 DEF NoDetails
<1>4. ASSUME NEW n \in InnerIndex
      PROVE  /\ Exact(Column(0, d[n]))
             /\ \A c \in Coefficient : BackwardSingleChild(Column(0, d[n]), c) = 0
  <2>1. PICK P : P = Column(0, d[n]) OBVIOUS
  <2>2. \A i \in Coefficient : P[i] = 0 BY <1>2, <2>1 DEF Column, NoDetails, Detail
  <2>3. P \in Arrays
    <3>1. P = [i \in Coefficient |-> P[i]] BY <2>1 DEF Column
    <3> QED BY <2>2, <3>1 DEF Arrays
  <2>4. P[0] = 0 /\ \A i \in Detail : P[i] = 0 BY <2>2, ScaleIs DEF Detail
  <2>5. Exact(P) /\ \A c \in Coefficient : BackwardSingleChild(P, c) = P[0]
    BY <2>3, <2>4, BackwardOfScale
  <2> QED BY <2>1, <2>4, <2>5
<1>5. ExactDetails(d)
  <2>1. ASSUME NEW n \in InnerIndex, NEW i \in Detail PROVE d[n][i] % Weight(Bits(i)) = 0
    <3>1. i \in Coefficient /\ i # 0 BY DEF Detail
    <3>2. Column(0, d[n])[i] = d[n][i] BY <3>1 DEF Column
    <3>3. Column(0, d[n])[i] % Weight(Bits(i)) = 0 BY <1>4, <3>1 DEF Exact
    <3> QED BY <3>2, <3>3
  <2> QED BY <1>3, <2>1 DEF ExactDetails
<1>6. Carried(v, d)
  <2>1. \A n \in InternalIndex : v[n] = 0 BY <1>1
  <2>2. ASSUME NEW n \in InnerIndex, NEW c \in Coefficient
        PROVE  v[ChildIndex(n, c)] = BackwardSingleChild(Column(v[n], d[n]), c)
    <3>1. ChildIndex(n, c) \in InternalIndex /\ n \in InternalIndex BY ChildrenAre DEF InnerIndex
    <3>2. v[ChildIndex(n, c)] = 0 /\ v[n] = 0 BY <2>1, <3>1
    <3> QED BY <1>4, <3>2
  <2>3. v \in [InternalIndex -> Int] BY <1>1
  <2> QED BY <2>2, <2>3 DEF Carried
<1>7. cells = CellsOf(v)
  <2>1. \A c \in CellIndex : v[CellNode(c)] = 0 BY <1>1, CellNodeIs
  <2> QED BY <2>1 DEF CellsOf
<1>8. ValuesSound
  <2>1. scale_coefficient = v[TreeRoot] BY <1>1, InternalIs
  <2> QED BY <1>2, <1>6, <1>7, <2>1 DEF ValuesSound
<1>9. Rooted(tree_nodes)
  <2>1. TreeRoot \in InnerIndex BY SMTT(30), InternalIs, LevelsAre DEF InnerIndex
  <2> QED BY <2>1 DEF Rooted
<1>10. NodesSound(tree_nodes, detail_coefficients) BY <1>9 DEF NodesSound
<1> QED BY <1>2, <1>5, <1>8, <1>10 DEF TreeSound

LEMMA InsideIs ==
  ASSUME NEW n \in NodeIndex
  PROVE  /\ ToInternal(n) \in InternalIndex /\ ToInternal(n).height = n.height
         /\ ToInternal(n) # TreeRoot /\ n.height \in 0..MaxHeight
<1>1. ToInternal(n) \in InternalIndex BY DEF InternalIndex
<1>2. ToInternal(n).height = n.height BY DEF ToInternal, Node
<1>3. n.height \in 0..MaxHeight
  <2>1. PICK h \in 0..MaxHeight, c \in CellIndex : n = ParentIndex(Node(0, c), h) BY DEF NodeIndex
  <2> QED BY <2>1 DEF ParentIndex, Node
<1>4. ToInternal(n) # TreeRoot
  <2>1. TreeRoot.height = MaxHeight + 1 /\ MaxHeight \in Nat BY InternalIs, LevelsAre, IndexAssumption
  <2> QED BY <1>2, <1>3, <2>1
<1> QED BY <1>1, <1>2, <1>3, <1>4

LEMMA AddToNodeIsSound ==
  ASSUME TreeSound, NEW n \in InternalIndex, n # TreeRoot, NEW change \in Int,
         AddToNodeValue(n, change)
  PROVE  TreeSound'
<1>1. PICK added, details : IsChange(AncestorsOf(n), added, details) /\ Applied(added, details)
  BY NodeChangeIsApplied
<1>2. tree_nodes' = tree_nodes \cup AncestorsOf(n) BY DEF AddToNodeValue
<1>3. Rooted(tree_nodes') BY <1>2, AncestorsAreRooted, RootedUnion DEF TreeSound, NodesSound
<1>4. \A m \in InnerIndex \ tree_nodes' : ~(m \in tree_nodes \cup AncestorsOf(n)) BY <1>2
<1> QED BY <1>1, <1>3, <1>4, SoundAfter

LEMMA ValuesAreInts ==
  ASSUME TreeSound
  PROVE  NodeValueAt \in [InternalIndex -> Int] /\ scale_coefficient \in Int
<1>1. PICK v : Carried(v, detail_coefficients) /\ scale_coefficient = v[TreeRoot]
  BY DEF TreeSound, ValuesSound
<1>2. NodeValueAt = v BY <1>1, ValuesAre
<1> QED BY <1>1, <1>2, InternalIs DEF Carried

LEMMA AddIsSound == ASSUME TreeSound, AddToTree PROVE TreeSound'
<1>1. PICK n \in TreeWritten, v \in TreeStep : AddToNodeValue(ToInternal(n), v) BY DEF AddToTree
<1>2. n \in NodeIndex /\ v \in Int BY TreeAssumption
<1>3. ToInternal(n) \in InternalIndex /\ ToInternal(n) # TreeRoot BY <1>2, InsideIs
<1> QED BY <1>1, <1>2, <1>3, AddToNodeIsSound

LEMMA SetIsSound == ASSUME TreeSound, SetInTree PROVE TreeSound'
<1>1. PICK n \in TreeWritten, v \in TreeStep :
        AddToNodeValue(ToInternal(n), v - NodeValueAt[Ancestor(ToInternal(n), n.height + 1)])
  BY DEF SetInTree
<1>2. n \in NodeIndex /\ v \in Int BY TreeAssumption
<1>3. PICK m \in InternalIndex : m = ToInternal(n) /\ m # TreeRoot /\ m.height = n.height
  BY <1>2, InsideIs
<1>4. NodeValueAt[Ancestor(ToInternal(n), n.height + 1)] \in Int
  <2>1. Above(m) \in InternalIndex BY <1>3, AboveIs
  <2>2. Ancestor(ToInternal(n), n.height + 1) = Above(m) BY <1>3 DEF Above
  <2> QED BY <2>1, <2>2, ValuesAreInts
<1>5. PICK x \in Int : x = v - NodeValueAt[Ancestor(ToInternal(n), n.height + 1)] BY <1>2, <1>4
<1> QED BY <1>1, <1>3, <1>5, AddToNodeIsSound

LEMMA LimitedIs ==
  ASSUME NEW low \in Int, NEW high \in Int, NEW v \in Int PROVE LimitTo(low, high, v) \in Int
BY DEF LimitTo

\* The limits of all values are a change just below the tree.
LEMMA LimitIsApplied ==
  ASSUME TreeSound, LimitTree
  PROVE  \E added, details : IsChange(tree_nodes, added, details) /\ Applied(added, details)
<1>1. PICK change : /\ change = [n \in JustBelow(tree_nodes) |->
                                   LimitTo(TreeMin, TreeMax, NodeValueAt[n]) - NodeValueAt[n]]
                    /\ AddChanges(tree_nodes, change)
  BY DEF LimitTree
<1>2. ASSUME NEW n \in JustBelow(tree_nodes)
      PROVE  LimitTo(TreeMin, TreeMax, NodeValueAt[n]) - NodeValueAt[n] \in Int
  <2>1. n \in InternalIndex BY DEF JustBelow
  <2>2. PICK x \in Int : x = NodeValueAt[n] BY <2>1, ValuesAreInts
  <2>3. PICK y \in Int : y = LimitTo(TreeMin, TreeMax, x) BY LimitedIs, TreeAssumption
  <2> QED BY <2>2, <2>3
<1>3. change \in [JustBelow(tree_nodes) -> Int] BY <1>1, <1>2
<1>4. Rooted(tree_nodes) /\ ExactDetails(detail_coefficients) BY DEF TreeSound, NodesSound
<1> QED BY <1>1, <1>3, <1>4, ChangesAreApplied

LEMMA ThresholdIsSound == ASSUME TreeSound, ThresholdTree PROVE TreeSound'
<1>1. LimitTree /\ tree_nodes' = tree_nodes BY DEF ThresholdTree
<1>2. PICK added, details : IsChange(tree_nodes, added, details) /\ Applied(added, details)
  BY <1>1, LimitIsApplied
<1>3. Rooted(tree_nodes') BY <1>1 DEF TreeSound, NodesSound
<1>4. \A n \in InnerIndex \ tree_nodes' : ~(n \in tree_nodes \cup tree_nodes) BY <1>1
<1> QED BY <1>2, <1>3, <1>4, SoundAfter

LEMMA PruneIsSound == ASSUME TreeSound, PruneWaveletTree PROVE TreeSound'
<1>1. LimitTree /\ tree_nodes' = NodesKept(tree_nodes, detail_coefficients') BY DEF PruneWaveletTree
<1>2. PICK added, details : IsChange(tree_nodes, added, details) /\ Applied(added, details)
  BY <1>1, LimitIsApplied
<1>3. PICK T, d : T = tree_nodes /\ d = detail_coefficients' OBVIOUS
<1>4. Rooted(T) BY <1>3 DEF TreeSound, NodesSound
<1>5. T \subseteq InternalIndex BY <1>4 DEF Rooted, InnerIndex
<1>6. Rooted(NodesKept(T, d))
  <2>1. NodesKept(T, d) \subseteq InnerIndex /\ TreeRoot \in NodesKept(T, d)
    BY <1>4 DEF NodesKept, Rooted
  <2>2. ASSUME NEW n \in NodesKept(T, d), n # TreeRoot PROVE Above(n) \in NodesKept(T, d)
    <3>1. n \in T /\ Above(n) \in T /\ n \in InternalIndex BY <1>4, <1>5, <2>2 DEF NodesKept, Rooted
    <3>2. PICK m \in T : d[m] # NoDetails /\ n \in AncestorsOf(m) \cup {m} BY <2>2 DEF NodesKept
    <3>3. CASE m = TreeRoot
      <4>1. n \notin AncestorsOf(m)
        <5>1. m.height + 1..TreeLevels = {} BY <3>3, InternalIs, LevelsAre
        <5> QED BY <5>1 DEF AncestorsOf
      <4> QED BY <2>2, <3>2, <3>3, <4>1
    <3>4. CASE m # TreeRoot
      <4>1. m \in InternalIndex /\ Rooted(AncestorsOf(m)) BY <1>5, <3>4, AncestorsAreRooted
      <4>2. Above(m) \in AncestorsOf(m)
        <5>1. m.height + 1 \in m.height + 1..TreeLevels
          <6>1. m.height \in Nat /\ m.height + 1 \in 0..TreeLevels BY <3>4, <4>1, AboveIs
          <6> QED BY <6>1
        <5> QED BY <5>1 DEF AncestorsOf, Above
      <4>3. Above(n) \in AncestorsOf(m) BY <2>2, <3>2, <4>1, <4>2 DEF Rooted
      <4> QED BY <3>1, <3>2, <4>3 DEF NodesKept
    <3> QED BY <3>3, <3>4
  <2> QED BY <2>1, <2>2 DEF Rooted
<1>7. ASSUME NEW n \in InnerIndex \ tree_nodes', n \in tree_nodes \cup tree_nodes
      PROVE  detail_coefficients'[n] = NoDetails
  BY <1>1, <1>7 DEF NodesKept
<1> QED BY <1>1, <1>2, <1>3, <1>6, <1>7, SoundAfter

LEMMA IntegrateIsSound == ASSUME TreeSound, IntegrateImage PROVE TreeSound'
<1>1. PICK refined, changed, sample, change :
        /\ refined \in RefinableNodes
        /\ sample \in [changed \cap SeenInside -> TreeStep]
        /\ change = [n \in JustBelow(refined \cup {TreeRoot}) |->
                       IF n \notin changed THEN 0
                       ELSE IF HasNodeBelow(n) THEN IF n \in SeenInside THEN sample[n] ELSE 0
                       ELSE LimitTo(TreeMin - TreeNoise, TreeMax + TreeNoise,
                                    (IF n \in SeenInside THEN sample[n] ELSE 0) + ValueBelieved[n])
                              - ValueBelieved[n]]
        /\ AddChanges(refined \cup {TreeRoot}, change)
        /\ tree_nodes' = tree_nodes \cup (refined \cup {TreeRoot})
  BY DEF IntegrateImage
<1>2. PICK over : over = refined \cup {TreeRoot} OBVIOUS
<1>3. Rooted(over)
  <2>1. refined \subseteq InnerIndex /\ \A n \in refined : AncestorsOf(n) \subseteq over
    BY <1>1, <1>2 DEF RefinableNodes
  <2>2. TreeRoot \in InnerIndex BY SMTT(30), InternalIs, LevelsAre DEF InnerIndex
  <2>3. ASSUME NEW n \in over, n # TreeRoot PROVE Above(n) \in over
    <3>1. n \in refined /\ n \in InternalIndex BY <1>2, <2>1, <2>3 DEF InnerIndex
    <3>2. n.height + 1 \in n.height + 1..TreeLevels
      <4>1. n.height \in Nat /\ n.height + 1 \in 0..TreeLevels BY <2>3, <3>1, AboveIs
      <4> QED BY <4>1
    <3>3. Above(n) \in AncestorsOf(n) BY <3>2 DEF AncestorsOf, Above
    <3> QED BY <2>1, <3>1, <3>3
  <2> QED BY <1>2, <2>1, <2>2, <2>3 DEF Rooted
<1>4. ExactDetails(detail_coefficients) /\ scale_coefficient \in Int BY ValuesAreInts DEF TreeSound
<1>5. PICK believed \in [InternalIndex -> Int] : believed = ValueBelieved BY <1>4, BelievedIs
<1>6. PICK low \in Int, high \in Int : low = TreeMin - TreeNoise /\ high = TreeMax + TreeNoise
  BY TreeAssumption
<1> DEFINE Sampled(n) == IF n \in SeenInside THEN sample[n] ELSE 0
           Change(n) == IF n \notin changed THEN 0
                        ELSE IF HasNodeBelow(n) THEN Sampled(n)
                        ELSE LimitTo(low, high, Sampled(n) + believed[n]) - believed[n]
<1>7. change = [n \in JustBelow(over) |-> Change(n)] BY <1>1, <1>2, <1>5, <1>6
<1>8. ASSUME NEW n \in JustBelow(over) PROVE Change(n) \in Int
  <2>1. CASE n \notin changed BY <2>1
  <2>2. CASE n \in changed
    <3>1. Sampled(n) \in Int BY <1>1, <2>2, TreeAssumption
    <3>2. believed[n] \in Int BY DEF JustBelow
    <3>3. PICK x \in Int, y \in Int, z \in Int : x = Sampled(n) /\ y = believed[n] /\ z = x + y
      BY <3>1, <3>2
    <3>4. PICK l \in Int : l = LimitTo(low, high, z) BY LimitedIs
    <3> HIDE DEF Sampled
    <3> QED BY <3>3, <3>4
  <2> QED BY <2>1, <2>2
<1> HIDE DEF Change
<1>9. change \in [JustBelow(over) -> Int] BY <1>7, <1>8
<1>10. AddChanges(over, change) /\ tree_nodes' = tree_nodes \cup over BY <1>1, <1>2
<1>11. PICK added, details : IsChange(over, added, details) /\ Applied(added, details)
  BY <1>3, <1>4, <1>9, <1>10, ChangesAreApplied
<1>12. Rooted(tree_nodes') BY <1>3, <1>10, RootedUnion DEF TreeSound, NodesSound
<1>13. \A n \in InnerIndex \ tree_nodes' : ~(n \in tree_nodes \cup over) BY <1>10
<1> QED BY <1>11, <1>12, <1>13, SoundAfter

LEMMA TreeSteps == ASSUME TreeSound, [TreeNext]_treeVars PROVE TreeSound'
<1>1. CASE IntegrateImage BY <1>1, IntegrateIsSound
<1>2. CASE AddToTree BY <1>2, AddIsSound
<1>3. CASE SetInTree BY <1>3, SetIsSound
<1>4. CASE ThresholdTree BY <1>4, ThresholdIsSound
<1>5. CASE PruneWaveletTree BY <1>5, PruneIsSound
<1>6. CASE ClearTree
  <2>1. /\ scale_coefficient' = 0 /\ detail_coefficients' = [n \in InnerIndex |-> NoDetails]
        /\ tree_nodes' = {TreeRoot} /\ cells' = [c \in CellIndex |-> 0]
    BY <1>6 DEF ClearTree
  <2>2. ASSUME (scale_coefficient = 0)', (detail_coefficients = [n \in InnerIndex |-> NoDetails])',
               (tree_nodes = {TreeRoot})', (cells = [c \in CellIndex |-> 0])'
        PROVE TreeSound'
    BY <2>2, EmptyIsSound, PTL
  <2> QED BY <2>1, <2>2
<1>7. CASE UNCHANGED treeVars
  <2>1. /\ scale_coefficient' = scale_coefficient /\ detail_coefficients' = detail_coefficients
        /\ tree_nodes' = tree_nodes /\ cells' = cells
    BY <1>7 DEF treeVars
  <2> QED BY <2>1 DEF TreeSound, NodesSound, ValuesSound, ExactDetails, Carried, CellsOf, CellNode
<1> QED BY <1>1, <1>2, <1>3, <1>4, <1>5, <1>6, <1>7 DEF TreeNext

LEMMA TreeStaysSound == TreeSpec => []TreeSound
<1>1. TreeInit => TreeSound BY EmptyIsSound DEF TreeInit
<1>2. TreeSound /\ [TreeNext]_treeVars => TreeSound' BY TreeSteps
<1> QED BY <1>1, <1>2, PTL DEF TreeSpec

-----------------------------------------------------------------------------
(* Nodes and the cells below them                                          *)

LEMMA OverIs ==
  ASSUME NEW c \in CellIndex, NEW h \in 0..MaxHeight
  PROVE  /\ Over(c, h) = ToInternal(ParentIndex(Node(0, c), h)) /\ Over(c, h) = Ancestor(CellNode(c), h)
         /\ ParentIndex(Node(0, c), h) = Node(h, [d \in Axis |-> c[d] \div Exp2(h)])
         /\ ToExternal(Over(c, h)) = ParentIndex(Node(0, c), h)
         /\ ParentIndex(Node(0, c), h) \in NodeIndex
<1>1. PICK f \in Nat \ {0}, w \in Nat \ {0} :
        RootOffset(h) = f /\ Exp2(h) = w /\ Exp2(MaxHeight) = f * w /\ Exp2(TreeLevels - h) = 2 * f
  BY OffsetIs
<1>2. PICK T \in Nat : T = Exp2(MaxHeight) /\ T = w * f
  <2>1. f * w \in Nat /\ f * w = w * f OBVIOUS
  <2> QED BY <1>1, <2>1
<1>3. PICK x : x = CellNode(c) OBVIOUS
<1>4. x \in InternalIndex /\ x.height = 0 /\ \A d \in Axis : x.position[d] = c[d] + T
  BY <1>2, <1>3, CellNodeIs
<1>5. c \in [Axis -> Int]
  <2>1. Coordinate \subseteq Int BY IndexAssumption
  <2> QED BY <2>1 DEF CellIndex
<1>6. h \in x.height..TreeLevels /\ h - x.height = h
  <2>1. TreeLevels = MaxHeight + 1 /\ MaxHeight \in Nat BY LevelsAre, IndexAssumption
  <2> QED BY <1>4, <2>1
<1>7. Ancestor(x, h) = Node(h, [d \in Axis |-> x.position[d] \div w]) BY <1>1, <1>4, <1>6, AncestorsAre
<1>8. ASSUME NEW d \in Axis
      PROVE  x.position[d] \div w = (c[d] \div w) + f /\ (c[d] \div w) \in Int
  <2>1. PICK y \in Int : y = c[d] BY <1>5
  <2>2. PICK a \in Int, r \in 0..(w - 1) : y = w * a + r /\ y \div w = a BY DivisionIs
  <2>3. PICK b \in Int : b = a + f OBVIOUS
  <2>4. (w * b + r) \div w = b BY QuotientIs
  <2>5. w * b = w * a + w * f BY <2>3
  <2>6. x.position[d] = w * b + r
    <3>1. PICK u \in Int, g \in Int : u = w * a /\ g = w * b OBVIOUS
    <3>2. g = u + T BY <1>2, <2>5, <3>1
    <3>3. y = u + r BY <2>2, <3>1
    <3>4. x.position[d] = y + T BY <1>4, <2>1
    <3>5. x.position[d] = g + r BY <3>2, <3>3, <3>4
    <3> QED BY <3>1, <3>5
  <2> QED BY <2>1, <2>2, <2>3, <2>4, <2>6
<1>9. ParentIndex(Node(0, c), h) = Node(h, [d \in Axis |-> c[d] \div w])
  <2>1. h - 0 = h OBVIOUS
  <2> QED BY <1>1, <2>1 DEF ParentIndex, Node, DivExp2Floor
<1>10. ToInternal(Node(h, [d \in Axis |-> c[d] \div w])) = Node(h, [d \in Axis |-> x.position[d] \div w])
  <2>1. ToInternal(Node(h, [d \in Axis |-> c[d] \div w])) = Node(h, [d \in Axis |-> (c[d] \div w) + f])
    BY <1>1 DEF ToInternal, Node
  <2>2. [d \in Axis |-> (c[d] \div w) + f] = [d \in Axis |-> x.position[d] \div w] BY <1>8
  <2> QED BY <2>1, <2>2
<1>11. Over(c, h) = Ancestor(x, h) BY <1>3 DEF Over, CellNode
<1>12. ToExternal(Over(c, h)) = Node(h, [d \in Axis |-> c[d] \div w])
  <2>1. ToExternal(Over(c, h)) = Node(h, [d \in Axis |-> (x.position[d] \div w) - f])
    BY <1>1, <1>7, <1>11 DEF ToExternal, Node
  <2>2. ASSUME NEW d \in Axis PROVE (x.position[d] \div w) - f = c[d] \div w BY <1>8
  <2>3. [d \in Axis |-> (x.position[d] \div w) - f] = [d \in Axis |-> c[d] \div w] BY <2>2
  <2> QED BY <2>1, <2>3
<1>13. ParentIndex(Node(0, c), h) \in NodeIndex BY DEF NodeIndex
<1> QED BY <1>1, <1>3, <1>7, <1>9, <1>10, <1>11, <1>12, <1>13

LEMMA OutsideIs ==
  ASSUME NEW n \in InternalIndex, n # TreeRoot
  PROVE  /\ n.height \in 0..MaxHeight /\ ToInternal(ToExternal(n)) = n
         /\ ToExternal(n).height = n.height
         /\ \E f \in Nat \ {0}, w \in Nat \ {0} :
              /\ Exp2(n.height) = w /\ Exp2(MaxHeight) = w * f
              /\ \A d \in Axis : ToExternal(n).position[d] \in -f..f - 1
<1>1. n.height \in 0..MaxHeight
  <2>1. TreeLevels = MaxHeight + 1 /\ MaxHeight \in Nat BY LevelsAre, IndexAssumption
  <2> QED BY <2>1, ParentIs
<1>2. PICK h \in 0..MaxHeight : h = n.height BY <1>1
<1>3. PICK f \in Nat \ {0}, w \in Nat \ {0} :
        RootOffset(h) = f /\ Exp2(h) = w /\ Exp2(MaxHeight) = f * w /\ Exp2(TreeLevels - h) = 2 * f
  BY OffsetIs
<1>4. n.position \in [Axis -> 0..2 * f - 1] /\ n = Node(h, n.position)
  BY <1>2, <1>3, InternalIs DEF Places
<1>5. ToExternal(n) = Node(h, [d \in Axis |-> n.position[d] - f]) BY <1>2, <1>3 DEF ToExternal
<1>6. ToExternal(n).height = h /\ \A d \in Axis : ToExternal(n).position[d] = n.position[d] - f
  BY <1>5 DEF Node
<1>7. \A d \in Axis : ToExternal(n).position[d] \in -f..f - 1 BY <1>4, <1>6
<1>8. ToInternal(ToExternal(n)) = n
  <2>1. ToInternal(ToExternal(n)) = Node(h, [d \in Axis |-> (n.position[d] - f) + f])
    BY <1>3, <1>5 DEF ToInternal, Node
  <2>2. \A d \in Axis : (n.position[d] - f) + f = n.position[d] BY <1>4
  <2>3. [d \in Axis |-> (n.position[d] - f) + f] = n.position BY <1>4, <2>2
  <2> QED BY <1>4, <2>1, <2>3
<1>9. f * w = w * f OBVIOUS
<1> QED BY <1>1, <1>2, <1>3, <1>6, <1>7, <1>8, <1>9

\* The corners of a node are cells below it, and enclose all others.
LEMMA CornersAre ==
  ASSUME NEW n \in InternalIndex, n # TreeRoot
  PROVE  /\ MinCornerIndex(ToExternal(n)) \in CellIndex /\ MaxCornerIndex(ToExternal(n)) \in CellIndex
         /\ Over(MinCornerIndex(ToExternal(n)), n.height) = n
         /\ Over(MaxCornerIndex(ToExternal(n)), n.height) = n
         /\ \A c \in CellIndex : Over(c, n.height) = n =>
              \A d \in Axis : /\ MinCornerIndex(ToExternal(n))[d] <= c[d]
                              /\ c[d] <= MaxCornerIndex(ToExternal(n))[d]
<1>1. PICK h \in 0..MaxHeight : h = n.height BY OutsideIs
<1>2. PICK e : e = ToExternal(n) OBVIOUS
<1>3. PICK f \in Nat \ {0}, w \in Nat \ {0} :
        /\ Exp2(h) = w /\ Exp2(MaxHeight) = w * f /\ e.height = h /\ ToInternal(e) = n
        /\ \A d \in Axis : e.position[d] \in -f..f - 1
  BY <1>1, <1>2, OutsideIs
<1>a. e = Node(h, [d \in Axis |-> e.position[d]]) BY <1>1, <1>2 DEF ToExternal, Node
<1>4. PICK T \in Nat : T = w * f /\ Coordinate = -T..T - 1
  <2>1. w * f \in Nat OBVIOUS
  <2> QED BY <1>3, <2>1, TreeAssumption
<1>5. PICK lo, hi : lo = MinCornerIndex(e) /\ hi = MaxCornerIndex(e) OBVIOUS
<1>6. lo = [d \in Axis |-> lo[d]] /\ hi = [d \in Axis |-> hi[d]]
  BY <1>5 DEF MinCornerIndex, MaxCornerIndex
<1>7. ASSUME NEW d \in Axis
      PROVE  /\ lo[d] \in Coordinate /\ hi[d] \in Coordinate /\ lo[d] \in Int /\ hi[d] \in Int
             /\ lo[d] \div w = e.position[d] /\ hi[d] \div w = e.position[d]
             /\ \A y \in Int : y \div w = e.position[d] => lo[d] <= y /\ y <= hi[d]
  <2>1. PICK q \in Int : q = e.position[d] /\ -f <= q /\ q < f BY <1>3
  <2>2. PICK z \in Int : z = w * q OBVIOUS
  <2>3. lo[d] = z /\ hi[d] = z + w - 1
    <3>1. lo[d] = q * w BY <1>3, <1>5, <2>1 DEF MinCornerIndex
    <3>2. q * w = w * q OBVIOUS
    <3>3. hi[d] = lo[d] + w - 1 BY <1>3, <1>5 DEF MaxCornerIndex
    <3> QED BY <2>2, <3>1, <3>2, <3>3
  <2>4. -T <= z /\ z + w - 1 <= T - 1
    <3>1. PICK g \in Int, t \in Int : g = -f /\ t = -T OBVIOUS
    <3>2. /\ g * w <= q * w /\ q * w + w <= f * w /\ g * w \in Int /\ q * w \in Int /\ f * w \in Int
      BY <2>1, <3>1, ProductOrder
    <3>3. g * w = t /\ q * w = z /\ f * w = T BY <1>4, <2>2, <3>1
    <3> QED BY <3>1, <3>2, <3>3
  <2>5. 0 \in 0..(w - 1) /\ w - 1 \in 0..(w - 1) OBVIOUS
  <2>6. PICK r \in 0..(w - 1) : r = w - 1 BY <2>5
  <2>7. (w * q + 0) \div w = q /\ (w * q + r) \div w = q BY <2>5, QuotientIs
  <2>8. z \div w = q /\ (z + w - 1) \div w = q
    <3>1. w * q + 0 = z /\ w * q + r = z + w - 1 BY <2>2, <2>6
    <3> QED BY <2>7, <3>1
  <2>9. ASSUME NEW y \in Int, y \div w = q PROVE z <= y /\ y <= z + w - 1
    <3>1. PICK a \in Int, s \in 0..(w - 1) : y = w * a + s /\ y \div w = a BY DivisionIs
    <3>2. a = q BY <2>9, <3>1
    <3> QED BY <2>2, <3>1, <3>2
  <2>10. z \in -T..T - 1 /\ z + w - 1 \in -T..T - 1 BY <2>4
  <2> QED BY <1>4, <2>1, <2>3, <2>8, <2>9, <2>10
<1>8. lo \in CellIndex /\ hi \in CellIndex
  <2>1. [d \in Axis |-> lo[d]] \in [Axis -> Coordinate] /\ [d \in Axis |-> hi[d]] \in [Axis -> Coordinate]
    BY SMTT(30), <1>7
  <2> QED BY <1>6, <2>1 DEF CellIndex
<1>9. ASSUME NEW c \in CellIndex, \A d \in Axis : c[d] \div w = e.position[d] PROVE Over(c, h) = n
  <2>1. Over(c, h) = ToInternal(Node(h, [d \in Axis |-> c[d] \div w])) BY <1>3, OverIs
  <2>2. [d \in Axis |-> c[d] \div w] = [d \in Axis |-> e.position[d]] BY <1>9
  <2> QED BY <1>3, <1>a, <2>1, <2>2
<1>10. ASSUME NEW c \in CellIndex, Over(c, h) = n, NEW d \in Axis PROVE lo[d] <= c[d] /\ c[d] <= hi[d]
  <2>1. e = Node(h, [a \in Axis |-> c[a] \div w]) BY <1>2, <1>3, <1>10, OverIs
  <2>2. e.position[d] = c[d] \div w BY <2>1 DEF Node
  <2>3. c[d] \in Int
    <3>1. Coordinate \subseteq Int BY IndexAssumption
    <3> QED BY <3>1 DEF CellIndex
  <2> QED BY <1>7, <2>2, <2>3
<1>11. Over(lo, h) = n /\ Over(hi, h) = n BY <1>7, <1>8, <1>9
<1> QED BY <1>1, <1>2, <1>5, <1>8, <1>10, <1>11

-----------------------------------------------------------------------------
(* A sound tree is an array                                                *)

\* Below the nodes of the tree all values are the same.
LEMMA TopValue ==
  ASSUME TreeSound, NEW v, Carried(v, detail_coefficients)
  PROVE  \A n \in InternalIndex : \A m : IsTop(tree_nodes, m, n) => v[n] = v[m]
<1>1. Rooted(tree_nodes) BY DEF TreeSound, NodesSound
<1> DEFINE S == {n \in InternalIndex : \A m : IsTop(tree_nodes, m, n) => v[n] = v[m]}
<1>2. TreeRoot \in S BY <1>1, InternalIs, OneTop DEF Rooted
<1>3. ASSUME NEW n \in InternalIndex \ {TreeRoot}, Above(n) \in S PROVE n \in S
  <2> SUFFICES ASSUME NEW m, IsTop(tree_nodes, m, n) PROVE v[n] = v[m] OBVIOUS
  <2>1. n \notin tree_nodes BY <1>1, OneTop
  <2>2. CASE Above(n) \in tree_nodes
    <3>1. n \in JustBelow(tree_nodes) BY <2>1, <2>2 DEF JustBelow, Above
    <3>2. n.height \in n.height..TreeLevels BY AboveIs, LevelsAre
    <3>3. Ancestor(n, n.height) = n BY <3>2, AncestorsAre
    <3>4. IsTop(tree_nodes, n, n) BY <3>1, <3>2, <3>3 DEF IsTop
    <3>5. m = n BY <1>1, <3>4, OneTop
    <3> QED BY <3>5
  <2>3. CASE Above(n) \notin tree_nodes
    <3>1. Above(n) \in InternalIndex \ tree_nodes BY <2>3, AboveIs
    <3>2. PICK k : IsTop(tree_nodes, k, Above(n)) BY <1>1, <3>1, OneTop
    <3>3. IsTop(tree_nodes, k, n) BY <1>1, <3>2, OneTop
    <3>4. m = k BY <1>1, <3>3, OneTop
    <3>5. v[n] = v[Above(n)] BY <2>3, ValueBelow
    <3> QED BY <1>3, <3>2, <3>4, <3>5
  <2> QED BY <2>2, <2>3
<1> HIDE DEF S
<1>4. InternalIndex \subseteq S BY <1>2, <1>3, DownFromRoot
<1> QED BY <1>4 DEF S

\* The nodes that have leaves.
LEMMA LeafNodesAre ==
  ASSUME TreeSound
  PROVE  (UNION {Offspring(m) : m \in tree_nodes}) \ tree_nodes = JustBelow(tree_nodes)
<1>1. Rooted(tree_nodes) BY DEF TreeSound, NodesSound
<1>2. ASSUME NEW m \in tree_nodes, NEW n \in Offspring(m), n \notin tree_nodes
      PROVE  n \in JustBelow(tree_nodes)
  <2>1. PICK c \in Coefficient : n = ChildIndex(m, c) BY DEF Offspring
  <2>2. n \in InternalIndex /\ n.height + 1 = m.height /\ Ancestor(n, m.height) = m
    BY <1>1, <2>1, OffspringIs DEF Rooted
  <2> QED BY <1>2, <2>2 DEF JustBelow
<1>3. ASSUME NEW n \in JustBelow(tree_nodes)
      PROVE  n \notin tree_nodes /\ \E m \in tree_nodes : n \in Offspring(m)
  <2>1. n \in InternalIndex /\ n \notin tree_nodes /\ Above(n) \in tree_nodes BY DEF JustBelow, Above
  <2>2. n # TreeRoot BY <1>1, <2>1 DEF Rooted
  <2>3. ChildIndex(Above(n), Which[n]) = n /\ Which[n] \in Coefficient BY <2>1, <2>2, AboveIs
  <2> QED BY <2>1, <2>3 DEF Offspring
<1> QED BY <1>2, <1>3

\* The leaf over a cell has the value of the cell.
LEMMA LeafOverCell ==
  ASSUME TreeSound, NEW v, Carried(v, detail_coefficients), cells = CellsOf(v), NEW c \in CellIndex
  PROVE  /\ \A m \in JustBelow(tree_nodes) :
              (ToExternal(m) = ParentIndex(Node(0, c), m.height)) => v[m] = cells[c]
         /\ \A m \in JustBelow(tree_nodes) : m = Over(c, m.height) => v[m] = cells[c]
         /\ \E m \in JustBelow(tree_nodes) :
              /\ ToExternal(m) = ParentIndex(Node(0, c), m.height) /\ m = Over(c, m.height)
<1>1. Rooted(tree_nodes) BY DEF TreeSound, NodesSound
<1>2. PICK x : x = CellNode(c) OBVIOUS
<1>3. x \in InternalIndex /\ x.height = 0 BY <1>2, CellNodeIs
<1>4. cells[c] = v[x] BY <1>2 DEF CellsOf
<1>5. x \notin tree_nodes BY <1>1, <1>3 DEF Rooted, InnerIndex
<1>6. ASSUME NEW m \in JustBelow(tree_nodes)
      PROVE  /\ m \in InternalIndex /\ m # TreeRoot /\ m.height \in 0..MaxHeight
             /\ ToInternal(ToExternal(m)) = m /\ m.height \in x.height..TreeLevels
             /\ Over(c, m.height) = ToInternal(ParentIndex(Node(0, c), m.height))
             /\ Over(c, m.height) = Ancestor(x, m.height)
             /\ ToExternal(Over(c, m.height)) = ParentIndex(Node(0, c), m.height)
  <2>1. m \in InternalIndex /\ m \notin tree_nodes BY DEF JustBelow
  <2>2. m # TreeRoot BY <1>1, <2>1 DEF Rooted
  <2>3. m.height \in 0..MaxHeight /\ ToInternal(ToExternal(m)) = m BY <2>1, <2>2, OutsideIs
  <2>4. m.height \in x.height..TreeLevels BY <1>3, <2>1, InternalIs
  <2>5. /\ Over(c, m.height) = ToInternal(ParentIndex(Node(0, c), m.height))
        /\ Over(c, m.height) = Ancestor(x, m.height)
        /\ ToExternal(Over(c, m.height)) = ParentIndex(Node(0, c), m.height)
    BY <1>2, <2>3, OverIs
  <2> QED BY <2>1, <2>2, <2>3, <2>4, <2>5
<1>7. ASSUME NEW m \in JustBelow(tree_nodes), m = Over(c, m.height) PROVE v[m] = cells[c]
  <2>1. IsTop(tree_nodes, m, x) BY <1>6, <1>7 DEF IsTop
  <2> QED BY <1>3, <1>4, <2>1, TopValue
<1>8. ASSUME NEW m \in JustBelow(tree_nodes), ToExternal(m) = ParentIndex(Node(0, c), m.height)
      PROVE  m = Over(c, m.height)
  BY <1>6, <1>8
<1>9. PICK m : IsTop(tree_nodes, m, x) BY <1>1, <1>3, <1>5, OneTop
<1>10. m \in JustBelow(tree_nodes) /\ m = Over(c, m.height) BY <1>6, <1>9 DEF IsTop
<1>11. ToExternal(m) = ParentIndex(Node(0, c), m.height) BY <1>6, <1>10
<1> QED BY <1>7, <1>8, <1>10, <1>11

\* Of an empty tree all cells are 0.
LEMMA EmptyIsZero ==
  ASSUME TreeSound, TreeIsEmpty, NEW c \in CellIndex PROVE cells[c] = 0
<1>1. PICK v : /\ Carried(v, detail_coefficients) /\ scale_coefficient = v[TreeRoot]
               /\ cells = CellsOf(v)
  BY DEF TreeSound, ValuesSound
<1> DEFINE S == {n \in InternalIndex : v[n] = 0}
<1>2. TreeRoot \in S BY <1>1, InternalIs DEF TreeIsEmpty
<1>3. ASSUME NEW n \in InternalIndex \ {TreeRoot}, Above(n) \in S PROVE n \in S
  <2>1. PICK p \in InnerIndex, b \in Coefficient : p = Above(n) /\ ChildIndex(p, b) = n BY AboveIs
  <2>2. detail_coefficients[p] = NoDetails
    <3>1. p = TreeRoot \/ p \notin tree_nodes BY DEF TreeIsEmpty
    <3> QED BY <3>1 DEF TreeIsEmpty, TreeSound, NodesSound
  <2>3. v[p] = 0 BY <1>3, <2>1
  <2>4. PICK P : P = Column(0, detail_coefficients[p]) OBVIOUS
  <2>5. P = [i \in Coefficient |-> P[i]] /\ \A i \in Coefficient : P[i] = 0
    BY <2>2, <2>4 DEF Column, NoDetails, Detail
  <2>6. P \in Arrays /\ P[0] = 0 /\ \A i \in Detail : P[i] = 0 BY <2>5, ScaleIs DEF Arrays, Detail
  <2>7. BackwardSingleChild(P, b) = 0 BY <2>6, BackwardOfScale
  <2> QED BY <1>1, <2>1, <2>3, <2>4, <2>7 DEF Carried
<1> HIDE DEF S
<1>4. InternalIndex \subseteq S BY <1>2, <1>3, DownFromRoot
<1>5. CellNode(c) \in S BY <1>4, CellNodeIs
<1> QED BY <1>1, <1>5 DEF S, CellsOf

LEMMA RootCorners ==
  ASSUME NEW d \in Axis
  PROVE  /\ MinCornerIndex(TreeRoot)[d] - RootOffset(0) = -Exp2(MaxHeight)
         /\ MaxCornerIndex(TreeRoot)[d] - RootOffset(0) = Exp2(MaxHeight) - 1
<1>1. 0 \in 0..MaxHeight BY IndexAssumption
<1>2. PICK f \in Nat \ {0}, w \in Nat \ {0} :
        RootOffset(0) = f /\ Exp2(0) = w /\ Exp2(MaxHeight) = f * w /\ Exp2(TreeLevels - 0) = 2 * f
  BY <1>1, OffsetIs
<1>3. w = 1 /\ Exp2(MaxHeight) = f
  <2>1. w = 1 BY <1>2, PowersAre
  <2> QED BY <1>2, <2>1
<1>4. Exp2(TreeLevels) = 2 * f
  <2>1. TreeLevels - 0 = TreeLevels BY LevelsAre
  <2> QED BY <1>2, <2>1
<1>5. TreeRoot = Node(TreeLevels, [a \in Axis |-> 0]) BY DEF TreeRoot
<1>6. TreeRoot.height = TreeLevels /\ TreeRoot.position[d] = 0 BY <1>5 DEF Node
<1>7. MinCornerIndex(TreeRoot)[d] = 0
  <2>1. MinCornerIndex(TreeRoot)[d] = 0 * Exp2(TreeLevels) BY <1>6 DEF MinCornerIndex
  <2>2. 0 * (2 * f) = 0 OBVIOUS
  <2> QED BY <1>4, <2>1, <2>2
<1>8. MaxCornerIndex(TreeRoot)[d] = 0 + 2 * f - 1 BY <1>4, <1>6, <1>7 DEF MaxCornerIndex
<1> QED BY <1>2, <1>3, <1>7, <1>8

\* The extent of the leaves that are observed is that of the observed cells.
LEMMA ExtentIsOfCells ==
  ASSUME TreeSound, NEW observed, observed = {c \in CellIndex : cells[c] # 0}, observed # {},
         NEW d \in Axis
  PROVE  /\ LowestIndex(TreeLeaves)[d] = Min({c[d] : c \in observed})
         /\ HighestIndex(TreeLeaves)[d] = Max({c[d] : c \in observed})
<1>1. PICK v : /\ Carried(v, detail_coefficients) /\ scale_coefficient = v[TreeRoot]
               /\ cells = CellsOf(v)
  BY DEF TreeSound, ValuesSound
<1>2. PICK T \in Nat \ {0} : T = Exp2(MaxHeight) /\ Coordinate = -T..T - 1
  <2>1. MaxHeight \in 0..TreeLevels BY LevelsAre, IndexAssumption
  <2> QED BY <2>1, LevelsAre, TreeAssumption
<1>3. ~TreeIsEmpty BY EmptyIsZero
<1> DEFINE O == {c[d] : c \in observed}
           Seen == {m \in JustBelow(tree_nodes) : v[m] # 0}
           Low == {T - 1} \cup {MinCornerIndex(ToExternal(m))[d] : m \in Seen}
           High == {-T} \cup {MaxCornerIndex(ToExternal(m))[d] : m \in Seen}
<1>4. O \in SUBSET (-T..T) /\ O # {} /\ O \subseteq -T..T - 1
  <2>1. ASSUME NEW c \in observed PROVE c[d] \in -T..T - 1 BY <1>2, <2>1 DEF CellIndex
  <2>2. -T..T - 1 \subseteq -T..T OBVIOUS
  <2> QED BY <2>1, <2>2
<1>5. PICK low, high : low = Min(O) /\ high = Max(O) OBVIOUS
<1>6. /\ low \in O /\ (\A y \in O : low <= y) /\ low \in -T..T - 1
      /\ high \in O /\ (\A y \in O : y <= high) /\ high \in -T..T - 1
  <2>1. T \in Nat OBVIOUS
  <2>2. Min(O) \in O /\ (\A y \in O : Min(O) <= y) /\ Max(O) \in O /\ \A y \in O : y <= Max(O)
    <3> HIDE DEF O
    <3> QED BY <1>4, <2>1, ExtremesExist
  <2> HIDE DEF O
  <2> QED BY <1>4, <1>5, <2>2
<1>7. ASSUME NEW m \in Seen
      PROVE  /\ MinCornerIndex(ToExternal(m))[d] \in O /\ MaxCornerIndex(ToExternal(m))[d] \in O
             /\ m \in InternalIndex /\ m # TreeRoot
  <2>1. m \in InternalIndex /\ m # TreeRoot
    BY DEF JustBelow, TreeSound, NodesSound, Rooted
  <2>2. PICK lo \in CellIndex, hi \in CellIndex :
          /\ lo = MinCornerIndex(ToExternal(m)) /\ hi = MaxCornerIndex(ToExternal(m))
          /\ Over(lo, m.height) = m /\ Over(hi, m.height) = m
    BY <2>1, CornersAre
  <2>3. v[m] = cells[lo] /\ v[m] = cells[hi] BY <1>1, <2>2, LeafOverCell
  <2>4. lo \in observed /\ hi \in observed BY <2>3
  <2> QED BY <2>1, <2>2, <2>4
<1>8. ASSUME NEW c \in observed
      PROVE  \E m \in Seen : /\ MinCornerIndex(ToExternal(m))[d] <= c[d]
                             /\ c[d] <= MaxCornerIndex(ToExternal(m))[d]
  <2>1. c \in CellIndex /\ cells[c] # 0 OBVIOUS
  <2>2. PICK m \in JustBelow(tree_nodes) : m = Over(c, m.height) BY <1>1, <2>1, LeafOverCell
  <2>3. v[m] = cells[c] BY <1>1, <2>1, <2>2, LeafOverCell
  <2>4. m \in Seen BY <2>1, <2>3
  <2>5. m \in InternalIndex /\ m # TreeRoot BY <1>7, <2>4
  <2>6. \A a \in Axis : /\ MinCornerIndex(ToExternal(m))[a] <= c[a]
                        /\ c[a] <= MaxCornerIndex(ToExternal(m))[a]
    BY <2>1, <2>2, <2>5, CornersAre
  <2> QED BY <2>4, <2>6
<1>9. Min(Low) = low /\ Low # {}
  <2>1. low \in Low
    <3>1. PICK c \in observed : low = c[d] BY <1>6
    <3>2. PICK m \in Seen : MinCornerIndex(ToExternal(m))[d] <= c[d] BY <1>8
    <3>3. PICK x : x = MinCornerIndex(ToExternal(m))[d] OBVIOUS
    <3>4. x \in O /\ x <= low BY <1>7, <3>1, <3>2, <3>3
    <3>5. low <= x /\ x \in Int /\ low \in Int
      <4> HIDE DEF O
      <4> QED BY <1>4, <1>6, <3>4
    <3>6. x = low BY <3>4, <3>5
    <3> QED BY <3>3, <3>6
  <2>2. ASSUME NEW y \in Low PROVE low <= y /\ y \in -T..T
    <3>1. CASE y = T - 1
      <4> HIDE DEF O, Low
      <4> QED BY <1>6, <3>1
    <3>2. CASE y # T - 1
      <4>1. y \in O BY <1>7, <3>2
      <4> HIDE DEF O, Low
      <4> QED BY <1>4, <1>6, <4>1
    <3> QED BY <3>1, <3>2
  <2> HIDE DEF O, Low
  <2>3. Low \in SUBSET (-T..T) /\ Low # {} /\ T \in Nat BY <2>1, <2>2
  <2>4. Min(Low) \in Low /\ \A y \in Low : Min(Low) <= y BY <2>3, ExtremesExist
  <2>5. PICK a, b : a = Min(Low) /\ b = low OBVIOUS
  <2>6. a \in Low /\ b \in Low BY <2>1, <2>4, <2>5
  <2>7. a \in -T..T /\ b \in -T..T /\ low <= a BY <2>2, <2>5, <2>6
  <2>8. a <= b BY <2>4, <2>5, <2>6
  <2>9. a = b BY <2>5, <2>7, <2>8
  <2> QED BY <2>3, <2>5, <2>9
<1>10. Max(High) = high /\ High # {}
  <2>1. high \in High
    <3>1. PICK c \in observed : high = c[d] BY <1>6
    <3>2. PICK m \in Seen : c[d] <= MaxCornerIndex(ToExternal(m))[d] BY <1>8
    <3>3. PICK x : x = MaxCornerIndex(ToExternal(m))[d] OBVIOUS
    <3>4. x \in O /\ high <= x BY <1>7, <3>1, <3>2, <3>3
    <3>5. x <= high /\ x \in Int /\ high \in Int
      <4> HIDE DEF O
      <4> QED BY <1>4, <1>6, <3>4
    <3>6. x = high BY <3>4, <3>5
    <3> QED BY <3>3, <3>6
  <2>2. ASSUME NEW y \in High PROVE y <= high /\ y \in -T..T
    <3>1. CASE y = -T
      <4> HIDE DEF O, High
      <4> QED BY <1>6, <3>1
    <3>2. CASE y # -T
      <4>1. y \in O BY <1>7, <3>2
      <4> HIDE DEF O, High
      <4> QED BY <1>4, <1>6, <4>1
    <3> QED BY <3>1, <3>2
  <2> HIDE DEF O, High
  <2>3. High \in SUBSET (-T..T) /\ High # {} /\ T \in Nat BY <2>1, <2>2
  <2>4. Max(High) \in High /\ \A y \in High : y <= Max(High) BY <2>3, ExtremesExist
  <2>5. PICK a, b : a = Max(High) /\ b = high OBVIOUS
  <2>6. a \in High /\ b \in High BY <2>1, <2>4, <2>5
  <2>7. a \in -T..T /\ b \in -T..T /\ a <= high BY <2>2, <2>5, <2>6
  <2>8. b <= a BY <2>4, <2>5, <2>6
  <2>9. a = b BY <2>5, <2>7, <2>8
  <2> QED BY <2>3, <2>5, <2>9
<1>11. TreeLeaves = {[node |-> ToExternal(n), value |-> v[n]] : n \in JustBelow(tree_nodes)}
  <2>1. TreeLeaves = {[node |-> ToExternal(n), value |-> v[n]] :
                        n \in (UNION {Offspring(m) : m \in tree_nodes}) \ tree_nodes}
    BY <1>1, <1>3, LeavesOfValues
  <2> QED BY <2>1, LeafNodesAre
<1>12. {MinCornerIndex(leaf.node)[d] : leaf \in {l \in TreeLeaves : l.value # 0}} =
         {MinCornerIndex(ToExternal(m))[d] : m \in Seen}
  <2>1. ASSUME NEW m \in Seen
        PROVE  \E leaf \in {l \in TreeLeaves : l.value # 0} : leaf.node = ToExternal(m)
    <3>1. PICK leaf : leaf = [node |-> ToExternal(m), value |-> v[m]] OBVIOUS
    <3>2. leaf \in TreeLeaves /\ leaf.value # 0 /\ leaf.node = ToExternal(m) BY <1>11, <3>1
    <3> QED BY <3>2
  <2>2. ASSUME NEW leaf \in {l \in TreeLeaves : l.value # 0}
        PROVE  \E m \in Seen : leaf.node = ToExternal(m)
    <3>1. PICK m \in JustBelow(tree_nodes) : leaf = [node |-> ToExternal(m), value |-> v[m]] BY <1>11
    <3> QED BY <3>1
  <2> HIDE DEF Seen
  <2> QED BY <2>1, <2>2
<1>13. {MaxCornerIndex(leaf.node)[d] : leaf \in {l \in TreeLeaves : l.value # 0}} =
         {MaxCornerIndex(ToExternal(m))[d] : m \in Seen}
  <2>1. ASSUME NEW m \in Seen
        PROVE  \E leaf \in {l \in TreeLeaves : l.value # 0} : leaf.node = ToExternal(m)
    <3>1. PICK leaf : leaf = [node |-> ToExternal(m), value |-> v[m]] OBVIOUS
    <3>2. leaf \in TreeLeaves /\ leaf.value # 0 /\ leaf.node = ToExternal(m) BY <1>11, <3>1
    <3> QED BY <3>2
  <2>2. ASSUME NEW leaf \in {l \in TreeLeaves : l.value # 0}
        PROVE  \E m \in Seen : leaf.node = ToExternal(m)
    <3>1. PICK m \in JustBelow(tree_nodes) : leaf = [node |-> ToExternal(m), value |-> v[m]] BY <1>11
    <3> QED BY <3>1
  <2> HIDE DEF Seen
  <2> QED BY <2>1, <2>2
<1>14. /\ MinCornerIndex(TreeRoot)[d] - RootOffset(0) = -T
       /\ MaxCornerIndex(TreeRoot)[d] - RootOffset(0) = T - 1
  BY <1>2, RootCorners
<1>15. LowestIndex(TreeLeaves)[d] = Min(Low)
  <2> HIDE DEF Seen
  <2> QED BY <1>3, <1>12, <1>14 DEF LowestIndex
<1>16. HighestIndex(TreeLeaves)[d] = Max(High)
  <2> HIDE DEF Seen
  <2> QED BY <1>3, <1>13, <1>14 DEF HighestIndex
<1> HIDE DEF Low, High, O
<1>17. LowestIndex(TreeLeaves)[d] = Min(O) /\ HighestIndex(TreeLeaves)[d] = Max(O)
  BY <1>5, <1>9, <1>10, <1>15, <1>16
<1> QED BY <1>17 DEF O

LEMMA SoundIsArray == ASSUME TreeSound PROVE TreeIsArray
<1>1. PICK v : /\ Carried(v, detail_coefficients) /\ scale_coefficient = v[TreeRoot]
               /\ cells = CellsOf(v)
  BY DEF TreeSound, ValuesSound
<1>2. PICK value, leaves, observed :
        /\ value = NodeValueAt /\ leaves = TreeLeaves /\ observed = {c \in CellIndex : cells[c] # 0}
  OBVIOUS
<1>3. value = v BY <1>1, <1>2, ValuesAre
<1>4. \A c \in CellIndex : value[ToInternal(Node(0, c))] = cells[c]
  BY <1>1, <1>3 DEF CellsOf, CellNode
<1>10. TreeIsEmpty => leaves = {} /\ observed = {}
  <2>1. TreeIsEmpty => observed = {} BY <1>2, EmptyIsZero
  <2>2. TreeIsEmpty => leaves = {} BY <1>2, Zenon DEF TreeLeaves
  <2> QED BY <2>1, <2>2
<1>5. ASSUME ~TreeIsEmpty
      PROVE  leaves = {[node |-> ToExternal(n), value |-> v[n]] : n \in JustBelow(tree_nodes)}
  <2>1. leaves = {[node |-> ToExternal(n), value |-> v[n]] :
                    n \in (UNION {Offspring(m) : m \in tree_nodes}) \ tree_nodes}
    BY <1>1, <1>2, <1>5, LeavesOfValues
  <2> QED BY <2>1, LeafNodesAre
<1>6. \A n \in JustBelow(tree_nodes) : ToExternal(n).height = n.height BY DEF ToExternal, Node
<1>7. ASSUME ~TreeIsEmpty, NEW c \in CellIndex
      PROVE  {leaf.value : leaf \in {l \in leaves : l.node = ParentIndex(Node(0, c), l.node.height)}}
               = {cells[c]}
  <2>1. ASSUME NEW leaf \in leaves, leaf.node = ParentIndex(Node(0, c), leaf.node.height)
        PROVE  leaf.value = cells[c]
    <3>1. PICK m \in JustBelow(tree_nodes) : leaf = [node |-> ToExternal(m), value |-> v[m]] BY <1>5, <1>7
    <3>2. ToExternal(m) = ParentIndex(Node(0, c), m.height) BY <1>6, <2>1, <3>1
    <3>3. v[m] = cells[c] BY <1>1, <3>2, LeafOverCell
    <3> QED BY <3>1, <3>3
  <2>2. \E leaf \in leaves : /\ leaf.node = ParentIndex(Node(0, c), leaf.node.height)
                             /\ leaf.value = cells[c]
    <3>1. PICK m \in JustBelow(tree_nodes) : ToExternal(m) = ParentIndex(Node(0, c), m.height)
      BY <1>1, LeafOverCell
    <3>2. v[m] = cells[c] BY <1>1, <3>1, LeafOverCell
    <3>3. PICK leaf : leaf = [node |-> ToExternal(m), value |-> v[m]] OBVIOUS
    <3>4. leaf \in leaves /\ leaf.node = ToExternal(m) /\ leaf.value = v[m] BY <1>5, <1>7, <3>3
    <3> QED BY <1>6, <3>1, <3>2, <3>4
  <2> QED BY <2>1, <2>2
<1>8. ASSUME NEW n \in tree_nodes PROVE TransformsAgree(WithScale(value[n], n))
  <2>1. n \in InnerIndex /\ n \in InternalIndex BY DEF TreeSound, NodesSound, Rooted, InnerIndex
  <2>2. value[n] \in Int BY <1>1, <1>3, <2>1 DEF Carried
  <2>3. PICK P : P = WithScale(value[n], n) OBVIOUS
  <2>4. Exact(P) BY <2>1, <2>2, <2>3, ScaledIsExact DEF TreeSound
  <2> QED BY <2>3, <2>4, TransformsUndoEachOther
<1>9. ASSUME observed # {}, NEW d \in Axis
      PROVE  /\ LowestIndex(leaves)[d] = Min({c[d] : c \in observed})
             /\ HighestIndex(leaves)[d] = Max({c[d] : c \in observed})
  <2>1. /\ LowestIndex(TreeLeaves)[d] = Min({c[d] : c \in observed})
        /\ HighestIndex(TreeLeaves)[d] = Max({c[d] : c \in observed})
    BY <1>2, <1>9, ExtentIsOfCells
  <2> QED BY <1>2, <2>1
<1>11. IF leaves = {} THEN observed = {}
       ELSE \A c \in CellIndex :
              {leaf.value : leaf \in {l \in leaves : l.node = ParentIndex(Node(0, c), l.node.height)}}
                = {cells[c]}
  <2>1. ASSUME leaves = {}, ~TreeIsEmpty PROVE observed = {}
    <3>1. ASSUME NEW c \in CellIndex PROVE FALSE BY <1>7, <2>1
    <3> QED BY <1>2, <3>1
  <2> QED BY <1>7, <1>10, <2>1
<1> QED BY <1>2, <1>4, <1>11, <1>8, <1>9, Zenon DEF TreeIsArray

\* Whatever is integrated, added, set, limited and pruned, in trees of any
\* height over any number of dimensions, lookups, leaves, transforms and extents
\* are those of the array of cells.
THEOREM TreesAreArrays == TreeSpec => []TreeIsArray
<1>1. TreeSound => TreeIsArray BY SoundIsArray
<1> QED BY <1>1, TreeStaysSound, PTL

=============================================================================
