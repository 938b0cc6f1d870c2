-------------------------- MODULE WaveletBlockProofs --------------------------
(***************************************************************************)
(* Wavelet blocks of any height, with any cells, amounts and range: what   *)
(* their nodes and flags promise, and that chunked ones are grids of cells.*)
(*                                                                         *)
(* Chunked blocks halve exactly: values are multiples of powers of two.    *)
(* Coefficients are replaced in a part of the tree from its frontier up,   *)
(* and what lies below the frontier then moves as the frontier does.       *)
(***************************************************************************)
EXTENDS WaveletBlock, NumberLemmas, SequenceTheorems, TLAPS

USE BlockAssumption

-----------------------------------------------------------------------------
(* Paths                                                                   *)

\* Paths are the sequences of child indices that are not too long.
LEMMA PathIsSeq ==
  /\ \A p \in Path : p \in Seq({0, 1}) /\ Len(p) \in 0..Height
  /\ \A p \in Seq({0, 1}) : Len(p) <= Height => p \in Path
<1>1. ASSUME NEW p \in Path PROVE p \in Seq({0, 1}) /\ Len(p) \in 0..Height
  <2>1. PICK n \in 0..Height : p \in [1..n -> {0, 1}] BY DEF Path
  <2>2. p \in Seq({0, 1}) /\ Len(p) = n BY <2>1
  <2> QED BY <2>2
<1>2. ASSUME NEW p \in Seq({0, 1}), Len(p) <= Height PROVE p \in Path
  <2>1. Len(p) \in 0..Height /\ p \in [1..Len(p) -> {0, 1}] BY <1>2, LenProperties
  <2> QED BY <2>1 DEF Path
<1> QED BY <1>1, <1>2

\* Cells are the longest paths, nodes all others.
LEMMA LeafIsLong ==
  /\ \A p \in Path : p \in Leaf <=> Len(p) = Height
  /\ \A p \in Path : p \in NodePath <=> Len(p) < Height
  /\ Leaf \subseteq Path /\ NodePath \subseteq Path
<1>1. ASSUME NEW p \in Path PROVE p \in Leaf <=> Len(p) = Height
  <2>1. p \in [1..Len(p) -> {0, 1}] /\ Len(p) \in Nat BY PathIsSeq, LenProperties
  <2>2. ASSUME p \in [1..Height -> {0, 1}] PROVE Len(p) = Height BY <2>2
  <2>3. ASSUME Len(p) = Height PROVE p \in [1..Height -> {0, 1}] BY <2>1, <2>3
  <2> QED BY <2>2, <2>3 DEF Leaf
<1>2. Leaf \subseteq Path BY DEF Leaf, Path
<1>3. \A p \in Path : p \in NodePath <=> Len(p) # Height BY <1>1 DEF NodePath
<1> QED BY <1>1, <1>2, <1>3, PathIsSeq DEF NodePath

\* The root is a node, and the only path without a step.
LEMMA RootPath ==
  /\ <<>> \in NodePath /\ <<>> \in Path /\ Len(<<>>) = 0
  /\ \A p \in Path : Len(p) = 0 <=> p = <<>>
<1>1. <<>> \in Seq({0, 1}) /\ Len(<<>>) = 0 BY EmptySeq
<1>2. <<>> \in Path
  <2>1. PICK e : e = <<>> OBVIOUS
  <2>2. e \in Seq({0, 1}) /\ Len(e) <= Height BY <1>1, <2>1
  <2> QED BY <2>1, <2>2, PathIsSeq
<1>3. ASSUME NEW p \in Path PROVE Len(p) = 0 <=> p = <<>>
  <2>1. p \in Seq({0, 1}) BY PathIsSeq
  <2> QED BY <1>1, <2>1, EmptySeq
<1> QED BY <1>1, <1>2, <1>3, LeafIsLong

\* A node's child is one step longer, and leads back to it.
LEMMA ChildPath ==
  ASSUME NEW p \in NodePath, NEW i \in {0, 1}
  PROVE  /\ Child(p, i) \in Path /\ Child(p, i) # <<>>
         /\ Len(Child(p, i)) = Len(p) + 1
         /\ Front(Child(p, i)) = p /\ Last(Child(p, i)) = i
<1>1. p \in Seq({0, 1}) /\ Len(p) \in Nat /\ Len(p) < Height BY PathIsSeq, LeafIsLong
<1> DEFINE c == Append(p, i)
<1>2. /\ c \in Seq({0, 1}) /\ c # <<>> /\ Len(c) = Len(p) + 1
      /\ \A j \in 1..Len(p) : c[j] = p[j]
      /\ c[Len(p) + 1] = i
  BY <1>1, AppendProperties
<1> HIDE DEF c
<1>3. c \in Path BY <1>1, <1>2, PathIsSeq
<1>4. Last(c) = i BY <1>2 DEF Last
<1>5. Front(c) = p
  <2>1. \A j \in 1..Len(p) : c[j] \in {0, 1} BY <1>1, <1>2, ElementOfSeq
  <2>2. Front(c) = SubSeq(c, 1, Len(p)) BY <1>1, <1>2 DEF Front
  <2>3. /\ SubSeq(c, 1, Len(p)) \in Seq({0, 1}) /\ Len(SubSeq(c, 1, Len(p))) = Len(p)
        /\ \A j \in 1..Len(p) : SubSeq(c, 1, Len(p))[j] = c[j]
    <3>1. \A j \in 1..Len(p) : 1 + j - 1 = j BY <1>1
    <3> QED BY <1>1, <2>1, <3>1, SubSeqProperties
  <2> QED BY <1>1, <1>2, <2>2, <2>3, SeqEqual
<1> QED BY <1>2, <1>3, <1>4, <1>5 DEF c, Child

\* A path other than the root is a child of the node before its last step.
LEMMA FrontPath ==
  ASSUME NEW p \in Path, p # <<>>
  PROVE  /\ Front(p) \in NodePath /\ Last(p) \in {0, 1} /\ Len(p) = Len(Front(p)) + 1
         /\ Child(Front(p), Last(p)) = p
<1>1. p \in Seq({0, 1}) /\ Len(p) \in 1..Height
  BY PathIsSeq, RootPath
<1>2. \A j \in 1..Len(p) : p[j] \in {0, 1} BY <1>1, ElementOfSeq
<1> DEFINE f == SubSeq(p, 1, Len(p) - 1)
<1>3. /\ f \in Seq({0, 1}) /\ Len(f) = Len(p) - 1
      /\ \A j \in 1..(Len(p) - 1) : f[j] = p[j]
  <2>1. \A j \in 1..(Len(p) - 1) : 1 + j - 1 = j /\ j \in 1..Len(p) BY <1>1
  <2>2. Len(p) - 1 \in Int /\ (IF 1 <= Len(p) - 1 THEN (Len(p) - 1) - 1 + 1 ELSE 0) = Len(p) - 1
    <3>1. PICK n \in Nat : n = Len(p) - 1 BY <1>1
    <3>2. (IF 1 <= n THEN n - 1 + 1 ELSE 0) = n OBVIOUS
    <3> QED BY <3>1, <3>2
  <2> QED BY <1>1, <1>2, <2>1, <2>2, SubSeqProperties
<1> HIDE DEF f
<1>4. f \in NodePath BY <1>1, <1>3, PathIsSeq, LeafIsLong
<1>5. p[Len(p)] \in {0, 1} BY <1>1, <1>2
<1>6. Append(f, p[Len(p)]) = p
  <2>1. /\ Append(f, p[Len(p)]) \in Seq({0, 1}) /\ Len(Append(f, p[Len(p)])) = Len(f) + 1
        /\ \A j \in 1..Len(f) : Append(f, p[Len(p)])[j] = f[j]
        /\ Append(f, p[Len(p)])[Len(f) + 1] = p[Len(p)]
    BY <1>3, <1>5, AppendProperties
  <2>2. \A j \in 1..Len(p) : j \in 1..Len(f) \/ j = Len(f) + 1 BY <1>1, <1>3
  <2> QED BY <1>1, <1>3, <2>1, <2>2, SeqEqual
<1>7. Front(p) = f /\ Last(p) = p[Len(p)] BY DEF Front, Last, f
<1> QED BY <1>1, <1>3, <1>4, <1>5, <1>6, <1>7 DEF Child

\* What lies above a path: its parent, and what lies above that.
LEMMA AboveRoot == Above(<<>>) = {}
<1>1. 0..(Len(<<>>) - 1) = {} BY RootPath
<1> QED BY <1>1 DEF Above

\* The first steps of a path are a path.
LEMMA Prefix ==
  ASSUME NEW p \in Path, NEW n \in 0..Len(p)
  PROVE  /\ SubSeq(p, 1, n) \in Path /\ Len(SubSeq(p, 1, n)) = n
         /\ \A j \in 1..n : SubSeq(p, 1, n)[j] = p[j]
<1>1. p \in Seq({0, 1}) /\ Len(p) \in 0..Height BY PathIsSeq
<1>2. \A j \in 1..Len(p) : p[j] \in {0, 1} BY <1>1, ElementOfSeq
<1>3. \A j \in 1..n : j \in 1..Len(p) /\ 1 + j - 1 = j BY <1>1
<1>4. n \in Int /\ (IF 1 <= n THEN n - 1 + 1 ELSE 0) = n BY <1>1
<1>5. /\ SubSeq(p, 1, n) \in Seq({0, 1}) /\ Len(SubSeq(p, 1, n)) = n
      /\ \A j \in 1..n : SubSeq(p, 1, n)[j] = p[j]
  BY <1>1, <1>2, <1>3, <1>4, SubSeqProperties
<1>6. n <= Height BY <1>1
<1> QED BY <1>5, <1>6, PathIsSeq

\* Above a path are its parent and what is above that.
LEMMA AboveFront ==
  ASSUME NEW p \in Path, p # <<>> PROVE Above(p) = Above(Front(p)) \cup {Front(p)}
<1> DEFINE f == Front(p)
           n == Len(p) - 1
<1>1. f \in Path /\ Len(f) = n /\ Len(p) \in 1..Height /\ n \in 0..Height
  BY FrontPath, PathIsSeq, LeafIsLong, RootPath
<1>2. f = SubSeq(p, 1, n) BY DEF Front
<1> HIDE DEF f
<1>3. ASSUME NEW k \in 0..n PROVE SubSeq(f, 1, k) = SubSeq(p, 1, k)
  <2>1. k \in 0..Len(f) /\ k \in 0..Len(p) BY <1>1
  <2>2. /\ SubSeq(f, 1, k) \in Path /\ Len(SubSeq(f, 1, k)) = k
        /\ \A j \in 1..k : SubSeq(f, 1, k)[j] = f[j]
    BY <1>1, <2>1, Prefix
  <2>3. /\ SubSeq(p, 1, k) \in Path /\ Len(SubSeq(p, 1, k)) = k
        /\ \A j \in 1..k : SubSeq(p, 1, k)[j] = p[j]
    BY <1>1, <2>1, Prefix
  <2>4. \A j \in 1..k : f[j] = p[j]
    <3>1. \A j \in 1..n : SubSeq(p, 1, n)[j] = p[j]
      <4>1. n \in 0..Len(p) BY <1>1
      <4> QED BY <4>1, Prefix
    <3> QED BY <1>1, <1>2, <3>1
  <2> QED BY <2>2, <2>3, <2>4, PathIsSeq, SeqEqual
<1>4. SubSeq(f, 1, n) = f
  <2>1. f \in Seq({0, 1}) BY <1>1, PathIsSeq
  <2> QED BY <1>1, <2>1, SubSeqFull
<1>5. Above(p) = {SubSeq(f, 1, k) : k \in 0..n} BY <1>3 DEF Above
<1>6. Above(f) = {SubSeq(f, 1, k) : k \in 0..(n - 1)} BY <1>1 DEF Above
<1>7. 0..n = (0..(n - 1)) \cup {n} BY <1>1
<1> QED BY <1>4, <1>5, <1>6, <1>7 DEF f

-----------------------------------------------------------------------------
(* Induction over paths, and what is defined by recursion                  *)

\* What holds of the root, and of a path if of its parent, holds of all paths.
LEMMA FromTheRoot ==
  ASSUME NEW S, <<>> \in S, \A p \in Path \ {<<>>} : Front(p) \in S => p \in S
  PROVE  Path \subseteq S
<1> DEFINE T == {n \in Nat : \A p \in Path : Len(p) = n => p \in S}
<1>1. 0 \in T BY RootPath
<1>2. ASSUME NEW n \in Nat, n \in T PROVE n + 1 \in T
  <2> SUFFICES ASSUME NEW p \in Path, Len(p) = n + 1 PROVE p \in S OBVIOUS
  <2>1. p # <<>> BY RootPath
  <2>2. Front(p) \in Path /\ Len(p) = Len(Front(p)) + 1 /\ Len(Front(p)) \in Nat
    BY <2>1, FrontPath, LeafIsLong, PathIsSeq
  <2>3. Len(Front(p)) = n BY <2>2
  <2> QED BY <1>2, <2>1, <2>2, <2>3
<1> HIDE DEF T
<1>3. Nat \subseteq T BY <1>1, <1>2, NatInductionSet
<1> QED BY <1>3, PathIsSeq DEF T

\* What holds of the cells, and of a node if of its children, holds of all paths.
LEMMA FromTheLeaves ==
  ASSUME NEW S, Leaf \subseteq S,
         \A p \in NodePath : Child(p, 0) \in S /\ Child(p, 1) \in S => p \in S
  PROVE  Path \subseteq S
<1> DEFINE T == {n \in Nat : \A p \in Path : Height <= Len(p) + n => p \in S}
<1>1. 0 \in T
  <2> SUFFICES ASSUME NEW p \in Path, Height <= Len(p) + 0 PROVE p \in S OBVIOUS
  <2>1. Len(p) = Height BY PathIsSeq
  <2> QED BY <2>1, LeafIsLong
<1>2. ASSUME NEW n \in Nat, n \in T PROVE n + 1 \in T
  <2> SUFFICES ASSUME NEW p \in Path, Height <= Len(p) + (n + 1) PROVE p \in S OBVIOUS
  <2>1. CASE p \in Leaf BY <2>1
  <2>2. CASE p \in NodePath
    <3>1. /\ Child(p, 0) \in Path /\ Len(Child(p, 0)) = Len(p) + 1
          /\ Child(p, 1) \in Path /\ Len(Child(p, 1)) = Len(p) + 1
      BY <2>2, ChildPath
    <3>2. Height <= (Len(p) + 1) + n BY PathIsSeq
    <3> QED BY <1>2, <2>2, <3>1, <3>2
  <2> QED BY <2>1, <2>2 DEF NodePath
<1> HIDE DEF T
<1>3. Nat \subseteq T BY <1>1, <1>2, NatInductionSet
<1>4. ASSUME NEW p \in Path PROVE p \in S
  <2>1. Height \in T /\ Height <= Len(p) + Height BY <1>3, PathIsSeq
  <2> QED BY <2>1 DEF T
<1> QED BY <1>4

\* A backward step gives an integer.
LEMMA BackwardIsInt ==
  ASSUME NEW s \in Int, NEW d \in Int, NEW i \in {0, 1} PROVE Backward(s, d, i) \in Int
BY DEF Backward

\* A forward step gives integers.
LEMMA ForwardIsInt ==
  ASSUME NEW a \in Int, NEW b \in Int PROVE ForwardScale(a, b) \in Int /\ ForwardDetail(a, b) \in Int
BY DEF ForwardScale, ForwardDetail

\* The value that a block with these coefficients has at each path.
ValueOf(scale, detail) ==
  LET value[p \in Path] == IF p = <<>> THEN scale
                           ELSE Backward(value[Front(p)], detail[Front(p)], Last(p))
  IN  value

\* The recursion from the root down defines a value for each path.
LEMMA ValueDefined ==
  ASSUME NEW s \in Int, NEW d \in [NodePath -> Int]
  PROVE  /\ ValueOf(s, d) \in [Path -> Int]
         /\ ValueOf(s, d)[<<>>] = s
         /\ \A p \in Path \ {<<>>} :
              ValueOf(s, d)[p] = Backward(ValueOf(s, d)[Front(p)], d[Front(p)], Last(p))
<1> DEFINE UpTo(n) == {p \in Path : Len(p) <= n}
           F(v, p) == IF p = <<>> THEN s ELSE Backward(v[Front(p)], d[Front(p)], Last(p))
           T == {n \in Nat : \E v \in [UpTo(n) -> Int] : \A p \in UpTo(n) : v[p] = F(v, p)}
<1>1. 0 \in T
  <2>1. \A p \in UpTo(0) : p = <<>> BY RootPath, PathIsSeq
  <2>2. [p \in UpTo(0) |-> s] \in [UpTo(0) -> Int] OBVIOUS
  <2>3. \A p \in UpTo(0) : [q \in UpTo(0) |-> s][p] = F([q \in UpTo(0) |-> s], p) BY <2>1
  <2> QED BY <2>2, <2>3
<1>2. ASSUME NEW n \in Nat, n \in T PROVE n + 1 \in T
  <2>1. PICK v \in [UpTo(n) -> Int] : \A p \in UpTo(n) : v[p] = F(v, p) BY <1>2
  <2> DEFINE w == [p \in UpTo(n + 1) |-> IF Len(p) <= n THEN v[p] ELSE F(v, p)]
  <2>2. ASSUME NEW p \in UpTo(n + 1), p # <<>>
        PROVE  Front(p) \in UpTo(n) /\ Front(p) \in UpTo(n + 1) /\ Len(Front(p)) <= n
               /\ Front(p) \in NodePath /\ Last(p) \in {0, 1}
    <3>1. /\ Front(p) \in NodePath /\ Front(p) \in Path /\ Last(p) \in {0, 1}
          /\ Len(p) = Len(Front(p)) + 1 /\ Len(Front(p)) \in Nat
      BY <2>2, FrontPath, LeafIsLong, PathIsSeq
    <3>2. Len(Front(p)) <= n /\ Len(Front(p)) <= n + 1 BY <3>1
    <3> QED BY <3>1, <3>2
  <2>3. ASSUME NEW p \in UpTo(n + 1) PROVE F(v, p) \in Int
    <3>1. CASE p = <<>> BY <3>1
    <3>2. CASE p # <<>>
      <4>1. v[Front(p)] \in Int /\ d[Front(p)] \in Int /\ Last(p) \in {0, 1} BY <2>2, <3>2
      <4> QED BY <3>2, <4>1, BackwardIsInt
    <3> QED BY <3>1, <3>2
  <2>4. w \in [UpTo(n + 1) -> Int]
    <3>1. \A p \in UpTo(n + 1) : Len(p) <= n => p \in UpTo(n) OBVIOUS
    <3> QED BY <2>3, <3>1
  <2>5. ASSUME NEW p \in UpTo(n + 1) PROVE w[p] = F(w, p)
    <3>1. CASE p = <<>>
      <4>1. Len(p) <= n /\ p \in UpTo(n) BY <3>1, RootPath
      <4> QED BY <2>1, <3>1, <4>1
    <3>2. CASE p # <<>>
      <4>1. w[Front(p)] = v[Front(p)] BY <2>2, <3>2
      <4>2. F(w, p) = F(v, p) BY <3>2, <4>1
      <4>3. CASE Len(p) <= n BY <2>1, <4>2, <4>3
      <4>4. CASE ~(Len(p) <= n) BY <4>2, <4>4
      <4> QED BY <4>3, <4>4
    <3> QED BY <3>1, <3>2
  <2> HIDE DEF w, F, UpTo
  <2>6. n + 1 \in Nat /\ \E x \in [UpTo(n + 1) -> Int] : \A p \in UpTo(n + 1) : x[p] = F(x, p)
    BY <2>4, <2>5
  <2> QED BY <2>6
<1>3. Height \in T
  <2> HIDE DEF T
  <2> QED BY <1>1, <1>2, NatInductionSet
<1>4. UpTo(Height) = Path BY PathIsSeq
<1>5. PICK v \in [Path -> Int] : \A p \in Path : v[p] = F(v, p) BY <1>3, <1>4
<1>6. v = [p \in Path |-> F(v, p)] BY <1>5
<1>7. ValueOf(s, d) = [p \in Path |-> F(ValueOf(s, d), p)] BY <1>6 DEF ValueOf
<1> DEFINE u == ValueOf(s, d)
<1>8. u = [p \in Path |-> F(u, p)] BY <1>7
<1> HIDE DEF u
<1>9. \A p \in Path : u[p] = F(u, p) BY <1>8
<1>10. u[<<>>] = s BY <1>9, RootPath
<1>11. ASSUME NEW p \in Path, p # <<>> PROVE u[p] = Backward(u[Front(p)], d[Front(p)], Last(p))
  BY <1>9, <1>11
<1>12. Path \subseteq {p \in Path : u[p] \in Int}
  <2> DEFINE S == {p \in Path : u[p] \in Int}
  <2>1. <<>> \in S BY <1>10, RootPath
  <2>2. ASSUME NEW p \in Path \ {<<>>}, Front(p) \in S PROVE p \in S
    <3>1. Front(p) \in NodePath /\ Last(p) \in {0, 1} BY FrontPath
    <3>2. d[Front(p)] \in Int /\ u[Front(p)] \in Int BY <2>2, <3>1
    <3>3. Backward(u[Front(p)], d[Front(p)], Last(p)) \in Int BY <3>1, <3>2, BackwardIsInt
    <3> QED BY <1>11, <3>3
  <2> HIDE DEF S
  <2>3. Path \subseteq S BY <2>1, <2>2, FromTheRoot
  <2> QED BY <2>3 DEF S
<1>13. u \in [Path -> Int] BY <1>8, <1>12
<1> QED BY <1>10, <1>11, <1>13 DEF u

\* The recursion from the leaves up defines a value for each path.
LEMMA LiftedDefined ==
  ASSUME NEW over, over \subseteq NodePath, NEW base \in [Path -> Int]
  PROVE  /\ Lifted(over, base) \in [Path -> Int]
         /\ \A p \in Path : Lifted(over, base)[p] =
              IF p \in over THEN ForwardScale(Lifted(over, base)[Child(p, 0)],
                                              Lifted(over, base)[Child(p, 1)])
              ELSE base[p]
<1> DEFINE DownTo(n) == {p \in Path : Height <= Len(p) + n}
           F(v, p) == IF p \in over THEN ForwardScale(v[Child(p, 0)], v[Child(p, 1)]) ELSE base[p]
           T == {n \in Nat : \E v \in [DownTo(n) -> Int] : \A p \in DownTo(n) : v[p] = F(v, p)}
<1>1. 0 \in T
  <2>1. \A p \in DownTo(0) : p \notin over
    <3>1. \A p \in DownTo(0) : ~(Len(p) < Height) BY PathIsSeq
    <3> QED BY <3>1, LeafIsLong
  <2>2. [p \in DownTo(0) |-> base[p]] \in [DownTo(0) -> Int] OBVIOUS
  <2>3. \A p \in DownTo(0) : [q \in DownTo(0) |-> base[q]][p] = F([q \in DownTo(0) |-> base[q]], p)
    BY <2>1
  <2> QED BY <2>2, <2>3
<1>2. ASSUME NEW n \in Nat, n \in T PROVE n + 1 \in T
  <2>1. PICK v \in [DownTo(n) -> Int] : \A p \in DownTo(n) : v[p] = F(v, p) BY <1>2
  <2> DEFINE w == [p \in DownTo(n + 1) |-> IF Height <= Len(p) + n THEN v[p] ELSE F(v, p)]
  <2>2. ASSUME NEW p \in DownTo(n + 1), p \in over, NEW i \in {0, 1}
        PROVE  /\ Child(p, i) \in DownTo(n) /\ Child(p, i) \in DownTo(n + 1)
               /\ Height <= Len(Child(p, i)) + n
    <3>1. Child(p, i) \in Path /\ Len(Child(p, i)) = Len(p) + 1 /\ Len(p) \in Nat
      BY <2>2, ChildPath, PathIsSeq
    <3>2. Height <= Len(Child(p, i)) + n /\ Height <= Len(Child(p, i)) + (n + 1) BY <3>1
    <3> QED BY <3>1, <3>2
  <2>3. ASSUME NEW p \in DownTo(n + 1) PROVE F(v, p) \in Int
    <3>1. CASE p \notin over BY <3>1
    <3>2. CASE p \in over
      <4>1. v[Child(p, 0)] \in Int /\ v[Child(p, 1)] \in Int BY <2>2, <3>2
      <4> QED BY <3>2, <4>1, ForwardIsInt
    <3> QED BY <3>1, <3>2
  <2>4. w \in [DownTo(n + 1) -> Int]
    <3>1. \A p \in DownTo(n + 1) : Height <= Len(p) + n => p \in DownTo(n) OBVIOUS
    <3> QED BY <2>3, <3>1
  <2>5. ASSUME NEW p \in DownTo(n + 1) PROVE w[p] = F(w, p)
    <3>1. F(w, p) = F(v, p)
      <4>1. CASE p \notin over BY <4>1
      <4>2. CASE p \in over
        <5>1. w[Child(p, 0)] = v[Child(p, 0)] /\ w[Child(p, 1)] = v[Child(p, 1)]
          BY <2>2, <4>2
        <5> QED BY <4>2, <5>1
      <4> QED BY <4>1, <4>2
    <3>2. CASE Height <= Len(p) + n
      <4>1. p \in DownTo(n) BY <3>2
      <4> QED BY <2>1, <3>1, <3>2, <4>1
    <3>3. CASE ~(Height <= Len(p) + n) BY <3>1, <3>3
    <3> QED BY <3>2, <3>3
  <2> HIDE DEF w, F, DownTo
  <2>6. n + 1 \in Nat /\ \E x \in [DownTo(n + 1) -> Int] : \A p \in DownTo(n + 1) : x[p] = F(x, p)
    BY <2>4, <2>5
  <2> QED BY <2>6
<1>3. Height \in T
  <2> HIDE DEF T
  <2> QED BY <1>1, <1>2, NatInductionSet
<1>4. DownTo(Height) = Path BY PathIsSeq
<1>5. PICK v \in [Path -> Int] : \A p \in Path : v[p] = F(v, p) BY <1>3, <1>4
<1>6. v = [p \in Path |-> F(v, p)] BY <1>5
<1>7. Lifted(over, base) = [p \in Path |-> F(Lifted(over, base), p)] BY <1>6 DEF Lifted
<1> DEFINE u == Lifted(over, base)
<1>8. u = [p \in Path |-> F(u, p)] BY <1>7
<1> HIDE DEF u
<1>9. \A p \in Path : u[p] = F(u, p) BY <1>8
<1>12. Path \subseteq {p \in Path : u[p] \in Int}
  <2> DEFINE S == {p \in Path : u[p] \in Int}
  <2>1. Leaf \subseteq S
    <3>1. \A p \in Leaf : p \in Path /\ p \notin over BY LeafIsLong DEF NodePath
    <3> QED BY <1>9, <3>1
  <2>2. ASSUME NEW p \in NodePath, Child(p, 0) \in S, Child(p, 1) \in S PROVE p \in S
    <3>1. p \in Path /\ u[Child(p, 0)] \in Int /\ u[Child(p, 1)] \in Int BY <2>2, LeafIsLong
    <3>2. F(u, p) \in Int BY <3>1, ForwardIsInt
    <3> QED BY <1>9, <3>1, <3>2
  <2> HIDE DEF S
  <2>3. Path \subseteq S BY <2>1, <2>2, FromTheLeaves
  <2> QED BY <2>3 DEF S
<1>13. u \in [Path -> Int] BY <1>8, <1>12
<1> QED BY <1>9, <1>13 DEF u

-----------------------------------------------------------------------------
(* Multiples of powers of two, of which the halves are exact               *)

IsMultiple(v, n) == \E k \in Int : v = k * 2^n

IsEven(v) == \E k \in Int : v = 2 * k

\* What the proofs need of powers of two.
LEMMA PowerFacts ==
  ASSUME NEW n \in 0..Height
  PROVE  /\ 2^n \in Nat \ {0}
         /\ n + 1 <= Height => 2^(n + 1) = 2 * 2^n
         /\ \A m \in 0..n : 2^n = 2^m * 2^(n - m)
<1>1. 2^n \in Nat \ {0} BY PowersOfTwo
<1>2. n + 1 <= Height => 2^(n + 1) = 2 * 2^n
  <2>1. 1 \in 0..Height OBVIOUS
  <2>2. 2^(n + 1) = 2^n * 2^1 BY <2>1, PowersOfTwo
  <2>3. 2^(n + 1) = 2^n * 2 BY <2>2, PowersOfTwo
  <2> QED BY <1>1, <2>3
<1>3. ASSUME NEW m \in 0..n PROVE 2^n = 2^m * 2^(n - m)
  <2>1. m \in 0..Height /\ n - m \in 0..Height /\ m + (n - m) = n OBVIOUS
  <2>2. 2^(m + (n - m)) = 2^m * 2^(n - m) BY <2>1, PowersOfTwo
  <2> QED BY <2>1, <2>2
<1> QED BY <1>1, <1>2, <1>3

\* A multiple of a power is one of all lesser powers.
LEMMA MultipleOfLess ==
  ASSUME NEW v, NEW n \in 0..Height, NEW m \in 0..n, IsMultiple(v, n) PROVE IsMultiple(v, m)
<1>1. PICK k \in Int : v = k * 2^n BY DEF IsMultiple
<1>2. PICK a, b, c : a = 2^n /\ b = 2^m /\ c = 2^(n - m) OBVIOUS
<1>3. a \in Int /\ b \in Int /\ c \in Int /\ a = b * c
  <2>1. m \in 0..Height /\ n - m \in 0..Height OBVIOUS
  <2> QED BY <1>2, <2>1, PowerFacts
<1>4. k * (b * c) = (k * c) * b BY <1>3
<1>5. v = (k * c) * b /\ k * c \in Int BY <1>1, <1>2, <1>3, <1>4
<1> QED BY <1>2, <1>5 DEF IsMultiple

\* Multiples of a power are closed under sums and differences.
LEMMA MultipleSums ==
  ASSUME NEW n \in 0..Height, NEW v, NEW w, IsMultiple(v, n), IsMultiple(w, n)
  PROVE  /\ v \in Int /\ w \in Int
         /\ IsMultiple(v + w, n) /\ IsMultiple(v - w, n) /\ IsMultiple(0, n)
<1>1. PICK k \in Int, l \in Int : v = k * 2^n /\ w = l * 2^n BY DEF IsMultiple
<1>2. PICK a \in Int : a = 2^n BY PowerFacts
<1>3. v \in Int /\ w \in Int BY <1>1, <1>2
<1>4. v + w = (k + l) * a /\ v - w = (k - l) * a /\ 0 = 0 * a BY <1>1, <1>2
<1>5. k + l \in Int /\ k - l \in Int OBVIOUS
<1> QED BY <1>2, <1>3, <1>4, <1>5 DEF IsMultiple

\* Division with remainder.
LEMMA DivMod ==
  ASSUME NEW a \in Nat \ {0}, NEW v \in Int
  PROVE  v = a * (v \div a) + (v % a) /\ v \div a \in Int
OBVIOUS

\* A number without remainder is a multiple.
LEMMA MultipleMod ==
  ASSUME NEW n \in 0..Height, NEW v \in Int, v % (2^n) = 0 PROVE IsMultiple(v, n)
<1>1. PICK a \in Nat \ {0} : a = 2^n BY PowerFacts
<1>2. v = a * (v \div a) + (v % a) /\ v \div a \in Int BY DivMod
<1>3. PICK k \in Int : k = v \div a BY <1>2
<1>4. v % a = 0 BY <1>1
<1>5. v = a * k BY <1>2, <1>3, <1>4
<1>6. v = k * a BY <1>1, <1>5
<1> QED BY <1>1, <1>6 DEF IsMultiple

\* Multiples of a power other than 1 are even.
LEMMA MultipleIsEven ==
  ASSUME NEW n \in 1..Height, NEW v, IsMultiple(v, n) PROVE IsEven(v)
<1>1. PICK k \in Int : v = k * 2^n BY DEF IsMultiple
<1>2. PICK a \in Int : a = 2^(n - 1) /\ 2^n = 2 * a
  <2>1. n - 1 \in 0..Height /\ (n - 1) + 1 = n OBVIOUS
  <2>2. 2^(n - 1) \in Nat /\ 2^n = 2 * 2^(n - 1) BY <2>1, PowerFacts
  <2> QED BY <2>2
<1>3. k * (2 * a) = 2 * (k * a) /\ k * a \in Int OBVIOUS
<1> QED BY <1>1, <1>2, <1>3 DEF IsEven

\* Forward and backward steps of the transform are inverse to each other.
LEMMA ForwardExact ==
  ASSUME NEW n \in 0..(Height - 1), NEW a, NEW b, IsMultiple(a, n + 1), IsMultiple(b, n + 1)
  PROVE  /\ IsMultiple(ForwardScale(a, b), n) /\ IsEven(ForwardDetail(a, b))
         /\ Backward(ForwardScale(a, b), ForwardDetail(a, b), 0) = a
         /\ Backward(ForwardScale(a, b), ForwardDetail(a, b), 1) = b
<1>1. PICK k \in Int, l \in Int : a = k * 2^(n + 1) /\ b = l * 2^(n + 1) BY DEF IsMultiple
<1>2. PICK e \in Int : e = 2^n /\ 2^(n + 1) = 2 * e
  <2>1. n \in 0..Height /\ n + 1 <= Height OBVIOUS
  <2> QED BY <2>1, PowerFacts
<1>3. PICK x \in Int, y \in Int : x = k * e /\ y = l * e OBVIOUS
<1>4. k * (2 * e) = 2 * x /\ l * (2 * e) = 2 * y BY <1>3
<1>5. a = 2 * x /\ b = 2 * y BY <1>1, <1>2, <1>4
<1>6. ForwardDetail(a, b) = 2 * (y - x) /\ y - x \in Int BY <1>5 DEF ForwardDetail
<1>7. (2 * (y - x)) \div 2 = y - x OBVIOUS
<1>8. ForwardScale(a, b) = x + y
  <2>1. b - a = 2 * (y - x) BY <1>5
  <2>2. ForwardScale(a, b) = a + (y - x) BY <1>7, <2>1 DEF ForwardScale
  <2> QED BY <1>5, <2>2
<1>9. x + y = (k + l) * e /\ k + l \in Int BY <1>3
<1>10. IsMultiple(ForwardScale(a, b), n) BY <1>2, <1>8, <1>9 DEF IsMultiple
<1>11. Backward(ForwardScale(a, b), ForwardDetail(a, b), 0) = (x + y) - (y - x)
  BY <1>6, <1>7, <1>8 DEF Backward
<1>12. Backward(ForwardScale(a, b), ForwardDetail(a, b), 1) = (x + y) + (y - x)
  BY <1>6, <1>7, <1>8 DEF Backward
<1>13. (x + y) - (y - x) = 2 * x /\ (x + y) + (y - x) = 2 * y OBVIOUS
<1> QED BY <1>5, <1>6, <1>10, <1>11, <1>12, <1>13 DEF IsEven

-----------------------------------------------------------------------------
(* Coefficients replaced from the leaves up, as Compress does              *)

\* A part of a tree that has the root; its frontier lies below it.
IsTop(over) == /\ over \subseteq NodePath /\ <<>> \in over
               /\ \A p \in over : Above(p) \subseteq over

\* A part of the tree with the root has the parents of its nodes.
LEMMA TopHasFront == ASSUME NEW over, IsTop(over), NEW p \in over, p # <<>> PROVE Front(p) \in over
<1>1. p \in Path BY LeafIsLong DEF IsTop
<1> QED BY <1>1, AboveFront DEF IsTop

\* A child of such a part is in it, or on its frontier.
LEMMA TopHasChildren ==
  ASSUME NEW over, IsTop(over), NEW p \in over, NEW i \in {0, 1}
  PROVE  Child(p, i) \in over \/ Child(p, i) \in Frontier(over)
<1>1. p \in NodePath BY DEF IsTop
<1> QED BY <1>1, ChildPath DEF Frontier

\* Coefficients that represent values exactly.
IsExact(s, d) ==
  /\ s \in Int /\ d \in [NodePath -> Int]
  /\ \A p \in NodePath : IsEven(d[p])
  /\ \A p \in Path : IsMultiple(ValueOf(s, d)[p], Len(p))

\* Adding to a value adds the same to what is below it.
LEMMA BackwardShift ==
  ASSUME NEW s \in Int, NEW x \in Int, NEW d \in Int, NEW i \in {0, 1}
  PROVE  Backward(s + x, d, i) = Backward(s, d, i) + x
<1>1. PICK h \in Int : h = d \div 2 OBVIOUS
<1>2. CASE i = 0 BY <1>1, <1>2 DEF Backward
<1>3. CASE i # 0 BY <1>1, <1>3 DEF Backward
<1> QED BY <1>2, <1>3

\* Without a detail, children have the value of their node.
LEMMA BackwardOfZero == ASSUME NEW s \in Int, NEW i \in {0, 1} PROVE Backward(s, 0, i) = s
<1>1. 0 \div 2 = 0 OBVIOUS
<1> QED BY <1>1 DEF Backward

\* What the new coefficients are to the old ones.
Replaces(s, d, t, e, over, base) ==
  /\ t = Lifted(over, base)[<<>>]
  /\ e = [p \in NodePath |->
            IF p \in over THEN ForwardDetail(Lifted(over, base)[Child(p, 0)],
                                             Lifted(over, base)[Child(p, 1)])
            ELSE d[p]]

\* The edge is moved by multiples of the grain of the cells.
MovesExactly(s, d, over, base) ==
  \A p \in Frontier(over) : IsMultiple(base[p] - ValueOf(s, d)[p], Height)

\* Lifted values are multiples of as many halvings as there are levels below.
LEMMA LiftedExact ==
  ASSUME NEW s, NEW d, IsExact(s, d), NEW over, IsTop(over), NEW base \in [Path -> Int],
         MovesExactly(s, d, over, base),
         NEW p \in Path, p \in over \/ p \in Frontier(over)
  PROVE  IsMultiple(Lifted(over, base)[p], Len(p))
<1> DEFINE up == Lifted(over, base)
           S == {q \in Path : q \in over \cup Frontier(over) => IsMultiple(up[q], Len(q))}
<1>1. /\ over \subseteq NodePath /\ up \in [Path -> Int]
      /\ \A q \in Path : up[q] = IF q \in over THEN ForwardScale(up[Child(q, 0)], up[Child(q, 1)])
                                 ELSE base[q]
  BY LiftedDefined DEF IsTop
<1> HIDE DEF up
<1>2. ASSUME NEW q \in Frontier(over) PROVE IsMultiple(up[q], Len(q))
  <2>1. q \in Path /\ q \notin over BY DEF Frontier
  <2>2. up[q] = base[q] /\ base[q] \in Int BY <1>1, <2>1
  <2>3. Len(q) \in 0..Height BY <2>1, PathIsSeq
  <2>4. PICK x, y : x = ValueOf(s, d)[q] /\ y = base[q] - ValueOf(s, d)[q] OBVIOUS
  <2>5. IsMultiple(x, Len(q)) BY <2>1, <2>4 DEF IsExact
  <2>6. IsMultiple(y, Len(q))
    <3>1. IsMultiple(y, Height) BY <2>4 DEF MovesExactly
    <3> QED BY <2>3, <3>1, MultipleOfLess
  <2>7. IsMultiple(x + y, Len(q)) /\ x \in Int BY <2>3, <2>5, <2>6, MultipleSums
  <2>8. x + y = base[q] BY <2>2, <2>4, <2>7
  <2> QED BY <2>2, <2>7, <2>8
<1>3. Leaf \subseteq S
  <2>1. \A q \in Leaf : q \in Path /\ q \notin over BY <1>1, LeafIsLong DEF NodePath
  <2> QED BY <1>2, <2>1
<1>4. ASSUME NEW q \in NodePath, Child(q, 0) \in S, Child(q, 1) \in S PROVE q \in S
  <2>1. q \in Path BY LeafIsLong
  <2> SUFFICES ASSUME q \in over PROVE IsMultiple(up[q], Len(q)) BY <1>2, <2>1
  <2>2. /\ Child(q, 0) \in over \cup Frontier(over) /\ Child(q, 1) \in over \cup Frontier(over)
    BY TopHasChildren
  <2>3. /\ IsMultiple(up[Child(q, 0)], Len(q) + 1) /\ IsMultiple(up[Child(q, 1)], Len(q) + 1)
    BY <1>4, <2>2, ChildPath
  <2>4. Len(q) \in 0..(Height - 1) BY <2>1, LeafIsLong, PathIsSeq
  <2>5. IsMultiple(ForwardScale(up[Child(q, 0)], up[Child(q, 1)]), Len(q))
    BY <2>3, <2>4, ForwardExact
  <2> QED BY <1>1, <2>1, <2>5
<1> HIDE DEF S
<1>5. p \in S BY <1>3, <1>4, FromTheLeaves
<1> QED BY <1>5 DEF S, up

\* The new coefficients have the values that were lifted.
LEMMA ReplacedTop ==
  ASSUME NEW s, NEW d, IsExact(s, d), NEW over, IsTop(over), NEW base \in [Path -> Int],
         MovesExactly(s, d, over, base), NEW t, NEW e, Replaces(s, d, t, e, over, base)
  PROVE  /\ t \in Int /\ e \in [NodePath -> Int] /\ \A q \in NodePath : IsEven(e[q])
         /\ \A p \in over \cup Frontier(over) : ValueOf(t, e)[p] = Lifted(over, base)[p]
<1> DEFINE up == Lifted(over, base)
<1>1. /\ over \subseteq NodePath /\ up \in [Path -> Int]
      /\ \A q \in Path : up[q] = IF q \in over THEN ForwardScale(up[Child(q, 0)], up[Child(q, 1)])
                                 ELSE base[q]
      /\ <<>> \in over
  BY LiftedDefined DEF IsTop
<1>2. /\ t = up[<<>>]
      /\ e = [p \in NodePath |-> IF p \in over THEN ForwardDetail(up[Child(p, 0)], up[Child(p, 1)])
                                 ELSE d[p]]
  BY DEF Replaces
<1>0. \A q \in Path : q \in over \cup Frontier(over) => IsMultiple(up[q], Len(q))
  BY LiftedExact
<1> HIDE DEF up
<1>3. t \in Int BY <1>1, <1>2, RootPath
<1>4. ASSUME NEW q \in NodePath PROVE e[q] \in Int /\ IsEven(e[q])
  <2>1. CASE q \notin over BY <1>2, <2>1 DEF IsExact
  <2>2. CASE q \in over
    <3>1. Child(q, 0) \in Path /\ Child(q, 1) \in Path BY ChildPath
    <3>2. up[Child(q, 0)] \in Int /\ up[Child(q, 1)] \in Int BY <1>1, <3>1
    <3>3. e[q] = ForwardDetail(up[Child(q, 0)], up[Child(q, 1)]) BY <1>2, <2>2
    <3>4. /\ IsMultiple(up[Child(q, 0)], Len(q) + 1) /\ IsMultiple(up[Child(q, 1)], Len(q) + 1)
      BY <1>0, <2>2, <3>1, TopHasChildren, ChildPath
    <3>5. Len(q) \in 0..(Height - 1) BY LeafIsLong, PathIsSeq
    <3>6. ForwardDetail(up[Child(q, 0)], up[Child(q, 1)]) \in Int BY <3>2, ForwardIsInt
    <3>7. IsEven(ForwardDetail(up[Child(q, 0)], up[Child(q, 1)])) BY <3>4, <3>5, ForwardExact
    <3> QED BY <3>3, <3>6, <3>7
  <2> QED BY <2>1, <2>2
<1>5. e \in [NodePath -> Int]
  <2>1. e = [q \in NodePath |-> e[q]] BY <1>2
  <2> QED BY <1>4, <2>1
<1> DEFINE S == {q \in Path : q \in over \cup Frontier(over) => ValueOf(t, e)[q] = up[q]}
<1>6. <<>> \in S BY <1>2, <1>3, <1>5, ValueDefined, RootPath
<1>7. ASSUME NEW q \in Path \ {<<>>}, Front(q) \in S PROVE q \in S
  <2> SUFFICES ASSUME q \in over \cup Frontier(over) PROVE ValueOf(t, e)[q] = up[q] OBVIOUS
  <2> DEFINE f == Front(q)
             i == Last(q)
  <2>1. f \in over BY TopHasFront DEF Frontier
  <2>2. f \in NodePath /\ f \in Path /\ i \in {0, 1} /\ Child(f, i) = q
    BY FrontPath, LeafIsLong
  <2>3. ValueOf(t, e)[f] = up[f] BY <1>7, <2>1
  <2>4. ValueOf(t, e)[q] = Backward(up[f], e[f], i) BY <1>3, <1>5, <2>3, ValueDefined
  <2>5. up[f] = ForwardScale(up[Child(f, 0)], up[Child(f, 1)]) BY <1>1, <2>1, <2>2
  <2>6. e[f] = ForwardDetail(up[Child(f, 0)], up[Child(f, 1)]) BY <1>2, <2>1, <2>2
  <2> HIDE DEF f, i
  <2>7. /\ IsMultiple(up[Child(f, 0)], Len(f) + 1) /\ IsMultiple(up[Child(f, 1)], Len(f) + 1)
    BY <1>0, <2>1, <2>2, TopHasChildren, ChildPath
  <2>8. Len(f) \in 0..(Height - 1) BY <2>2, LeafIsLong, PathIsSeq
  <2> QED BY <2>2, <2>4, <2>5, <2>6, <2>7, <2>8, ForwardExact
<1> HIDE DEF S
<1>8. Path \subseteq S BY <1>6, <1>7, FromTheRoot
<1>9. over \cup Frontier(over) \subseteq Path BY <1>1, LeafIsLong DEF Frontier
<1> QED BY <1>3, <1>4, <1>5, <1>8, <1>9 DEF S, up

\* Below the edge all values move by what the edge moved, and are that of the
\* edge if there are no details.
IsBelow(s, d, t, e, over, base, p, f) ==
  /\ f \in Frontier(over) /\ (f = p \/ f \in Above(p))
  /\ ValueOf(t, e)[p] = ValueOf(s, d)[p] + (base[f] - ValueOf(s, d)[f])
  /\ (\A q \in NodePath \ over : d[q] = 0) => ValueOf(s, d)[p] = ValueOf(s, d)[f]

\* What is below the frontier moves as the frontier does.
LEMMA ReplacedBelow ==
  ASSUME NEW s, NEW d, IsExact(s, d), NEW over, IsTop(over), NEW base \in [Path -> Int],
         MovesExactly(s, d, over, base), NEW t, NEW e, Replaces(s, d, t, e, over, base)
  PROVE  \A p \in Path \ over : \E f \in Frontier(over) : IsBelow(s, d, t, e, over, base, p, f)
<1>0. \A p \in Path \ over : Lifted(over, base)[p] = base[p]
  <2> DEFINE up == Lifted(over, base)
  <2>1. \A q \in Path : up[q] = IF q \in over THEN ForwardScale(up[Child(q, 0)], up[Child(q, 1)])
                                 ELSE base[q]
    BY LiftedDefined DEF IsTop
  <2> HIDE DEF up
  <2>2. \A p \in Path \ over : up[p] = base[p] BY <2>1
  <2> QED BY <2>2 DEF up
<1> DEFINE old == ValueOf(s, d)
           new == ValueOf(t, e)
<1>1. t \in Int /\ e \in [NodePath -> Int] /\ \A p \in Frontier(over) : new[p] = Lifted(over, base)[p]
  BY ReplacedTop
<1>2. /\ old \in [Path -> Int]
      /\ \A p \in Path \ {<<>>} : old[p] = Backward(old[Front(p)], d[Front(p)], Last(p))
  BY ValueDefined DEF IsExact
<1>3. /\ new \in [Path -> Int]
      /\ \A p \in Path \ {<<>>} : new[p] = Backward(new[Front(p)], e[Front(p)], Last(p))
  BY <1>1, ValueDefined
<1>4. ASSUME NEW f \in Frontier(over) PROVE new[f] = base[f]
  <2>1. f \in Path /\ f \notin over BY DEF Frontier
  <2>2. Lifted(over, base)[f] = base[f] BY <1>0, <2>1
  <2>3. new[f] = Lifted(over, base)[f] BY <1>1
  <2> QED BY <2>2, <2>3
<1>5. \A q \in NodePath \ over : e[q] = d[q] BY DEF Replaces
<1> DEFINE S == {p \in Path : p \notin over =>
                   \E f \in Frontier(over) : IsBelow(s, d, t, e, over, base, p, f)}
<1>6. <<>> \in S BY RootPath DEF IsTop
<1>7. ASSUME NEW p \in Path \ {<<>>}, Front(p) \in S PROVE p \in S
  <2> SUFFICES ASSUME p \notin over
               PROVE  \E f \in Frontier(over) : IsBelow(s, d, t, e, over, base, p, f)
    OBVIOUS
  <2> DEFINE g == Front(p)
             i == Last(p)
  <2>0. g \in NodePath /\ g \in Path /\ i \in {0, 1} BY FrontPath, LeafIsLong
  <2>1. CASE g \in over
    <3>1. p \in Frontier(over) BY <2>1 DEF Frontier
    <3>2. new[p] = base[p] /\ base[p] \in Int /\ old[p] \in Int BY <1>2, <1>4, <3>1
    <3>3. new[p] = old[p] + (base[p] - old[p]) BY <3>2
    <3>4. IsBelow(s, d, t, e, over, base, p, p) BY <3>1, <3>3 DEF IsBelow
    <3> QED BY <3>1, <3>4
  <2>2. CASE g \notin over
    <3>1. PICK f \in Frontier(over) : IsBelow(s, d, t, e, over, base, g, f) BY <1>7, <2>2
    <3>2. f \in Path BY DEF Frontier
    <3>3. PICK x \in Int : x = base[f] - old[f] BY <1>2, <3>2
    <3>4. new[g] = old[g] + x BY <3>1, <3>3 DEF IsBelow
    <3>5. e[g] = d[g] /\ d[g] \in Int /\ old[g] \in Int
      BY <1>2, <1>5, <2>0, <2>2 DEF IsExact
    <3>6. old[p] = Backward(old[g], d[g], i) /\ new[p] = Backward(old[g] + x, d[g], i)
      BY <1>2, <1>3, <3>4, <3>5
    <3> HIDE DEF old, new
    <3>7. new[p] = old[p] + x BY <2>0, <3>5, <3>6, BackwardShift
    <3>8. (\A q \in NodePath \ over : d[q] = 0) => old[p] = old[f]
      <4> SUFFICES ASSUME \A q \in NodePath \ over : d[q] = 0 PROVE old[p] = old[f] OBVIOUS
      <4>1. old[g] = old[f] BY <3>1 DEF IsBelow, old
      <4>2. d[g] = 0 BY <2>0, <2>2
      <4> QED BY <2>0, <3>5, <3>6, <4>1, <4>2, BackwardOfZero
    <3>9. f = p \/ f \in Above(p)
      <4>1. f = g \/ f \in Above(g) BY <3>1 DEF IsBelow
      <4> QED BY <4>1, AboveFront
    <3> QED BY <3>3, <3>7, <3>8, <3>9 DEF IsBelow, old, new
  <2> QED BY <2>1, <2>2
<1> HIDE DEF S
<1>8. Path \subseteq S BY <1>6, <1>7, FromTheRoot
<1> QED BY <1>8 DEF S

\* The new coefficients are exact again.
LEMMA ReplacedExact ==
  ASSUME NEW s, NEW d, IsExact(s, d), NEW over, IsTop(over), NEW base \in [Path -> Int],
         MovesExactly(s, d, over, base), NEW t, NEW e, Replaces(s, d, t, e, over, base)
  PROVE  IsExact(t, e)
<1>1. /\ t \in Int /\ e \in [NodePath -> Int] /\ \A q \in NodePath : IsEven(e[q])
      /\ \A p \in over \cup Frontier(over) : ValueOf(t, e)[p] = Lifted(over, base)[p]
  BY ReplacedTop
<1>2. ASSUME NEW p \in Path PROVE IsMultiple(ValueOf(t, e)[p], Len(p))
  <2>1. CASE p \in over BY <1>1, <2>1, LiftedExact
  <2>2. CASE p \notin over
    <3>1. PICK f \in Frontier(over) : IsBelow(s, d, t, e, over, base, p, f) BY <2>2, ReplacedBelow
    <3>2. PICK x, y : x = ValueOf(s, d)[p] /\ y = base[f] - ValueOf(s, d)[f] OBVIOUS
    <3>3. Len(p) \in 0..Height BY PathIsSeq
    <3>4. IsMultiple(x, Len(p)) BY <3>2 DEF IsExact
    <3>5. IsMultiple(y, Height) BY <3>2 DEF MovesExactly
    <3>6. IsMultiple(y, Len(p)) BY <3>3, <3>5, MultipleOfLess
    <3>7. IsMultiple(x + y, Len(p)) BY <3>3, <3>4, <3>6, MultipleSums
    <3>8. ValueOf(t, e)[p] = x + y BY <3>1, <3>2 DEF IsBelow
    <3> QED BY <3>7, <3>8
  <2> QED BY <2>1, <2>2
<1> QED BY <1>1, <1>2 DEF IsExact

\* A part of the tree that has the parents of its nodes has all above them.
LEMMA TopByFront ==
  ASSUME NEW over, over \subseteq NodePath, <<>> \in over,
         \A p \in over \ {<<>>} : Front(p) \in over
  PROVE  IsTop(over)
<1> DEFINE S == {p \in Path : p \in over => Above(p) \subseteq over}
<1>1. <<>> \in S BY AboveRoot, RootPath
<1>2. ASSUME NEW p \in Path \ {<<>>}, Front(p) \in S PROVE p \in S
  BY <1>2, AboveFront
<1> HIDE DEF S
<1>3. Path \subseteq S BY <1>1, <1>2, FromTheRoot
<1> QED BY <1>3, LeafIsLong DEF S, IsTop

-----------------------------------------------------------------------------
(* Increments of a path, as addToCellValue makes them                      *)

\* Above a path are the shorter ones that take the same steps.
LEMMA AboveAgrees ==
  ASSUME NEW p \in Path, NEW q \in Path
  PROVE  q \in Above(p) <=> Len(q) < Len(p) /\ \A j \in 1..Len(q) : q[j] = p[j]
<1>1. /\ p \in Seq({0, 1}) /\ Len(p) \in 0..Height /\ q \in Seq({0, 1}) /\ Len(q) \in 0..Height
  BY PathIsSeq
<1>2. ASSUME q \in Above(p) PROVE Len(q) < Len(p) /\ \A j \in 1..Len(q) : q[j] = p[j]
  <2>1. PICK n \in 0..(Len(p) - 1) : q = SubSeq(p, 1, n) BY <1>2 DEF Above
  <2>2. n \in 0..Len(p) /\ n < Len(p) BY <1>1, <2>1
  <2> QED BY <2>1, <2>2, Prefix
<1>3. ASSUME Len(q) < Len(p), \A j \in 1..Len(q) : q[j] = p[j] PROVE q \in Above(p)
  <2>1. PICK n : n = Len(q) OBVIOUS
  <2>2. n \in 0..Len(p) /\ n \in 0..(Len(p) - 1) BY <1>1, <1>3, <2>1
  <2>3. /\ SubSeq(p, 1, n) \in Path /\ Len(SubSeq(p, 1, n)) = n
        /\ \A j \in 1..n : SubSeq(p, 1, n)[j] = p[j]
    BY <2>2, Prefix
  <2>4. SubSeq(p, 1, n) \in Seq({0, 1}) BY <2>3, PathIsSeq
  <2>5. q = SubSeq(p, 1, n) BY <1>1, <1>3, <2>1, <2>3, <2>4, SeqEqual
  <2> QED BY <2>2, <2>5 DEF Above
<1> QED BY <1>2, <1>3

\* Below a path are the longer ones that take the same steps.
LEMMA BelowAgrees ==
  ASSUME NEW p \in Path, NEW q \in Path, Len(p) <= Len(q)
  PROVE  SubSeq(q, 1, Len(p)) = p <=> \A j \in 1..Len(p) : q[j] = p[j]
<1>1. p \in Seq({0, 1}) /\ Len(p) \in 0..Len(q) BY PathIsSeq
<1>2. PICK n \in 0..Len(q) : n = Len(p) BY <1>1
<1>3. /\ SubSeq(q, 1, n) \in Path /\ Len(SubSeq(q, 1, n)) = n
      /\ \A j \in 1..n : SubSeq(q, 1, n)[j] = q[j]
  BY Prefix
<1>4. SubSeq(q, 1, n) \in Seq({0, 1}) BY <1>3, PathIsSeq
<1>5. ASSUME \A j \in 1..n : q[j] = p[j] PROVE SubSeq(q, 1, n) = p
  BY <1>1, <1>2, <1>3, <1>4, <1>5, SeqEqual
<1>6. ASSUME SubSeq(q, 1, n) = p PROVE \A j \in 1..n : q[j] = p[j]
  BY <1>3, <1>6
<1> QED BY <1>2, <1>5, <1>6

\* What an increment v of p adds to the value of q.
Added(p, v, q) ==
  IF q \in Above(p) THEN ScaleShare(p, v, q)
  ELSE IF Len(p) <= Len(q) /\ SubSeq(q, 1, Len(p)) = p THEN v ELSE 0

\* Halving a multiple of 2^Height is exact down to the root.
LEMMA ShareHalves ==
  ASSUME NEW v, IsMultiple(v, Height), NEW k \in 0..Height
  PROVE  /\ v \div 2^k \in Int /\ IsMultiple(v \div 2^k, Height - k)
         /\ k # 0 => v \div 2^(k - 1) = 2 * (v \div 2^k)
         /\ v \div 2^0 = v
<1>1. PICK l \in Int : v = l * 2^Height BY DEF IsMultiple
<1>2. PICK h, a, b : h = 2^Height /\ a = 2^k /\ b = 2^(Height - k) OBVIOUS
<1>3. a \in Nat \ {0} /\ b \in Nat \ {0} /\ h = a * b
  <2>1. k \in 0..Height /\ Height - k \in 0..Height /\ Height \in 0..Height OBVIOUS
  <2> QED BY <1>2, <2>1, PowerFacts
<1>4. PICK x \in Int : x = l * b BY <1>3
<1>5. l * (a * b) = a * (l * b) BY <1>3
<1>6. v = a * x BY <1>1, <1>2, <1>3, <1>4, <1>5
<1>7. (a * x) \div a = x BY <1>3
<1>8. v \div 2^k = x BY <1>2, <1>6, <1>7
<1>9. IsMultiple(v \div 2^k, Height - k) BY <1>2, <1>4, <1>8 DEF IsMultiple
<1>10. ASSUME k # 0 PROVE v \div 2^(k - 1) = 2 * (v \div 2^k)
  <2>1. PICK c \in Nat \ {0} : c = 2^(k - 1) /\ a = 2 * c
    <3>1. k - 1 \in 0..Height /\ (k - 1) + 1 = k /\ k <= Height BY <1>10
    <3>2. 2^(k - 1) \in Nat \ {0} /\ 2^k = 2 * 2^(k - 1) BY <3>1, PowerFacts
    <3> QED BY <1>2, <3>2
  <2>2. (2 * c) * x = c * (2 * x) BY <2>1
  <2>3. v = c * (2 * x) BY <1>6, <2>1, <2>2
  <2>4. (c * (2 * x)) \div c = 2 * x BY <2>1
  <2> QED BY <1>8, <2>1, <2>3, <2>4
<1>11. v \div 2^0 = v
  <2>1. v \in Int BY <1>3, <1>6
  <2>2. v \div 1 = v BY <2>1
  <2> QED BY <2>2, PowersOfTwo
<1> QED BY <1>8, <1>9, <1>10, <1>11

\* The two halves of a detail that changes with its scale.
LEMMA ShareMovesOne ==
  ASSUME NEW s \in Int, NEW d \in Int, NEW x \in Int, IsEven(d)
  PROVE  /\ Backward(s + x, d + -(2 * x), 0) = Backward(s, d, 0) + 2 * x
         /\ Backward(s + x, d + -(2 * x), 1) = Backward(s, d, 1)
         /\ Backward(s + x, d + 2 * x, 0) = Backward(s, d, 0)
         /\ Backward(s + x, d + 2 * x, 1) = Backward(s, d, 1) + 2 * x
<1>1. PICK h \in Int : d = 2 * h BY DEF IsEven
<1>2. (2 * h) \div 2 = h /\ (2 * (h - x)) \div 2 = h - x /\ (2 * (h + x)) \div 2 = h + x OBVIOUS
<1>3. d + -(2 * x) = 2 * (h - x) /\ d + 2 * x = 2 * (h + x) BY <1>1
<1>4. (d + -(2 * x)) \div 2 = h - x /\ (d + 2 * x) \div 2 = h + x /\ d \div 2 = h
  BY <1>1, <1>2, <1>3
<1> QED BY <1>4 DEF Backward

\* The coefficients after an increment.
Increments(s, d, t, e, p, v) ==
  /\ t = s + ScaleShare(p, v, <<>>)
  /\ e = [q \in NodePath |-> IF q \in Above(p) THEN d[q] + DetailShare(p, v, q) ELSE d[q]]

\* An increment of a path adds its share to what is above, all of it to the path
\* and what is below, and nothing elsewhere.
LEMMA IncrementAdds ==
  ASSUME NEW s, NEW d, IsExact(s, d), NEW p \in Path \ {<<>>}, NEW v, IsMultiple(v, Height),
         NEW t, NEW e, Increments(s, d, t, e, p, v)
  PROVE  /\ t \in Int /\ e \in [NodePath -> Int] /\ \A q \in NodePath : IsEven(e[q])
         /\ \A q \in Path : /\ ValueOf(t, e)[q] = ValueOf(s, d)[q] + Added(p, v, q)
                            /\ IsMultiple(Added(p, v, q), Len(q))
<1> DEFINE n == Len(p)
<1>1. /\ n \in 1..Height /\ v \in Int
      /\ s \in Int /\ d \in [NodePath -> Int] /\ \A q \in NodePath : IsEven(d[q])
  <2>1. n \in 1..Height BY PathIsSeq, RootPath
  <2>2. Height \in 0..Height OBVIOUS
  <2>3. v \in Int BY <2>2, MultipleSums
  <2> QED BY <2>1, <2>3 DEF IsExact
<1>2. ASSUME NEW q \in Above(p)
      PROVE  /\ q \in NodePath /\ q \in Path /\ Len(q) \in 0..(n - 1)
             /\ ScaleShare(p, v, q) \in Int /\ IsMultiple(ScaleShare(p, v, q), Len(q))
             /\ v \div 2^(n - (Len(q) + 1)) = 2 * ScaleShare(p, v, q)
             /\ DetailShare(p, v, q) = IF p[Len(q) + 1] = 0 THEN -(2 * ScaleShare(p, v, q))
                                       ELSE 2 * ScaleShare(p, v, q)
             /\ p[Len(q) + 1] \in {0, 1}
  <2>1. PICK m \in 0..(n - 1) : q = SubSeq(p, 1, m) BY DEF Above
  <2>2. m \in 0..Len(p) /\ m + 1 \in 0..Len(p) /\ m + 1 \in 1..Len(p) /\ m < Height BY <1>1, <2>1
  <2>3. q \in Path /\ Len(q) = m BY <2>1, <2>2, Prefix
  <2>4. q \in NodePath BY <2>2, <2>3, LeafIsLong
  <2>5. Len(SubSeq(p, 1, m + 1)) = m + 1 BY <2>2, Prefix
  <2>6. PICK k \in 1..Height : k = n - m BY <1>1, <2>1
  <2>7. k \in 0..Height /\ k # 0 /\ k - 1 = n - (m + 1) /\ m \in 0..(Height - k) /\ Height - k \in 0..Height
    BY <1>1, <2>1, <2>6
  <2>8. /\ v \div 2^k \in Int /\ IsMultiple(v \div 2^k, Height - k)
        /\ v \div 2^(k - 1) = 2 * (v \div 2^k)
    BY <2>7, ShareHalves
  <2>9. ScaleShare(p, v, q) = v \div 2^k BY <2>3, <2>6 DEF ScaleShare
  <2>10. IsMultiple(ScaleShare(p, v, q), m) BY <2>7, <2>8, <2>9, MultipleOfLess
  <2>11. ScaleShare(p, v, SubSeq(p, 1, m + 1)) = v \div 2^(k - 1)
    BY <2>5, <2>7 DEF ScaleShare
  <2>12. DetailShare(p, v, q) = IF p[m + 1] = 0 THEN -(v \div 2^(k - 1)) ELSE v \div 2^(k - 1)
    BY <2>3, <2>11 DEF DetailShare
  <2>13. p[m + 1] \in {0, 1} BY <2>2, PathIsSeq, ElementOfSeq
  <2>14. v \div 2^(n - (m + 1)) = 2 * ScaleShare(p, v, q) BY <2>7, <2>8, <2>9
  <2> QED BY <2>1, <2>3, <2>4, <2>8, <2>9, <2>10, <2>12, <2>13, <2>14
<1>3. <<>> \in Above(p)
  <2>1. \A j \in 1..Len(<<>>) : FALSE BY RootPath
  <2>2. Len(<<>>) < Len(p) BY <1>1, RootPath
  <2> QED BY <2>1, <2>2, RootPath, AboveAgrees
<1>4. ASSUME NEW q \in Path
      PROVE  Added(p, v, q) \in Int /\ IsMultiple(Added(p, v, q), Len(q))
  <2>1. CASE q \in Above(p) BY <1>2, <2>1 DEF Added
  <2>2. CASE q \notin Above(p)
    <3>1. Len(q) \in 0..Height /\ Height \in 0..Height BY PathIsSeq
    <3>2. IsMultiple(v, Len(q)) BY <3>1, MultipleOfLess
    <3>3. IsMultiple(0, Len(q)) BY <3>1, <3>2, MultipleSums
    <3>4. Added(p, v, q) \in {v, 0} BY <2>2 DEF Added
    <3> QED BY <1>1, <3>2, <3>3, <3>4
  <2> QED BY <2>1, <2>2
<1>5. t \in Int
  <2>1. ScaleShare(p, v, <<>>) \in Int BY <1>2, <1>3
  <2> QED BY <1>1, <2>1 DEF Increments
<1>6. ASSUME NEW q \in NodePath PROVE e[q] \in Int /\ IsEven(e[q])
  <2>0. d[q] \in Int /\ IsEven(d[q]) BY <1>1
  <2>1. CASE q \notin Above(p) BY <2>0, <2>1 DEF Increments
  <2>2. CASE q \in Above(p)
    <3>1. PICK x \in Int : x = ScaleShare(p, v, q) BY <1>2, <2>2
    <3>2. DetailShare(p, v, q) \in {-(2 * x), 2 * x} BY <1>2, <2>2, <3>1
    <3>3. e[q] = d[q] + DetailShare(p, v, q) BY <2>2 DEF Increments
    <3>4. PICK h \in Int : d[q] = 2 * h BY <2>0 DEF IsEven
    <3>5. e[q] = 2 * (h - x) \/ e[q] = 2 * (h + x) BY <3>2, <3>3, <3>4
    <3>6. h - x \in Int /\ h + x \in Int OBVIOUS
    <3>7. e[q] \in Int BY <3>5
    <3> QED BY <3>5, <3>6, <3>7 DEF IsEven
  <2> QED BY <2>1, <2>2
<1>7. e \in [NodePath -> Int]
  <2>1. e = [q \in NodePath |-> e[q]] BY DEF Increments
  <2> QED BY <1>6, <2>1
<1> DEFINE old == ValueOf(s, d)
           new == ValueOf(t, e)
           S == {q \in Path : new[q] = old[q] + Added(p, v, q)}
<1>8. <<>> \in S
  <2>1. Added(p, v, <<>>) = ScaleShare(p, v, <<>>) BY <1>3 DEF Added
  <2>2. new[<<>>] = t /\ old[<<>>] = s BY <1>1, <1>5, <1>7, ValueDefined
  <2>3. new[<<>>] = old[<<>>] + Added(p, v, <<>>) BY <2>1, <2>2 DEF Increments
  <2> QED BY <2>3, RootPath
<1>9. ASSUME NEW q \in Path \ {<<>>}, Front(q) \in S PROVE q \in S
  <2> SUFFICES new[q] = old[q] + Added(p, v, q) OBVIOUS
  <2> DEFINE f == Front(q)
             i == Last(q)
  <2>1. /\ f \in NodePath /\ f \in Path /\ i \in {0, 1} /\ Len(q) = Len(f) + 1 /\ Len(f) \in Nat
        /\ Len(q) \in 1..Height
    BY FrontPath, LeafIsLong, PathIsSeq
  <2>2. q[Len(f) + 1] = i /\ \A j \in 1..Len(f) : f[j] = q[j]
    <3>1. Len(f) \in 0..Len(q) /\ f = SubSeq(q, 1, Len(f)) BY <2>1 DEF Front
    <3>2. \A j \in 1..Len(f) : SubSeq(q, 1, Len(f))[j] = q[j] BY <3>1, Prefix
    <3>3. i = q[Len(q)] BY DEF Last
    <3> QED BY <2>1, <3>1, <3>2, <3>3
  <2>3. /\ old[f] \in Int /\ d[f] \in Int /\ IsEven(d[f])
        /\ old[q] = Backward(old[f], d[f], i)
    BY <1>1, <2>1, ValueDefined
  <2>4. new[f] = old[f] + Added(p, v, f) /\ new[q] = Backward(new[f], e[f], i)
    <3>1. new[q] = Backward(new[f], e[f], i) BY <1>5, <1>7, ValueDefined
    <3> QED BY <1>9, <3>1
  <2>5. e[f] = IF f \in Above(p) THEN d[f] + DetailShare(p, v, f) ELSE d[f]
    BY <2>1 DEF Increments
  <2>6. /\ q \in Above(p) <=> Len(q) < n /\ \A j \in 1..Len(q) : q[j] = p[j]
        /\ f \in Above(p) <=> Len(f) < n /\ \A j \in 1..Len(f) : f[j] = p[j]
        /\ n <= Len(q) => (SubSeq(q, 1, n) = p <=> \A j \in 1..n : q[j] = p[j])
        /\ n <= Len(f) => (SubSeq(f, 1, n) = p <=> \A j \in 1..n : f[j] = p[j])
    BY <2>1, AboveAgrees, BelowAgrees
  <2> HIDE DEF old, new, f, i, S, n
  <2>7. CASE f \in Above(p)
    <3>1. PICK x \in Int, j \in {0, 1} : x = ScaleShare(p, v, f) /\ j = p[Len(f) + 1]
      BY <1>2, <2>7
    <3>2. Len(f) < n BY <2>6, <2>7
    <3>3. Added(p, v, q) = IF i = j THEN 2 * x ELSE 0
      <4>1. CASE i = j
        <5>1. \A k \in 1..Len(q) : q[k] = p[k]
          <6>1. \A k \in 1..Len(f) : q[k] = p[k] BY <2>2, <2>6, <2>7
          <6>2. q[Len(f) + 1] = p[Len(f) + 1] BY <2>2, <3>1, <4>1
          <6> QED BY <2>1, <6>1, <6>2
        <5>2. CASE Len(q) < n
          <6>1. q \in Above(p) BY <2>6, <5>1, <5>2
          <6>2. ScaleShare(p, v, q) = v \div 2^(n - (Len(f) + 1)) BY <2>1 DEF ScaleShare, n
          <6>3. ScaleShare(p, v, q) = 2 * x BY <1>2, <2>7, <3>1, <6>2 DEF n
          <6> QED BY <4>1, <6>1, <6>3 DEF Added
        <5>3. CASE ~(Len(q) < n)
          <6>1. Len(q) = n BY <1>1, <2>1, <3>2, <5>3
          <6>2. q \notin Above(p) /\ SubSeq(q, 1, n) = p BY <1>1, <2>6, <5>1, <5>3, <6>1
          <6>3. Added(p, v, q) = v BY <1>1, <6>1, <6>2 DEF Added, n
          <6>4. n - (Len(f) + 1) = 0 BY <1>1, <2>1, <6>1
          <6>5. v \div 2^0 = 2 * x BY <1>2, <2>7, <3>1, <6>4 DEF n
          <6>6. v \div 2^0 = v
            <7>1. 0 \in 0..Height OBVIOUS
            <7> QED BY <7>1, ShareHalves
          <6> QED BY <4>1, <6>3, <6>5, <6>6
        <5> QED BY <5>2, <5>3
      <4>2. CASE i # j
        <5>1. q[Len(f) + 1] # p[Len(f) + 1] BY <2>2, <3>1, <4>2
        <5>2. q \notin Above(p)
          <6>1. Len(f) + 1 \in 1..Len(q) BY <2>1
          <6> QED BY <2>6, <5>1, <6>1
        <5>3. ~(n <= Len(q) /\ SubSeq(q, 1, n) = p)
          <6>1. Len(f) + 1 \in 1..n BY <1>1, <2>1, <3>2
          <6> QED BY <2>6, <5>1, <6>1
        <5> QED BY <4>2, <5>2, <5>3 DEF Added, n
      <4> QED BY <4>1, <4>2
    <3>4. Added(p, v, f) = x BY <2>7, <3>1 DEF Added
    <3>5. e[f] = d[f] + (IF j = 0 THEN -(2 * x) ELSE 2 * x) BY <1>2, <2>5, <2>7, <3>1
    <3>6. new[q] = Backward(old[f] + x, d[f] + (IF j = 0 THEN -(2 * x) ELSE 2 * x), i)
      BY <2>4, <3>4, <3>5
    <3>7. new[q] = Backward(old[f], d[f], i) + (IF i = j THEN 2 * x ELSE 0)
      <4>1. PICK a \in Int, b \in Int : a = old[f] /\ b = d[f] BY <2>3
      <4>2. PICK c \in {0, 1} : c = i BY <2>1
      <4>3. IsEven(b) BY <2>3, <4>1
      <4>4. /\ Backward(a + x, b + -(2 * x), 0) = Backward(a, b, 0) + 2 * x
            /\ Backward(a + x, b + -(2 * x), 1) = Backward(a, b, 1)
            /\ Backward(a + x, b + 2 * x, 0) = Backward(a, b, 0)
            /\ Backward(a + x, b + 2 * x, 1) = Backward(a, b, 1) + 2 * x
        BY <4>3, ShareMovesOne
      <4>5. Backward(a, b, 0) \in Int /\ Backward(a, b, 1) \in Int BY BackwardIsInt
      <4>6. CASE j = 0 /\ c = 0 BY <3>6, <4>1, <4>2, <4>4, <4>6
      <4>7. CASE j = 0 /\ c = 1 BY <3>6, <4>1, <4>2, <4>4, <4>5, <4>7
      <4>8. CASE j = 1 /\ c = 0 BY <3>6, <4>1, <4>2, <4>4, <4>5, <4>8
      <4>9. CASE j = 1 /\ c = 1 BY <3>6, <4>1, <4>2, <4>4, <4>9
      <4> QED BY <4>6, <4>7, <4>8, <4>9
    <3> QED BY <2>3, <3>3, <3>7
  <2>8. CASE f \notin Above(p)
    <3>1. Added(p, v, q) = Added(p, v, f)
      <4>1. CASE n <= Len(f) /\ SubSeq(f, 1, n) = p
        <5>1. Added(p, v, f) = v BY <2>8, <4>1 DEF Added, n
        <5>2. n <= Len(q) /\ \A j \in 1..n : q[j] = p[j]
          <6>1. n <= Len(q) BY <1>1, <2>1, <4>1
          <6>2. \A j \in 1..n : f[j] = p[j] BY <2>6, <4>1
          <6>3. \A j \in 1..n : j \in 1..Len(f) BY <1>1, <2>1, <4>1
          <6> QED BY <2>2, <6>1, <6>2, <6>3
        <5>3. ~(Len(q) < n) BY <1>1, <2>1, <4>1
        <5>4. q \notin Above(p) /\ SubSeq(q, 1, n) = p BY <2>6, <5>2, <5>3
        <5> QED BY <5>1, <5>2, <5>4 DEF Added, n
      <4>2. CASE ~(n <= Len(f) /\ SubSeq(f, 1, n) = p)
        <5>1. Added(p, v, f) = 0 BY <2>8, <4>2 DEF Added, n
        <5>2. q \notin Above(p)
          <6> SUFFICES ASSUME q \in Above(p) PROVE FALSE OBVIOUS
          <6>1. Len(f) < n /\ \A j \in 1..Len(f) : f[j] = p[j] BY <1>1, <2>1, <2>2, <2>6
          <6> QED BY <2>6, <2>8, <6>1
        <5>3. ~(n <= Len(q) /\ SubSeq(q, 1, n) = p)
          <6> SUFFICES ASSUME n <= Len(q), \A j \in 1..n : q[j] = p[j] PROVE FALSE BY <2>6
          <6>1. CASE n <= Len(f)
            <7>1. \A j \in 1..n : f[j] = p[j] BY <1>1, <2>1, <2>2, <6>1
            <7> QED BY <2>6, <4>2, <6>1, <7>1
          <6>2. CASE ~(n <= Len(f))
            <7>1. Len(f) < n BY <1>1, <2>1, <6>2
            <7>2. \A j \in 1..Len(f) : f[j] = p[j] BY <1>1, <2>1, <2>2, <7>1
            <7> QED BY <2>6, <2>8, <7>1, <7>2
          <6> QED BY <6>1, <6>2
        <5> QED BY <5>1, <5>2, <5>3 DEF Added, n
      <4> QED BY <4>1, <4>2
    <3>2. PICK x \in Int : x = Added(p, v, f) BY <1>4, <2>1
    <3>3. new[q] = Backward(old[f] + x, d[f], i) BY <2>4, <2>5, <2>8, <3>2
    <3>4. new[q] = Backward(old[f], d[f], i) + x
      <4>1. PICK a \in Int, b \in Int : a = old[f] /\ b = d[f] BY <2>3
      <4>2. PICK c \in {0, 1} : c = i BY <2>1
      <4>3. Backward(a + x, b, c) = Backward(a, b, c) + x
        <5>1. PICK h \in Int : h = b \div 2 OBVIOUS
        <5>2. CASE c = 0 BY <5>1, <5>2 DEF Backward
        <5>3. CASE c = 1 BY <5>1, <5>3 DEF Backward
        <5> QED BY <5>2, <5>3
      <4> QED BY <3>3, <4>1, <4>2, <4>3
    <3> QED BY <2>3, <3>1, <3>2, <3>4
  <2> QED BY <2>7, <2>8
<1> HIDE DEF S
<1>10. Path \subseteq S BY <1>8, <1>9, FromTheRoot
<1>11. \A q \in Path : new[q] = old[q] + Added(p, v, q) BY <1>10 DEF S
<1> QED BY <1>4, <1>5, <1>6, <1>7, <1>11 DEF old, new

-----------------------------------------------------------------------------
(* Which nodes there are                                                   *)

\* Siblings are nodes of the same level, below the same ones.
LEMMA SiblingsAreBeside ==
  ASSUME NEW p \in NodePath
  PROVE  /\ p \in Siblings(p)
         /\ \A q \in Siblings(p) : q \in NodePath /\ Len(q) = Len(p) /\ Above(q) = Above(p)
<1>1. CASE ~(Chunked /\ Len(p) % ChunkHeight # 0) BY <1>1 DEF Siblings
<1>2. CASE Chunked /\ Len(p) % ChunkHeight # 0
  <2>1. p # <<>>
    <3>1. PICK c \in Nat \ {0} : c = ChunkHeight OBVIOUS
    <3>2. 0 % c = 0 OBVIOUS
    <3> QED BY <1>2, <3>1, <3>2, RootPath
  <2>2. Siblings(p) = {Child(Front(p), i) : i \in {0, 1}} BY <1>2 DEF Siblings
  <2>3. /\ p \in Path /\ Front(p) \in NodePath /\ Last(p) \in {0, 1}
        /\ Len(p) = Len(Front(p)) + 1 /\ Child(Front(p), Last(p)) = p
    BY <2>1, FrontPath, LeafIsLong
  <2>4. ASSUME NEW q \in Siblings(p) PROVE q \in NodePath /\ Len(q) = Len(p) /\ Above(q) = Above(p)
    <3>1. PICK i \in {0, 1} : q = Child(Front(p), i) BY <2>2
    <3>2. q \in Path /\ q # <<>> /\ Len(q) = Len(p) /\ Front(q) = Front(p)
      BY <2>3, <3>1, ChildPath
    <3>3. q \in NodePath BY <3>2, LeafIsLong
    <3>4. Above(q) = Above(p) BY <2>1, <2>3, <3>2, AboveFront
    <3> QED BY <3>2, <3>3, <3>4
  <2> QED BY <2>2, <2>3, <2>4
<1> QED BY <1>1, <1>2

\* A tree stays one when it gets another with the siblings of its nodes.
LEMMA AllocatedIsTop ==
  ASSUME NEW ns, IsTop(ns), NEW over, IsTop(over), NEW ms,
         ms = ns \cup UNION {Siblings(p) : p \in over}
  PROVE  IsTop(ms) /\ over \subseteq ms
<1>1. ASSUME NEW q \in ms PROVE q \in NodePath /\ Above(q) \subseteq ns \cup over
  <2>1. CASE q \in ns BY <2>1 DEF IsTop
  <2>2. CASE q \notin ns
    <3>1. PICK p \in over : q \in Siblings(p) BY <2>2
    <3>2. p \in NodePath /\ Above(p) \subseteq over BY DEF IsTop
    <3> QED BY <3>1, <3>2, SiblingsAreBeside
  <2> QED BY <2>1, <2>2
<1>2. over \subseteq ms
  <2>1. \A p \in over : p \in Siblings(p) BY SiblingsAreBeside DEF IsTop
  <2> QED BY <2>1
<1>3. <<>> \in ms BY DEF IsTop
<1>4. ns \cup over \subseteq ms BY <1>2
<1> QED BY <1>1, <1>2, <1>3, <1>4 DEF IsTop

\* What is above a path is a part of the tree with the root.
LEMMA AboveIsTop == ASSUME NEW p \in Path, p # <<>> PROVE IsTop(Above(p))
<1>1. Above(p) \subseteq NodePath
  <2> SUFFICES ASSUME NEW q \in Above(p) PROVE q \in NodePath OBVIOUS
  <2>1. PICK n \in 0..(Len(p) - 1) : q = SubSeq(p, 1, n) BY DEF Above
  <2>2. Len(p) \in 0..Height BY PathIsSeq
  <2>3. n \in 0..Len(p) /\ n < Height BY <2>1, <2>2
  <2>4. q \in Path /\ Len(q) = n BY <2>1, <2>3, Prefix
  <2> QED BY <2>3, <2>4, LeafIsLong
<1>2. <<>> \in Above(p)
  <2>1. Len(p) \in 0..Height /\ Len(p) # 0 BY PathIsSeq, RootPath
  <2>2. Len(<<>>) < Len(p) BY <2>1, RootPath
  <2>3. \A j \in 1..Len(<<>>) : FALSE BY RootPath
  <2> QED BY <2>2, <2>3, RootPath, AboveAgrees
<1>3. ASSUME NEW q \in Above(p) \ {<<>>} PROVE Front(q) \in Above(p)
  <2>1. q \in Path /\ Len(q) < Len(p) /\ \A j \in 1..Len(q) : q[j] = p[j]
    BY <1>1, LeafIsLong, AboveAgrees
  <2>2. /\ Front(q) \in Path /\ Len(q) = Len(Front(q)) + 1 /\ Len(Front(q)) \in Nat
        /\ Len(p) \in Nat
    BY <2>1, FrontPath, LeafIsLong, PathIsSeq
  <2>3. \A j \in 1..Len(Front(q)) : Front(q)[j] = q[j]
    <3>1. Len(Front(q)) \in 0..Len(q) /\ Front(q) = SubSeq(q, 1, Len(Front(q)))
      BY <2>2 DEF Front
    <3> QED BY <2>1, <3>1, Prefix
  <2>4. Len(Front(q)) < Len(p) BY <2>1, <2>2
  <2>5. \A j \in 1..Len(Front(q)) : Front(q)[j] = p[j] BY <2>1, <2>2, <2>3
  <2> QED BY <2>2, <2>4, <2>5, AboveAgrees
<1> QED BY <1>1, <1>2, <1>3, TopByFront

\* A node is worth keeping if it has details, or one of its children is kept.
Keeps(d, kept, p) ==
  \E q \in Siblings(p) : ~((\A i \in {0, 1} : Child(q, i) \notin kept) /\ d[q] = 0)

\* The nodes that a pruning keeps, for each height.
KeptUpTo(d) ==
  LET kept[h \in 0..Height] ==
        IF h = 0 THEN {}
        ELSE kept[h - 1] \cup {p \in nodes : Len(p) = Height - h /\ Keeps(d, kept[h - 1], p)}
  IN  kept

\* The recursion over the heights defines what is kept for each.
LEMMA KeptDefined ==
  ASSUME NEW d
  PROVE  /\ KeptUpTo(d)[0] = {}
         /\ \A h \in 1..Height : KeptUpTo(d)[h] = KeptUpTo(d)[h - 1] \cup
              {p \in nodes : Len(p) = Height - h /\ Keeps(d, KeptUpTo(d)[h - 1], p)}
<1> DEFINE G(k, h) == IF h = 0 THEN {}
                      ELSE k[h - 1] \cup {p \in nodes : Len(p) = Height - h /\ Keeps(d, k[h - 1], p)}
           T == {n \in Nat : \E k \in [0..n -> SUBSET nodes] : \A h \in 0..n : k[h] = G(k, h)}
<1>1. 0 \in T
  <2>1. [h \in 0..0 |-> {}] \in [0..0 -> SUBSET nodes] OBVIOUS
  <2>2. \A h \in 0..0 : [g \in 0..0 |-> {}][h] = G([g \in 0..0 |-> {}], h) OBVIOUS
  <2> QED BY <2>1, <2>2
<1>2. ASSUME NEW n \in Nat, n \in T PROVE n + 1 \in T
  <2>1. PICK k \in [0..n -> SUBSET nodes] : \A h \in 0..n : k[h] = G(k, h) BY <1>2
  <2> DEFINE w == [h \in 0..(n + 1) |-> IF h \in 0..n THEN k[h] ELSE G(k, h)]
  <2>2. \A h \in 0..(n + 1) : h # 0 => h - 1 \in 0..n /\ h - 1 \in 0..(n + 1) OBVIOUS
  <2>3. \A h \in 0..(n + 1) : h # 0 => w[h - 1] = k[h - 1] BY <2>2
  <2>4. \A h \in 0..(n + 1) : G(w, h) = G(k, h) /\ G(k, h) \subseteq nodes
    <3> SUFFICES ASSUME NEW h \in 0..(n + 1) PROVE G(w, h) = G(k, h) /\ G(k, h) \subseteq nodes
      OBVIOUS
    <3>1. CASE h = 0 BY <3>1
    <3>2. CASE h # 0
      <4>1. w[h - 1] = k[h - 1] /\ k[h - 1] \subseteq nodes BY <2>2, <2>3, <3>2
      <4> HIDE DEF w
      <4> QED BY <3>2, <4>1
    <3> QED BY <3>1, <3>2
  <2>5. w \in [0..(n + 1) -> SUBSET nodes]
    <3>1. ASSUME NEW h \in 0..(n + 1)
          PROVE  (IF h \in 0..n THEN k[h] ELSE G(k, h)) \in SUBSET nodes
      BY <2>4
    <3> HIDE DEF G
    <3> QED BY <3>1
  <2>6. \A h \in 0..(n + 1) : w[h] = G(w, h)
    <3> SUFFICES ASSUME NEW h \in 0..(n + 1) PROVE w[h] = G(k, h) BY <2>4
    <3> HIDE DEF G
    <3> QED BY <2>1
  <2> HIDE DEF w, G
  <2>7. n + 1 \in Nat /\ \E x \in [0..(n + 1) -> SUBSET nodes] : \A h \in 0..(n + 1) : x[h] = G(x, h)
    BY <2>5, <2>6
  <2> QED BY <2>7
<1>3. Height \in T
  <2> HIDE DEF T
  <2> QED BY <1>1, <1>2, NatInductionSet
<1>4. PICK k \in [0..Height -> SUBSET nodes] : \A h \in 0..Height : k[h] = G(k, h) BY <1>3
<1>5. k = [h \in 0..Height |-> G(k, h)]
  <2> HIDE DEF G
  <2> QED BY <1>4
<1>6. KeptUpTo(d) = [h \in 0..Height |-> G(KeptUpTo(d), h)] BY <1>5 DEF KeptUpTo
<1> DEFINE u == KeptUpTo(d)
<1>7. u = [h \in 0..Height |-> G(u, h)] BY <1>6
<1> HIDE DEF u
<1>8. \A h \in 0..Height : u[h] = G(u, h)
  <2> HIDE DEF G
  <2> QED BY <1>7
<1>9. u[0] = {}
  <2>1. 0 \in 0..Height /\ G(u, 0) = {} OBVIOUS
  <2> HIDE DEF G
  <2> QED BY <1>8, <2>1
<1>10. \A h \in 1..Height : u[h] = u[h - 1] \cup
         {p \in nodes : Len(p) = Height - h /\ Keeps(d, u[h - 1], p)}
  <2> SUFFICES ASSUME NEW h \in 1..Height
               PROVE  u[h] = u[h - 1] \cup
                        {p \in nodes : Len(p) = Height - h /\ Keeps(d, u[h - 1], p)}
    OBVIOUS
  <2>1. h \in 0..Height /\ h # 0 OBVIOUS
  <2>2. u[h] = G(u, h)
    <3> HIDE DEF G
    <3> QED BY <1>8, <2>1
  <2> QED BY <2>1, <2>2
<1> QED BY <1>9, <1>10 DEF u

\* This is what pruning keeps.
LEMMA KeptNodesAre == KeptNodes = KeptUpTo(details')[Height - 1] \cup {<<>>}
BY DEF KeptNodes, KeptUpTo, Keeps, Worthless

\* What a pruning keeps of a tree is a tree again, of the nodes worth keeping.
LEMMA KeptIsTop ==
  ASSUME IsTop(nodes), NEW d, NEW ms, ms = KeptUpTo(d)[Height - 1] \cup {<<>>}
  PROVE  /\ IsTop(ms) /\ ms \subseteq nodes
         /\ \A p \in nodes \ {<<>>} : p \in ms <=> Keeps(d, ms, p)
<1> DEFINE K == KeptUpTo(d)
           W(p) == Keeps(d, K[Height - Len(p) - 1], p)
           S == {h \in Nat : h <= Height =>
                   \A p : p \in K[h] <=> p \in nodes /\ Height - Len(p) <= h /\ W(p)}
<1>1. ASSUME NEW p \in nodes PROVE p \in NodePath /\ p \in Path /\ Len(p) \in 0..(Height - 1)
  <2>1. p \in NodePath BY DEF IsTop
  <2> QED BY <2>1, LeafIsLong, PathIsSeq
<1>2. K[0] = {} /\ \A h \in 1..Height : K[h] = K[h - 1] \cup
        {p \in nodes : Len(p) = Height - h /\ Keeps(d, K[h - 1], p)}
  BY KeptDefined
<1> HIDE DEF K
<1>3. 0 \in S
  <2> HIDE DEF W
  <2>1. \A p \in nodes : ~(Height - Len(p) <= 0) BY <1>1
  <2> QED BY <1>2, <2>1
<1>4. ASSUME NEW h \in Nat, h \in S PROVE h + 1 \in S
  <2> SUFFICES ASSUME h + 1 <= Height, NEW p
               PROVE  p \in K[h + 1] <=> p \in nodes /\ Height - Len(p) <= h + 1 /\ W(p)
    OBVIOUS
  <2>1. h + 1 \in 1..Height /\ (h + 1) - 1 = h /\ h <= Height OBVIOUS
  <2>2. p \in K[h + 1] <=> p \in K[h] \/ (p \in nodes /\ Len(p) = Height - (h + 1) /\ Keeps(d, K[h], p))
    BY <1>2, <2>1
  <2>3. p \in K[h] <=> p \in nodes /\ Height - Len(p) <= h /\ W(p) BY <1>4, <2>1
  <2>4. ASSUME p \in nodes, Len(p) = Height - (h + 1) PROVE Keeps(d, K[h], p) <=> W(p)
    <3>1. Height - Len(p) - 1 = h BY <1>1, <2>4
    <3> QED BY <3>1
  <2> HIDE DEF W
  <2>5. ASSUME p \in nodes
        PROVE  Height - Len(p) <= h + 1 <=> Height - Len(p) <= h \/ Len(p) = Height - (h + 1)
    BY <1>1, <2>5
  <2> QED BY <2>2, <2>3, <2>4, <2>5
<1> HIDE DEF S
<1>5. Height - 1 \in S /\ \A h \in 0..Height : h \in S
  <2>1. Nat \subseteq S BY <1>3, <1>4, NatInductionSet
  <2>2. Height - 1 \in Nat OBVIOUS
  <2> QED BY <2>1, <2>2
<1> USE DEF S
<1>6. ASSUME NEW p \in nodes \ {<<>>} PROVE p \in ms <=> W(p)
  <2>1. Len(p) # 0 /\ Len(p) \in 0..(Height - 1) BY <1>1, RootPath
  <2>2. Height - Len(p) <= Height - 1 BY <2>1
  <2>3. p \in K[Height - 1] <=> W(p)
    <3> HIDE DEF W
    <3>1. Height - 1 <= Height OBVIOUS
    <3> QED BY <1>5, <2>2, <3>1
  <2> QED BY <2>3 DEF K
<1>7. ms \subseteq nodes
  <2>1. Height - 1 <= Height OBVIOUS
  <2>2. \A p \in K[Height - 1] : p \in nodes
    <3> HIDE DEF W
    <3> QED BY <1>5, <2>1
  <2> QED BY <2>2 DEF K, IsTop
<1>8. ASSUME NEW p \in nodes \ {<<>>} PROVE p \in ms <=> Keeps(d, ms, p)
  <2>1. PICK h \in 0..(Height - 1) : h = Height - Len(p) - 1 /\ Len(p) = Height - h - 1
    <3>1. Len(p) \in 0..(Height - 1) BY <1>1
    <3>2. Height - Len(p) - 1 \in 0..(Height - 1) BY <3>1
    <3>3. Len(p) = Height - (Height - Len(p) - 1) - 1 BY <3>1
    <3> QED BY <3>2, <3>3
  <2>2. ASSUME NEW q \in Siblings(p), NEW i \in {0, 1}
        PROVE  Child(q, i) \in K[h] <=> Child(q, i) \in ms
    <3>1. q \in NodePath /\ Len(q) = Len(p) BY <1>1, SiblingsAreBeside
    <3>2. Child(q, i) # <<>> /\ Len(Child(q, i)) = Len(p) + 1 BY <3>1, ChildPath
    <3>3. PICK c : c = Child(q, i) OBVIOUS
    <3>4. c \in K[h] <=> c \in nodes /\ Height - Len(c) <= h /\ W(c)
      <4>1. h \in S /\ h <= Height BY <1>5
      <4> HIDE DEF W
      <4> QED BY <4>1
    <3>5. c \in nodes => Height - Len(c) <= h
      <4>1. Len(c) = Len(p) + 1 /\ Len(p) \in Nat BY <1>1, <3>2, <3>3
      <4> QED BY <2>1, <4>1
    <3>6. c \in ms <=> c \in nodes /\ W(c)
      <4> HIDE DEF W
      <4> QED BY <1>6, <1>7, <3>2, <3>3
    <3> QED BY <3>3, <3>4, <3>5, <3>6
  <2>3. W(p) <=> Keeps(d, K[h], p) BY <2>1
  <2>4. Keeps(d, K[h], p) <=> Keeps(d, ms, p) BY <2>2 DEF Keeps
  <2> QED BY <1>6, <2>3, <2>4
<1>9. ASSUME NEW p \in ms \ {<<>>} PROVE Front(p) \in ms
  <2>1. p \in nodes /\ p \in NodePath /\ p \in Path BY <1>1, <1>7
  <2>2. Front(p) \in nodes /\ Front(p) \in NodePath /\ Last(p) \in {0, 1} /\ Child(Front(p), Last(p)) = p
    BY <2>1, TopHasFront, FrontPath
  <2>3. CASE Front(p) = <<>> BY <2>3
  <2>4. CASE Front(p) # <<>>
    <3>1. Front(p) \in Siblings(Front(p)) BY <2>2, SiblingsAreBeside
    <3>2. Keeps(d, ms, Front(p)) BY <2>2, <3>1 DEF Keeps
    <3> QED BY <1>8, <2>2, <2>4, <3>2
  <2> QED BY <2>3, <2>4
<1>10. <<>> \in ms /\ ms \subseteq NodePath BY <1>1, <1>7
<1>11. IsTop(ms)
  <2> HIDE DEF K, W, S
  <2> QED BY <1>9, <1>10, TopByFront
<1> QED BY <1>7, <1>8, <1>11

-----------------------------------------------------------------------------
(* The steps of a block: its coefficients and nodes                        *)

\* The block's values are those of its coefficients,
LEMMA ValueIs == Value = ValueOf(root_scale, details)
BY DEF Value, ValueOf

\* before and after a step.
LEMMA NewValueIs == Value' = ValueOf(root_scale', details')
BY DEF Value, ValueOf

\* Limited values are in their range, and are unchanged or one of its ends.
LEMMA LimitIs ==
  ASSUME NEW v \in Int
  PROVE  /\ Clamp(v) \in Int /\ ClampPadded(v) \in Int
         /\ Clamp(v) \in MinLogOdds..MaxLogOdds
         /\ ClampPadded(v) \in (MinLogOdds - Noise)..(MaxLogOdds + Noise)
         /\ Clamp(v) \in {v, MinLogOdds, MaxLogOdds}
         /\ ClampPadded(v) \in {v, MinLogOdds - Noise, MaxLogOdds + Noise}
<1>1. ASSUME NEW lo \in Int, NEW hi \in Int, lo <= hi
      PROVE  Limit(v, lo, hi) \in Int /\ Limit(v, lo, hi) \in lo..hi /\ Limit(v, lo, hi) \in {v, lo, hi}
  <2>1. CASE v < lo BY <1>1, <2>1 DEF Limit
  <2>2. CASE ~(v < lo) /\ hi < v BY <1>1, <2>2 DEF Limit
  <2>3. CASE ~(v < lo) /\ ~(hi < v) BY <1>1, <2>3 DEF Limit
  <2> QED BY <2>1, <2>2, <2>3
<1>2. /\ MinLogOdds \in Int /\ MaxLogOdds \in Int /\ MinLogOdds <= MaxLogOdds
      /\ MinLogOdds - Noise \in Int /\ MaxLogOdds + Noise \in Int
      /\ MinLogOdds - Noise <= MaxLogOdds + Noise
  OBVIOUS
<1> QED BY <1>1, <1>2 DEF Clamp, ClampPadded

\* The shares of an increment are integers.
LEMMA ShareIsInt ==
  ASSUME NEW p \in Path, NEW v \in Int, NEW q \in Above(p)
  PROVE  ScaleShare(p, v, q) \in Int /\ DetailShare(p, v, q) \in Int
<1>1. PICK m \in 0..(Len(p) - 1) : q = SubSeq(p, 1, m) BY DEF Above
<1>2. Len(p) \in 0..Height BY PathIsSeq
<1>3. m \in 0..Len(p) /\ m + 1 \in 0..Len(p) BY <1>1, <1>2
<1>4. Len(q) = m /\ Len(SubSeq(p, 1, m + 1)) = m + 1 BY <1>1, <1>3, Prefix
<1>5. ASSUME NEW k \in 0..Height PROVE v \div 2^k \in Int
  <2>1. PICK a \in Nat \ {0} : a = 2^k BY PowerFacts
  <2>2. v \div a \in Int OBVIOUS
  <2> QED BY <2>1, <2>2
<1>6. Len(p) - m \in 0..Height /\ Len(p) - (m + 1) \in 0..Height BY <1>2, <1>3
<1>7. ScaleShare(p, v, q) \in Int /\ ScaleShare(p, v, SubSeq(p, 1, m + 1)) \in Int
  BY <1>4, <1>5, <1>6 DEF ScaleShare
<1>8. PICK x \in Int : x = ScaleShare(p, v, SubSeq(p, 1, m + 1)) BY <1>7
<1>9. DetailShare(p, v, q) \in {x, -x} BY <1>4, <1>8 DEF DetailShare
<1> QED BY <1>7, <1>9


\* Compressing replaces the details of the given nodes, by integers.
LEMMA CompressIsTyped ==
  ASSUME details \in [NodePath -> Int], NEW over, over \subseteq NodePath,
         NEW base \in [Path -> Int], Compress(over, Lifted(over, base))
  PROVE  /\ root_scale' \in Int /\ details' \in [NodePath -> Int]
         /\ \A p \in NodePath \ over : details'[p] = details[p]
<1> DEFINE up == Lifted(over, base)
<1>1. up \in [Path -> Int] BY LiftedDefined
<1>2. /\ root_scale' = up[<<>>]
      /\ details' = [p \in NodePath |-> IF p \in over THEN ForwardDetail(up[Child(p, 0)], up[Child(p, 1)])
                                        ELSE details[p]]
  BY DEF Compress
<1> HIDE DEF up
<1>3. ASSUME NEW p \in NodePath
      PROVE  (IF p \in over THEN ForwardDetail(up[Child(p, 0)], up[Child(p, 1)]) ELSE details[p]) \in Int
  <2>1. up[Child(p, 0)] \in Int /\ up[Child(p, 1)] \in Int BY <1>1, ChildPath
  <2>2. ForwardDetail(up[Child(p, 0)], up[Child(p, 1)]) \in Int BY <2>1, ForwardIsInt
  <2> QED BY <2>2
<1> QED BY <1>1, <1>2, <1>3, RootPath

\* The values from which updateBlock lifts those of the refined nodes.
UpdatedTo(stopped, sample) ==
  [p \in Path |->
     IF p \in stopped THEN StoppedValue(p, Value[p] + sample[p])
     ELSE IF p \in DOMAIN sample THEN ClampPadded(Value[p] + sample[p])
     ELSE Value[p]]

\* Which values a thresholding lifts.
ClampedTo == [p \in Path |-> Clamp(Value[p])]

\* What an update picks, and what it does with it.
Updates(refined, stopped, sample) ==
  /\ refined \in Refinable
  /\ stopped \in SUBSET (Frontier(refined) \cap Visible \cap NodePath)
  /\ sample \in [stopped \cup (Frontier(refined) \cap Leaf) -> Sample]
  /\ Compress(refined, Lifted(refined, UpdatedTo(stopped, sample)))
  /\ Allocate(refined)
  /\ needs_thresholding' = (needs_thresholding \/ \E p \in stopped : StopFlags(p))

\* An update makes its picks, and asks for pruning.
LEMMA UpdateUnfolds ==
  ASSUME UpdateBlock
  PROVE  needs_pruning' = TRUE /\ \E refined, stopped, sample : Updates(refined, stopped, sample)
<1>1. PICK refined \in Refinable :
        \E stopped \in SUBSET (Frontier(refined) \cap Visible \cap NodePath) :
          \E sample \in [stopped \cup (Frontier(refined) \cap Leaf) -> Sample] :
            /\ Compress(refined, Lifted(refined, UpdatedTo(stopped, sample)))
            /\ Allocate(refined)
            /\ needs_thresholding' = (needs_thresholding \/ \E p \in stopped : StopFlags(p))
            /\ needs_pruning' = TRUE
  BY DEF UpdateBlock, UpdatedTo
<1> QED BY <1>1 DEF Updates

\* What is refined is a part of the tree with the root, and gets integers.
LEMMA UpdateIsTyped ==
  ASSUME TypeOK, NEW refined, NEW stopped, NEW sample,
         refined \in Refinable,
         stopped \in SUBSET (Frontier(refined) \cap Visible \cap NodePath),
         sample \in [stopped \cup (Frontier(refined) \cap Leaf) -> Sample]
  PROVE  IsTop(refined) /\ UpdatedTo(stopped, sample) \in [Path -> Int]
<1>1. IsTop(refined) BY RootPath DEF Refinable, IsTop
<1>2. Value \in [Path -> Int] BY ValueIs, ValueDefined DEF TypeOK
<1>3. ASSUME NEW p \in Path PROVE UpdatedTo(stopped, sample)[p] \in Int
  <2>1. Value[p] \in Int BY <1>2
  <2>2. CASE p \in DOMAIN sample
    <3>1. sample[p] \in Int BY <2>2
    <3>2. PICK x \in Int : x = Value[p] + sample[p] BY <2>1, <3>1
    <3>3. ClampPadded(x) \in Int BY LimitIs
    <3>4. StoppedValue(p, x) \in Int BY <3>3 DEF StoppedValue
    <3> QED BY <2>2, <3>2, <3>3, <3>4 DEF UpdatedTo
  <2>3. CASE p \notin DOMAIN sample
    <3>1. p \notin stopped BY <2>3
    <3> QED BY <2>1, <2>3, <3>1 DEF UpdatedTo
  <2> QED BY <2>2, <2>3
<1>4. UpdatedTo(stopped, sample) = [p \in Path |-> UpdatedTo(stopped, sample)[p]] BY DEF UpdatedTo
<1> HIDE DEF UpdatedTo
<1> QED BY <1>1, <1>3, <1>4

\* A block's nodes form a tree, outside of which there are no details.
LEMMA TypeIs ==
  TypeOK <=> /\ root_scale \in Int /\ details \in [NodePath -> Int]
             /\ IsTop(nodes) /\ \A p \in NodePath \ nodes : details[p] = 0
             /\ needs_thresholding \in BOOLEAN /\ needs_pruning \in BOOLEAN
BY DEF TypeOK, IsTop

\* The same after a step.
LEMMA NewTypeIs ==
  TypeOK' <=> /\ root_scale' \in Int /\ details' \in [NodePath -> Int]
              /\ IsTop(nodes') /\ \A p \in NodePath \ nodes' : details'[p] = 0
              /\ needs_thresholding' \in BOOLEAN /\ needs_pruning' \in BOOLEAN
BY DEF TypeOK, IsTop

\* Thresholding gives details to allocated nodes only.
LEMMA ThresholdIsTyped ==
  ASSUME TypeOK, ThresholdValues
  PROVE  /\ root_scale' \in Int /\ details' \in [NodePath -> Int]
         /\ \A p \in NodePath \ nodes : details'[p] = 0
<1>1. CASE ~needs_thresholding BY <1>1 DEF ThresholdValues, TypeOK
<1>2. CASE needs_thresholding
  <2>1. Compress(nodes, Lifted(nodes, ClampedTo))
    BY <1>2 DEF ThresholdValues, Clamped, ClampedTo
  <2>2. ClampedTo \in [Path -> Int]
    <3>1. Value \in [Path -> Int] BY ValueIs, ValueDefined DEF TypeOK
    <3>2. \A p \in Path : Clamp(Value[p]) \in Int BY <3>1, LimitIs
    <3> QED BY <3>2 DEF ClampedTo
  <2>3. /\ details \in [NodePath -> Int] /\ nodes \subseteq NodePath
        /\ \A p \in NodePath \ nodes : details[p] = 0
    BY DEF TypeOK
  <2> QED BY <2>1, <2>2, <2>3, CompressIsTyped
<1> QED BY <1>1, <1>2

\* What is added to cells are multiples of 2^Height.
LEMMA AddedAmounts ==
  /\ \A p \in AddPath, update \in Sample :
       p \in Path \ {<<>>} /\ update \in Int /\ update % (2^Height) = 0
  /\ TypeOK => \A p \in SetPath, v \in SetValue :
       /\ p \in Path \ {<<>>} /\ v - Value[Front(p)] \in Int
       /\ SetCellValue(p, v) => \E x \in Int : x % (2^Height) = 0 /\ Increment(p, x)
<1>1. \A p \in AddPath, update \in Sample :
        p \in Path \ {<<>>} /\ update \in Int /\ update % (2^Height) = 0
  OBVIOUS
<1>2. ASSUME TypeOK, NEW p \in SetPath, NEW v \in SetValue
      PROVE  /\ p \in Path \ {<<>>} /\ v - Value[Front(p)] \in Int
             /\ SetCellValue(p, v) => \E x \in Int : x % (2^Height) = 0 /\ Increment(p, x)
  <2>1. p \in Path \ {<<>>} /\ v \in Int OBVIOUS
  <2>2. Front(p) \in Path BY <2>1, FrontPath, LeafIsLong
  <2>3. Value[Front(p)] \in Int BY <1>2, <2>2, ValueIs, ValueDefined DEF TypeOK
  <2>4. v - Value[Front(p)] \in Int BY <2>1, <2>3
  <2> QED BY <2>1, <2>4 DEF SetCellValue
<1> QED BY <1>1, <1>2

\* The inductive step of the type invariant, for increments,
LEMMA IncrementIsTyped ==
  ASSUME TypeOK, NEW p \in Path \ {<<>>}, NEW v \in Int, Increment(p, v) PROVE TypeOK'
<1>1. IsTop(Above(p)) BY AboveIsTop
<1>2. root_scale' \in Int
  <2>1. <<>> \in Above(p) BY <1>1 DEF IsTop
  <2>2. PICK x \in Int : x = ScaleShare(p, v, <<>>) BY <2>1, ShareIsInt
  <2>3. root_scale' = root_scale + x /\ root_scale \in Int BY <2>2 DEF Increment, TypeOK
  <2> QED BY <2>2, <2>3
<1>3. details' = [q \in NodePath |-> IF q \in Above(p) THEN details[q] + DetailShare(p, v, q)
                                     ELSE details[q]]
  BY DEF Increment
<1>4. ASSUME NEW q \in NodePath
      PROVE  (IF q \in Above(p) THEN details[q] + DetailShare(p, v, q) ELSE details[q]) \in Int
  <2>1. details[q] \in Int BY DEF TypeOK
  <2>2. CASE q \in Above(p)
    <3>1. PICK x \in Int : x = DetailShare(p, v, q) BY <2>2, ShareIsInt
    <3>2. details[q] + x \in Int BY <2>1
    <3> QED BY <2>2, <3>1, <3>2
  <2>3. CASE q \notin Above(p) BY <2>1, <2>3
  <2> QED BY <2>2, <2>3
<1>5. details' \in [NodePath -> Int] BY <1>3, <1>4
<1>6. IsTop(nodes') /\ Above(p) \subseteq nodes'
  <2>1. nodes' = nodes \cup UNION {Siblings(q) : q \in Above(p)} BY DEF Increment, Allocate
  <2>2. IsTop(nodes) BY TypeIs
  <2> QED BY <1>1, <2>1, <2>2, AllocatedIsTop
<1>7. nodes \subseteq nodes' BY DEF Increment, Allocate
<1>8. \A q \in NodePath \ nodes' : details'[q] = 0
  <2>1. \A q \in NodePath \ nodes' : q \notin nodes /\ q \notin Above(p) BY <1>6, <1>7
  <2> QED BY <1>3, <2>1 DEF TypeOK
<1>9. needs_thresholding' \in BOOLEAN /\ needs_pruning' \in BOOLEAN BY DEF Increment
<1> QED BY <1>2, <1>5, <1>6, <1>8, <1>9, NewTypeIs

\* The root alone is a tree.
LEMMA RootIsTop == IsTop({<<>>})
BY RootPath, AboveRoot DEF IsTop

\* The type invariant holds initially.
LEMMA TypeInit == ASSUME Init PROVE TypeOK
<1>1. details = [p \in NodePath |-> 0] /\ nodes = {<<>>} /\ root_scale = 0 BY DEF Init
<1>2. needs_thresholding \in BOOLEAN /\ needs_pruning \in BOOLEAN BY DEF Init
<1> QED BY <1>1, <1>2, RootIsTop, TypeIs

\* for updates,
LEMMA UpdateKeepsType == ASSUME TypeOK, UpdateBlock PROVE TypeOK'
<1>1. PICK refined, stopped, sample : Updates(refined, stopped, sample) BY UpdateUnfolds
<1>2. IsTop(refined) /\ UpdatedTo(stopped, sample) \in [Path -> Int]
  BY <1>1, UpdateIsTyped DEF Updates
<1>3. Compress(refined, Lifted(refined, UpdatedTo(stopped, sample))) BY <1>1 DEF Updates
<1>4. details \in [NodePath -> Int] /\ refined \subseteq NodePath BY <1>2 DEF TypeOK, IsTop
<1>5. /\ root_scale' \in Int /\ details' \in [NodePath -> Int]
      /\ \A p \in NodePath \ refined : details'[p] = details[p]
  BY <1>2, <1>3, <1>4, CompressIsTyped
<1>6. IsTop(nodes') /\ refined \subseteq nodes' /\ nodes \subseteq nodes'
  <2>1. nodes' = nodes \cup UNION {Siblings(p) : p \in refined} BY <1>1 DEF Updates, Allocate
  <2>2. IsTop(nodes) BY TypeIs
  <2> QED BY <1>2, <2>1, <2>2, AllocatedIsTop
<1>7. \A p \in NodePath \ nodes' : details'[p] = 0
  <2>1. \A p \in NodePath \ nodes' : p \notin nodes /\ p \notin refined BY <1>6
  <2> QED BY <1>5, <2>1 DEF TypeOK
<1>8. needs_thresholding' \in BOOLEAN
  <2>1. needs_thresholding' = (needs_thresholding \/ \E p \in stopped : StopFlags(p))
    BY <1>1 DEF Updates
  <2> QED BY <2>1
<1>9. needs_pruning' \in BOOLEAN BY UpdateUnfolds
<1> QED BY <1>5, <1>6, <1>7, <1>8, <1>9, NewTypeIs

\* and for prunings, which leave only nodes that are worth keeping.
LEMMA PruneKeepsType ==
  ASSUME TypeOK, Prune
  PROVE  /\ TypeOK' /\ nodes' \subseteq nodes
         /\ \A p \in nodes' \ {<<>>} : \E q \in Siblings(p) : HasChildren(q)' \/ details'[q] # 0
<1>1. /\ root_scale' \in Int /\ details' \in [NodePath -> Int]
      /\ \A p \in NodePath \ nodes : details'[p] = 0
  BY ThresholdIsTyped DEF Prune
<1>2. nodes' = KeptUpTo(details')[Height - 1] \cup {<<>>} BY KeptNodesAre DEF Prune
<1>3. PICK d, ms : d = details' /\ ms = nodes' OBVIOUS
<1>4. IsTop(nodes) BY TypeIs
<1>5. /\ IsTop(ms) /\ ms \subseteq nodes
      /\ \A p \in nodes \ {<<>>} : p \in ms <=> Keeps(d, ms, p)
  BY <1>2, <1>3, <1>4, KeptIsTop
<1>6. \A p \in NodePath \ nodes' : details'[p] = 0
  <2> SUFFICES ASSUME NEW p \in NodePath \ nodes', p \in nodes PROVE d[p] = 0 BY <1>1, <1>3
  <2>1. p # <<>> BY <1>3, <1>5 DEF IsTop
  <2>2. ~Keeps(d, ms, p) BY <1>3, <1>5, <2>1
  <2>3. p \in Siblings(p) BY SiblingsAreBeside
  <2> QED BY <2>2, <2>3 DEF Keeps
<1>7. needs_thresholding' \in BOOLEAN /\ needs_pruning' \in BOOLEAN BY DEF Prune
<1>8. TypeOK' BY <1>1, <1>3, <1>5, <1>6, <1>7, NewTypeIs
<1>9. ASSUME NEW p \in nodes' \ {<<>>}
      PROVE  \E q \in Siblings(p) : HasChildren(q)' \/ details'[q] # 0
  <2>1. Keeps(d, ms, p) BY <1>3, <1>5
  <2>2. PICK q \in Siblings(p) : ~((\A i \in {0, 1} : Child(q, i) \notin ms) /\ d[q] = 0)
    BY <2>1 DEF Keeps
  <2>3. HasChildren(q)' <=> \E i \in {0, 1} : Child(q, i) \in nodes' BY DEF HasChildren, Child
  <2> QED BY <1>3, <2>2, <2>3
<1> QED BY <1>3, <1>5, <1>8, <1>9

\* The inductive step of the type invariant, one case per operation.
LEMMA TypeStep == ASSUME TypeOK, [Next]_vars PROVE TypeOK'
<1>1. CASE UpdateBlock BY <1>1, UpdateKeepsType
<1>2. CASE \E p \in AddPath, update \in Sample : AddToCellValue(p, update)
  BY <1>2, AddedAmounts, IncrementIsTyped DEF AddToCellValue
<1>3. CASE \E p \in SetPath, v \in SetValue : SetCellValue(p, v)
  BY <1>3, AddedAmounts, IncrementIsTyped
<1>4. CASE Threshold
  <2>1. /\ root_scale' \in Int /\ details' \in [NodePath -> Int]
        /\ \A p \in NodePath \ nodes : details'[p] = 0
    BY <1>4, ThresholdIsTyped DEF Threshold
  <2>2. nodes' = nodes /\ needs_thresholding' \in BOOLEAN /\ needs_pruning' \in BOOLEAN
    BY <1>4 DEF Threshold, TypeOK
  <2>3. IsTop(nodes') BY <2>2, TypeIs
  <2> QED BY <2>1, <2>2, <2>3, NewTypeIs
<1>5. CASE Prune BY <1>5, PruneKeepsType
<1>6. CASE Clear
  <2>1. details' = [p \in NodePath |-> 0] /\ nodes' = {<<>>} /\ root_scale' = 0
    BY <1>6 DEF Clear
  <2>2. needs_thresholding' \in BOOLEAN /\ needs_pruning' \in BOOLEAN BY <1>6 DEF Clear, TypeOK
  <2>3. IsTop(nodes') BY <2>1, RootIsTop
  <2> QED BY <2>1, <2>2, <2>3, NewTypeIs
<1>7. CASE UNCHANGED vars BY <1>7 DEF vars, TypeOK
<1> QED BY <1>1, <1>2, <1>3, <1>4, <1>5, <1>6, <1>7 DEF Next

\* A block is always well typed: its nodes form a tree with the root, and only they
\* have details, whatever integrators, users and prunings have done.
THEOREM BlockTypeCorrect == Spec => []TypeOK
<1>1. Init => TypeOK BY TypeInit
<1>2. TypeOK /\ [Next]_vars => TypeOK' BY TypeStep
<1> QED BY <1>1, <1>2, PTL DEF Spec

-----------------------------------------------------------------------------
(* A block that needs no pruning has nothing to prune                      *)

\* The inductive step: only a pruning takes the flag down, and only an update
\* or an increment puts it up; nothing else allocates nodes.
LEMMA PruningFlagStep == ASSUME TypeOK, FlagsKeepPruning, [Next]_vars PROVE FlagsKeepPruning'
<1>0. ASSUME needs_pruning' = TRUE PROVE FlagsKeepPruning' BY <1>0 DEF FlagsKeepPruning
<1>1. CASE UpdateBlock BY <1>0, <1>1, UpdateUnfolds
<1>2. CASE \E p \in AddPath, update \in Sample : AddToCellValue(p, update)
  <2>1. needs_pruning' = TRUE BY <1>2 DEF AddToCellValue, Increment
  <2> QED BY <1>0, <2>1
<1>3. CASE \E p \in SetPath, v \in SetValue : SetCellValue(p, v)
  <2>1. needs_pruning' = TRUE BY <1>3 DEF SetCellValue, Increment
  <2> QED BY <1>0, <2>1
<1>4. CASE Threshold
  <2> SUFFICES ASSUME ~needs_pruning PROVE FlagsKeepPruning'
    BY <1>4 DEF Threshold, FlagsKeepPruning
  <2>1. ~needs_thresholding BY DEF FlagsKeepPruning
  <2>2. details' = details /\ nodes' = nodes /\ ~needs_thresholding' /\ needs_pruning' = needs_pruning
    BY <1>4, <2>1 DEF Threshold, ThresholdValues
  <2> QED BY <2>1, <2>2 DEF FlagsKeepPruning, HasChildren
<1>5. CASE Prune
  <2>1. ~needs_thresholding' BY <1>5 DEF Prune
  <2>2. \A p \in nodes' \ {<<>>} : \E q \in Siblings(p) : HasChildren(q)' \/ details'[q] # 0
    BY <1>5, PruneKeepsType
  <2> QED BY <2>1, <2>2 DEF FlagsKeepPruning, HasChildren
<1>6. CASE Clear
  <2>1. nodes' \ {<<>>} = {} BY <1>6 DEF Clear
  <2>2. needs_thresholding' = needs_thresholding /\ needs_pruning' = needs_pruning
    BY <1>6 DEF Clear
  <2> QED BY <2>1, <2>2 DEF FlagsKeepPruning
<1>7. CASE UNCHANGED vars BY <1>7 DEF vars, FlagsKeepPruning, HasChildren
<1> QED BY <1>1, <1>2, <1>3, <1>4, <1>5, <1>6, <1>7 DEF Next

\* A block whose needs_pruning flag is down, so that prune() returns at once, has
\* no node that prune() would erase and nothing left to threshold.
THEOREM PruningIsComplete == Spec => []FlagsKeepPruning
<1>1. Init => TypeOK /\ FlagsKeepPruning
  <2>1. Init => FlagsKeepPruning BY DEF Init, FlagsKeepPruning
  <2> QED BY <2>1, TypeInit
<1>2. TypeOK /\ FlagsKeepPruning /\ [Next]_vars => (TypeOK /\ FlagsKeepPruning)'
  BY TypeStep, PruningFlagStep
<1> QED BY <1>1, <1>2, PTL DEF Spec

-----------------------------------------------------------------------------
(* Cells of a chunked block                                                *)

\* All amounts that cells get are multiples of 2^Height.
LEMMA AmountsAreMultiples ==
  /\ IsMultiple(MinLogOdds, Height) /\ IsMultiple(MaxLogOdds, Height) /\ IsMultiple(Noise, Height)
  /\ \A v \in Sample : IsMultiple(v, Height)
  /\ IsMultiple(MinLogOdds - Noise, Height) /\ IsMultiple(MaxLogOdds + Noise, Height)
  /\ IsMultiple(0, Height)
<1>0. Height \in 0..Height OBVIOUS
<1>1. \A v \in {MinLogOdds, MaxLogOdds, Noise} \cup Sample : v \in Int /\ v % (2^Height) = 0
  OBVIOUS
<1>2. \A v \in {MinLogOdds, MaxLogOdds, Noise} \cup Sample : IsMultiple(v, Height)
  <2> SUFFICES ASSUME NEW v \in {MinLogOdds, MaxLogOdds, Noise} \cup Sample
               PROVE  IsMultiple(v, Height)
    OBVIOUS
  <2> QED BY <1>0, <1>1, MultipleMod
<1> QED BY <1>0, <1>1, <1>2, MultipleSums

\* An update replaces coefficients exactly; what it gives to the frontier.
LEMMA UpdateIsExact ==
  ASSUME Chunked, TypeOK, IsExact(root_scale, details),
         NEW refined, NEW stopped, NEW sample, Updates(refined, stopped, sample)
  PROVE  /\ IsTop(refined) /\ UpdatedTo(stopped, sample) \in [Path -> Int]
         /\ MovesExactly(root_scale, details, refined, UpdatedTo(stopped, sample))
         /\ Replaces(root_scale, details, root_scale', details', refined, UpdatedTo(stopped, sample))
         /\ \A f \in Frontier(refined) :
              \/ f \in stopped /\ UpdatedTo(stopped, sample)[f] = Value[f] + sample[f]
              \/ f \in Leaf /\ UpdatedTo(stopped, sample)[f] = ClampPadded(Value[f] + sample[f])
              \/ f \notin Leaf /\ UpdatedTo(stopped, sample)[f] = Value[f]
<1> DEFINE base == UpdatedTo(stopped, sample)
<1>1. /\ stopped \in SUBSET (Frontier(refined) \cap Visible \cap NodePath)
      /\ sample \in [stopped \cup (Frontier(refined) \cap Leaf) -> Sample]
  BY DEF Updates
<1>2. IsTop(refined) /\ base \in [Path -> Int] BY <1>1, UpdateIsTyped DEF Updates
<1>3. Replaces(root_scale, details, root_scale', details', refined, base)
  BY DEF Updates, Compress, Replaces
<1>4. ASSUME NEW f \in Frontier(refined)
      PROVE  \/ f \in stopped /\ base[f] = Value[f] + sample[f]
             \/ f \in Leaf /\ base[f] = ClampPadded(Value[f] + sample[f]) /\ f \in DOMAIN sample
             \/ f \notin Leaf /\ base[f] = Value[f]
  <2>1. f \in Path BY DEF Frontier
  <2>2. CASE f \in stopped
    <3>1. StoppedValue(f, Value[f] + sample[f]) = Value[f] + sample[f] BY DEF StoppedValue, StopFlags
    <3> QED BY <2>1, <2>2, <3>1 DEF UpdatedTo
  <2>3. CASE f \notin stopped /\ f \in Leaf
    <3>1. f \in DOMAIN sample BY <1>1, <2>3
    <3> QED BY <2>1, <2>3, <3>1 DEF UpdatedTo
  <2>4. CASE f \notin stopped /\ f \notin Leaf
    <3>1. f \notin DOMAIN sample BY <1>1, <2>4
    <3> QED BY <2>1, <2>4, <3>1 DEF UpdatedTo
  <2> QED BY <2>2, <2>3, <2>4
<1>5. ASSUME NEW f \in Frontier(refined)
      PROVE  IsMultiple(base[f] - ValueOf(root_scale, details)[f], Height)
  <2>0. Height \in 0..Height OBVIOUS
  <2>1. PICK o \in Int : o = Value[f] /\ o = ValueOf(root_scale, details)[f]
    <3>1. f \in Path BY DEF Frontier
    <3> QED BY <3>1, ValueIs, ValueDefined DEF TypeOK
  <2> HIDE DEF base
  <2>2. CASE f \in stopped /\ base[f] = Value[f] + sample[f]
    <3>1. PICK x \in Sample : x = sample[f] BY <1>1, <2>2
    <3>2. base[f] = o + x BY <2>1, <2>2, <3>1
    <3>3. (o + x) - o = x BY <2>1, <3>1
    <3>4. IsMultiple((o + x) - o, Height) BY <3>1, <3>3, AmountsAreMultiples
    <3> QED BY <2>1, <3>2, <3>4
  <2>3. CASE f \in Leaf /\ base[f] = ClampPadded(Value[f] + sample[f]) /\ f \in DOMAIN sample
    <3>1. PICK x \in Sample : x = sample[f] BY <1>1, <2>3
    <3>2. IsMultiple(o, Height)
      <4>1. f \in Path /\ Len(f) = Height BY <2>3, LeafIsLong
      <4> QED BY <2>1, <4>1 DEF IsExact
    <3>3. PICK y \in Int : y = o + x /\ IsMultiple(y, Height)
      BY <2>0, <3>2, AmountsAreMultiples, MultipleSums
    <3>4. PICK z : z = ClampPadded(y) OBVIOUS
    <3>5. IsMultiple(z, Height) BY <3>3, <3>4, LimitIs, AmountsAreMultiples
    <3>6. IsMultiple(z - o, Height) BY <2>0, <3>2, <3>5, MultipleSums
    <3>7. base[f] = z BY <2>1, <2>3, <3>1, <3>3, <3>4
    <3> QED BY <2>1, <3>6, <3>7
  <2>4. CASE f \notin Leaf /\ base[f] = Value[f]
    <3>1. o - o = 0 OBVIOUS
    <3> QED BY <2>1, <2>4, <3>1, AmountsAreMultiples
  <2> QED BY <1>4, <2>2, <2>3, <2>4
<1>6. MovesExactly(root_scale, details, refined, base) BY <1>5 DEF MovesExactly
<1> HIDE DEF base
<1> QED BY <1>2, <1>3, <1>4, <1>6 DEF base

\* Where there are no nodes, all levels have the value of the cells.
LEMMA UnallocatedIsExact ==
  ASSUME TypeOK, IsExact(root_scale, details), NEW p \in Path \ nodes
  PROVE  IsMultiple(ValueOf(root_scale, details)[p], Height)
<1> DEFINE old == ValueOf(root_scale, details)
           S == {q \in Path : q \notin nodes => IsMultiple(old[q], Height)}
<1>1. Leaf \subseteq S
  <2>1. \A q \in Leaf : q \in Path /\ Len(q) = Height BY LeafIsLong
  <2> QED BY <2>1 DEF IsExact
<1>2. ASSUME NEW q \in NodePath, Child(q, 0) \in S, Child(q, 1) \in S PROVE q \in S
  <2> SUFFICES ASSUME q \notin nodes PROVE IsMultiple(old[q], Height) BY LeafIsLong
  <2>1. /\ Child(q, 0) \in Path /\ Child(q, 0) # <<>>
        /\ Front(Child(q, 0)) = q /\ Last(Child(q, 0)) = 0
    BY ChildPath
  <2>2. Child(q, 0) \notin nodes
    <3>1. IsTop(nodes) BY TypeIs
    <3> QED BY <2>1, <3>1, TopHasFront
  <2>3. details[q] = 0 BY DEF TypeOK
  <2>4. old[q] \in Int /\ old[Child(q, 0)] = Backward(old[q], details[q], 0)
    BY <2>1, ValueDefined, LeafIsLong DEF TypeOK
  <2>5. old[Child(q, 0)] = old[q] BY <2>3, <2>4, BackwardOfZero
  <2> QED BY <1>2, <2>2, <2>5
<1> HIDE DEF S
<1>3. Path \subseteq S BY <1>1, <1>2, FromTheLeaves
<1> QED BY <1>3 DEF S

\* Thresholding clamps each cell.
LEMMA ThresholdClamps ==
  ASSUME TypeOK, IsExact(root_scale, details), Compress(nodes, Clamped)
  PROVE  IsExact(root_scale', details') /\ \A c \in Leaf : Value'[c] = Clamp(Value[c])
<1>1. Replaces(root_scale, details, root_scale', details', nodes, ClampedTo)
  BY DEF Compress, Clamped, ClampedTo, Replaces
<1>2. IsTop(nodes) BY TypeIs
<1>3. ASSUME NEW p \in Path
      PROVE  /\ Value[p] \in Int /\ Value[p] = ValueOf(root_scale, details)[p]
             /\ ClampedTo[p] = Clamp(Value[p]) /\ ClampedTo[p] \in Int
  <2>1. Value[p] \in Int /\ Value[p] = ValueOf(root_scale, details)[p]
    BY ValueIs, ValueDefined DEF TypeOK
  <2>2. Clamp(Value[p]) \in Int BY <2>1, LimitIs
  <2> QED BY <2>1, <2>2 DEF ClampedTo
<1>4. ClampedTo \in [Path -> Int]
  <2>1. ClampedTo = [p \in Path |-> ClampedTo[p]] BY DEF ClampedTo
  <2> QED BY <1>3, <2>1
<1>5. MovesExactly(root_scale, details, nodes, ClampedTo)
  <2> SUFFICES ASSUME NEW f \in Frontier(nodes)
               PROVE  IsMultiple(ClampedTo[f] - ValueOf(root_scale, details)[f], Height)
    BY DEF MovesExactly
  <2>1. f \in Path /\ f \notin nodes BY DEF Frontier
  <2>2. PICK o \in Int : o = Value[f] /\ o = ValueOf(root_scale, details)[f] BY <1>3, <2>1
  <2>3. IsMultiple(o, Height) BY <2>1, <2>2, UnallocatedIsExact
  <2>4. PICK z : z = Clamp(o) /\ z = ClampedTo[f] BY <1>3, <2>1, <2>2
  <2>5. IsMultiple(z, Height) BY <2>3, <2>4, LimitIs, AmountsAreMultiples
  <2>6. Height \in 0..Height OBVIOUS
  <2>7. IsMultiple(z - o, Height) BY <2>3, <2>5, <2>6, MultipleSums
  <2> QED BY <2>2, <2>4, <2>7
<1>6. PICK s, d, t, e : s = root_scale /\ d = details /\ t = root_scale' /\ e = details' OBVIOUS
<1>7. IsExact(t, e) BY <1>1, <1>2, <1>4, <1>5, <1>6, ReplacedExact
<1>8. ASSUME NEW c \in Leaf PROVE Value'[c] = Clamp(Value[c])
  <2>1. c \in Path \ nodes BY <1>2, LeafIsLong DEF IsTop, NodePath
  <2>2. PICK f \in Frontier(nodes) : IsBelow(s, d, t, e, nodes, ClampedTo, c, f)
    BY <1>1, <1>2, <1>4, <1>5, <1>6, <2>1, ReplacedBelow
  <2>3. f \in Path BY DEF Frontier
  <2>4. \A q \in NodePath \ nodes : d[q] = 0 BY <1>6 DEF TypeOK
  <2>5. PICK o \in Int, y \in Int, z \in Int :
          o = Value[f] /\ y = Value[c] /\ z = ClampedTo[f] /\ z = Clamp(o)
    BY <1>3, <2>1, <2>3
  <2>6. ValueOf(s, d)[c] = y /\ ValueOf(s, d)[f] = o BY <1>3, <1>6, <2>1, <2>3, <2>5
  <2>7. ValueOf(t, e)[c] = y + (z - o) /\ y = o BY <2>2, <2>4, <2>5, <2>6 DEF IsBelow
  <2>8. ValueOf(t, e)[c] = z BY <2>7
  <2>9. Value'[c] = ValueOf(t, e)[c] BY <1>6, NewValueIs
  <2> QED BY <2>5, <2>7, <2>8, <2>9
<1> QED BY <1>6, <1>7, <1>8

\* An update increments, limits or leaves each cell.
LEMMA UpdateMovesCells ==
  ASSUME Chunked, TypeOK, IsExact(root_scale, details),
         NEW refined, NEW stopped, NEW sample, Updates(refined, stopped, sample)
  PROVE  /\ IsExact(root_scale', details')
         /\ \A c \in Leaf : \/ stopped # {} /\ \E x \in Sample : Value'[c] = Value[c] + x
                            \/ \E x \in Sample : Value'[c] = ClampPadded(Value[c] + x)
                            \/ Value'[c] = Value[c] /\ c \notin Frontier(refined)
<1> DEFINE base == UpdatedTo(stopped, sample)
<1>1. /\ IsTop(refined) /\ base \in [Path -> Int]
      /\ MovesExactly(root_scale, details, refined, base)
      /\ Replaces(root_scale, details, root_scale', details', refined, base)
      /\ \A f \in Frontier(refined) :
           \/ f \in stopped /\ base[f] = Value[f] + sample[f]
           \/ f \in Leaf /\ base[f] = ClampPadded(Value[f] + sample[f])
           \/ f \notin Leaf /\ base[f] = Value[f]
  BY UpdateIsExact
<1>2. /\ stopped \in SUBSET (Frontier(refined) \cap Visible \cap NodePath)
      /\ sample \in [stopped \cup (Frontier(refined) \cap Leaf) -> Sample]
  BY DEF Updates
<1> HIDE DEF base
<1>3. PICK s, d, t, e : s = root_scale /\ d = details /\ t = root_scale' /\ e = details' OBVIOUS
<1>4. IsExact(t, e) BY <1>1, <1>3, ReplacedExact
<1>5. ASSUME NEW p \in Path
      PROVE  Value[p] \in Int /\ Value[p] = ValueOf(s, d)[p] /\ base[p] \in Int
  BY <1>1, <1>3, ValueIs, ValueDefined DEF TypeOK
<1>6. ASSUME NEW c \in Leaf
      PROVE  \/ stopped # {} /\ \E x \in Sample : Value'[c] = Value[c] + x
             \/ \E x \in Sample : Value'[c] = ClampPadded(Value[c] + x)
             \/ Value'[c] = Value[c] /\ c \notin Frontier(refined)
  <2>1. c \in Path \ refined BY <1>1, LeafIsLong DEF IsTop, NodePath
  <2>2. PICK f \in Frontier(refined) : IsBelow(s, d, t, e, refined, base, c, f)
    BY <1>1, <1>3, <2>1, ReplacedBelow
  <2>3. f \in Path BY DEF Frontier
  <2>4. PICK o \in Int, y \in Int, z \in Int : o = Value[f] /\ y = Value[c] /\ z = base[f]
    BY <1>5, <2>1, <2>3
  <2>5. ValueOf(s, d)[c] = y /\ ValueOf(s, d)[f] = o BY <1>5, <2>1, <2>3, <2>4
  <2>6. ValueOf(t, e)[c] = y + (z - o) BY <2>2, <2>4, <2>5 DEF IsBelow
  <2>7. Value'[c] = ValueOf(t, e)[c] BY <1>3, NewValueIs
  <2>8. CASE f \in stopped /\ base[f] = Value[f] + sample[f]
    <3>1. PICK x \in Sample : x = sample[f] BY <1>2, <2>8
    <3>2. x \in Int BY <3>1
    <3>3. z = o + x BY <2>4, <2>8, <3>1
    <3>4. y + (z - o) = y + x BY <3>2, <3>3
    <3>5. Value'[c] = Value[c] + x BY <2>4, <2>6, <2>7, <3>4
    <3> QED BY <2>8, <3>5
  <2>9. CASE f \in Leaf /\ base[f] = ClampPadded(Value[f] + sample[f])
    <3>1. f = c
      <4>1. ASSUME f \in Above(c) PROVE FALSE
        <5>1. Len(f) < Len(c) BY <2>1, <2>3, <4>1, AboveAgrees
        <5>2. Len(f) = Height /\ Len(c) = Height BY <2>1, <2>3, <2>9, LeafIsLong
        <5> QED BY <5>1, <5>2
      <4> QED BY <2>2, <4>1 DEF IsBelow
    <3>2. f \in stopped \cup (Frontier(refined) \cap Leaf) BY <2>9
    <3>3. PICK x \in Sample : x = sample[f] BY <1>2, <3>2
    <3>4. y = o BY <2>4, <3>1
    <3>5. ValueOf(t, e)[c] = z BY <2>6, <3>4
    <3>6. Value'[c] = ClampPadded(Value[c] + x) BY <2>4, <2>7, <2>9, <3>1, <3>3, <3>5
    <3> QED BY <3>6
  <2>10. CASE f \notin Leaf /\ base[f] = Value[f]
    <3>1. z = o BY <2>4, <2>10
    <3>2. ValueOf(t, e)[c] = y BY <2>6, <3>1
    <3>3. Value'[c] = Value[c] BY <2>4, <2>7, <3>2
    <3>4. c \notin Frontier(refined)
      <4> SUFFICES ASSUME c \in Frontier(refined) PROVE FALSE OBVIOUS
      <4>1. f \in Above(c) BY <2>2, <2>10 DEF IsBelow
      <4>2. c # <<>> /\ Front(c) \in refined BY DEF Frontier
      <4>3. f \in refined
        <5>1. Above(Front(c)) \subseteq refined BY <1>1, <4>2 DEF IsTop
        <5> QED BY <2>1, <4>1, <4>2, <5>1, AboveFront
      <4> QED BY <4>3 DEF Frontier
    <3> QED BY <3>3, <3>4
  <2> QED BY <1>1, <2>8, <2>9, <2>10
<1> QED BY <1>3, <1>4, <1>6

\* An increment adds to the cells of its path.
LEMMA IncrementMovesCells ==
  ASSUME TypeOK, IsExact(root_scale, details),
         NEW p \in Path \ {<<>>}, NEW v, IsMultiple(v, Height), Increment(p, v)
  PROVE  /\ IsExact(root_scale', details')
         /\ \A c \in Leaf : Value'[c] = IF SubSeq(c, 1, Len(p)) = p THEN Value[c] + v ELSE Value[c]
<1>1. PICK s, d, t, e : s = root_scale /\ d = details /\ t = root_scale' /\ e = details' OBVIOUS
<1>2. Increments(s, d, t, e, p, v) BY <1>1 DEF Increment, Increments
<1>3. IsExact(s, d) BY <1>1
<1>4. /\ t \in Int /\ e \in [NodePath -> Int] /\ \A q \in NodePath : IsEven(e[q])
      /\ \A q \in Path : /\ ValueOf(t, e)[q] = ValueOf(s, d)[q] + Added(p, v, q)
                         /\ IsMultiple(Added(p, v, q), Len(q))
  BY <1>2, <1>3, IncrementAdds
<1>5. ASSUME NEW q \in Path PROVE IsMultiple(ValueOf(t, e)[q], Len(q))
  <2>1. Len(q) \in 0..Height BY PathIsSeq
  <2>2. IsMultiple(ValueOf(s, d)[q], Len(q)) BY <1>3 DEF IsExact
  <2> QED BY <1>4, <2>1, <2>2, MultipleSums
<1>6. IsExact(t, e) BY <1>4, <1>5 DEF IsExact
<1>7. ASSUME NEW c \in Leaf
      PROVE  Value'[c] = IF SubSeq(c, 1, Len(p)) = p THEN Value[c] + v ELSE Value[c]
  <2>1. c \in Path /\ Len(c) = Height /\ Len(p) \in 0..Height BY LeafIsLong, PathIsSeq
  <2>2. c \notin Above(p)
    <3>1. ~(Len(c) < Len(p)) BY <2>1
    <3> QED BY <2>1, <3>1, AboveAgrees
  <2>3. Len(p) <= Len(c) BY <2>1
  <2>4. Added(p, v, c) = IF SubSeq(c, 1, Len(p)) = p THEN v ELSE 0 BY <2>2, <2>3 DEF Added
  <2>5. PICK y \in Int : y = Value[c] /\ y = ValueOf(s, d)[c]
    BY <1>1, <2>1, ValueIs, ValueDefined DEF TypeOK
  <2>6. Value'[c] = ValueOf(t, e)[c] BY <1>1, NewValueIs
  <2>7. Value'[c] = y + Added(p, v, c) BY <1>4, <2>1, <2>5, <2>6
  <2> QED BY <2>4, <2>5, <2>7
<1> QED BY <1>1, <1>6, <1>7

\* A block without details is zero everywhere.
LEMMA ZeroIsExact ==
  LET none == [p \in NodePath |-> 0]
  IN  IsExact(0, none) /\ \A p \in Path : ValueOf(0, none)[p] = 0
<1> DEFINE none == [p \in NodePath |-> 0]
           S == {p \in Path : ValueOf(0, none)[p] = 0}
<1>1. none \in [NodePath -> Int] OBVIOUS
<1>2. /\ ValueOf(0, none)[<<>>] = 0
      /\ \A p \in Path \ {<<>>} :
           ValueOf(0, none)[p] = Backward(ValueOf(0, none)[Front(p)], none[Front(p)], Last(p))
  BY <1>1, ValueDefined
<1>3. <<>> \in S BY <1>2, RootPath
<1>4. ASSUME NEW p \in Path \ {<<>>}, Front(p) \in S PROVE p \in S
  <2>1. Front(p) \in NodePath /\ Last(p) \in {0, 1} BY FrontPath
  <2>2. none[Front(p)] = 0 BY <2>1
  <2>3. ValueOf(0, none)[p] = Backward(0, 0, Last(p)) BY <1>2, <1>4, <2>2
  <2> QED BY <2>1, <2>3, BackwardOfZero
<1> HIDE DEF S
<1>5. \A p \in Path : ValueOf(0, none)[p] = 0
  <2>1. Path \subseteq S BY <1>3, <1>4, FromTheRoot
  <2> QED BY <2>1 DEF S
<1>6. \A p \in Path : IsMultiple(0, Len(p))
  <2> SUFFICES ASSUME NEW p \in Path PROVE IsMultiple(0, Len(p)) OBVIOUS
  <2>1. Len(p) \in 0..Height BY PathIsSeq
  <2> QED BY <2>1, AmountsAreMultiples, MultipleOfLess
<1>7. IsEven(0)
  <2>1. 0 = 2 * 0 OBVIOUS
  <2> QED BY <2>1 DEF IsEven
<1>8. IsExact(0, none)
  <2>1. \A p \in NodePath : IsEven(none[p]) BY <1>7
  <2>2. \A p \in Path : IsMultiple(ValueOf(0, none)[p], Len(p)) BY <1>5, <1>6
  <2> QED BY <1>1, <2>1, <2>2 DEF IsExact
<1> QED BY <1>5, <1>8

\* Halving is exact as long as the block is chunked.
ExactInv == TypeOK /\ IsExact(root_scale, details)

\* Halving is exact initially,
LEMMA ExactInit == ASSUME Init PROVE ExactInv /\ \A p \in Path : Value[p] = 0
<1>1. root_scale = 0 /\ details = [p \in NodePath |-> 0] BY DEF Init
<1>2. Value = ValueOf(0, [p \in NodePath |-> 0]) BY <1>1, ValueIs
<1> QED BY <1>1, <1>2, ZeroIsExact, TypeInit DEF ExactInv

\* after a clear,
LEMMA ClearIsExact ==
  ASSUME Clear PROVE IsExact(root_scale', details') /\ \A p \in Path : Value'[p] = 0
<1>1. root_scale' = 0 /\ details' = [p \in NodePath |-> 0] BY DEF Clear
<1>2. Value' = ValueOf(0, [p \in NodePath |-> 0]) BY <1>1, NewValueIs
<1> QED BY <1>1, <1>2, ZeroIsExact

\* Thresholding, if it is needed, clamps each cell, and else leaves it.
LEMMA ThresholdMovesCells ==
  ASSUME ExactInv, ThresholdValues
  PROVE  /\ IsExact(root_scale', details')
         /\ \/ needs_thresholding /\ \A c \in Leaf : Value'[c] = Clamp(Value[c])
            \/ ~needs_thresholding /\ Value' = Value
<1>1. CASE needs_thresholding
  BY <1>1, ThresholdClamps DEF ThresholdValues, ExactInv
<1>2. CASE ~needs_thresholding
  <2>1. root_scale' = root_scale /\ details' = details BY <1>2 DEF ThresholdValues
  <2> QED BY <1>2, <2>1, ValueIs, NewValueIs DEF ExactInv
<1> QED BY <1>1, <1>2

\* and after each step of a chunked block.
LEMMA ExactStep == ASSUME Chunked, ExactInv, [Next]_vars PROVE ExactInv'
<1>0. TypeOK' BY TypeStep DEF ExactInv
<1> SUFFICES IsExact(root_scale', details') BY <1>0 DEF ExactInv
<1>1. CASE UpdateBlock
  <2>1. PICK refined, stopped, sample : Updates(refined, stopped, sample) BY <1>1, UpdateUnfolds
  <2> QED BY <2>1, UpdateMovesCells DEF ExactInv
<1>2. CASE \E p \in AddPath, update \in Sample : AddToCellValue(p, update)
  <2>1. PICK p \in AddPath, update \in Sample : Increment(p, update) BY <1>2 DEF AddToCellValue
  <2>2. p \in Path \ {<<>>} /\ IsMultiple(update, Height) BY AddedAmounts, AmountsAreMultiples
  <2> QED BY <2>1, <2>2, IncrementMovesCells DEF ExactInv
<1>3. CASE \E p \in SetPath, v \in SetValue : SetCellValue(p, v)
  <2>1. PICK p \in SetPath, v \in SetValue : SetCellValue(p, v) BY <1>3
  <2>2. PICK x \in Int : x % (2^Height) = 0 /\ Increment(p, x) BY <2>1, AddedAmounts DEF ExactInv
  <2>3. p \in Path \ {<<>>} BY AddedAmounts DEF ExactInv
  <2>4. Height \in 0..Height OBVIOUS
  <2>5. IsMultiple(x, Height) BY <2>2, <2>4, MultipleMod
  <2> QED BY <2>2, <2>3, <2>5, IncrementMovesCells DEF ExactInv
<1>4. CASE Threshold BY <1>4, ThresholdMovesCells DEF Threshold
<1>5. CASE Prune BY <1>5, ThresholdMovesCells DEF Prune
<1>6. CASE Clear BY <1>6, ClearIsExact
<1>7. CASE UNCHANGED vars BY <1>7 DEF vars, ExactInv
<1> QED BY <1>1, <1>2, <1>3, <1>4, <1>5, <1>6, <1>7 DEF Next

\* In a chunked block halving is exact: the value of each node is a multiple of
\* as many halvings as there are levels below it, and every detail is even, so
\* that forward and backward steps of the transform undo each other.
THEOREM HalvingIsExact == ASSUME Chunked PROVE Spec => []ExactInv
<1>1. Init => ExactInv BY ExactInit
<1>2. ExactInv /\ [Next]_vars => ExactInv' BY ExactStep
<1> QED BY <1>1, <1>2, PTL DEF Spec

-----------------------------------------------------------------------------
(* A block that needs no thresholding has its cells in range               *)

InRange(v) == v \in (MinLogOdds - Noise)..(MaxLogOdds + Noise)

\* The inductive step: when the flag stays down, an update limited all that it
\* incremented.
LEMMA BoundsStep ==
  ASSUME Chunked, InRange(0), ExactInv, FlagsBoundCells, [Next]_vars PROVE FlagsBoundCells'
<1>0. \A c \in Leaf : c \in Path BY LeafIsLong
<1>1. Value \in [Path -> Int] BY ValueIs, ValueDefined DEF ExactInv, TypeOK
<1> SUFFICES ASSUME ~needs_thresholding', NEW c \in Leaf PROVE InRange(Value'[c])
  BY DEF FlagsBoundCells, InRange
<1>2. ~needs_thresholding => InRange(Value[c]) BY DEF FlagsBoundCells, InRange
<1>3. CASE UpdateBlock
  <2>1. PICK refined, stopped, sample : Updates(refined, stopped, sample) BY <1>3, UpdateUnfolds
  <2>2. ~needs_thresholding /\ stopped = {} BY <2>1 DEF Updates, StopFlags
  <2>3. \/ \E x \in Sample : Value'[c] = ClampPadded(Value[c] + x)
        \/ Value'[c] = Value[c]
    BY <2>1, <2>2, UpdateMovesCells DEF ExactInv
  <2>4. ASSUME NEW x \in Sample, Value'[c] = ClampPadded(Value[c] + x) PROVE InRange(Value'[c])
    <3>1. PICK y \in Int : y = Value[c] + x BY <1>0, <1>1
    <3>2. InRange(ClampPadded(y)) BY LimitIs DEF InRange
    <3> QED BY <2>4, <3>1, <3>2
  <2> QED BY <1>2, <2>2, <2>3, <2>4
<1>4. CASE \E p \in AddPath, update \in Sample : AddToCellValue(p, update)
  <2>1. needs_thresholding' = TRUE BY <1>4 DEF AddToCellValue, Increment
  <2> QED BY <2>1
<1>5. CASE \E p \in SetPath, v \in SetValue : SetCellValue(p, v)
  <2>1. needs_thresholding' = TRUE BY <1>5 DEF SetCellValue, Increment
  <2> QED BY <2>1
<1>6. CASE ThresholdValues
  <2>1. CASE needs_thresholding /\ \A a \in Leaf : Value'[a] = Clamp(Value[a])
    <3>1. PICK y \in Int : y = Value[c] BY <1>0, <1>1
    <3>2. PICK z : z = Clamp(y) OBVIOUS
    <3>3. z \in MinLogOdds..MaxLogOdds BY <3>2, LimitIs
    <3>4. InRange(z)
      <4>1. PICK lo \in Int, hi \in Int, n \in Nat : lo = MinLogOdds /\ hi = MaxLogOdds /\ n = Noise
        OBVIOUS
      <4>2. z \in lo..hi BY <3>3, <4>1
      <4>3. z \in (lo - n)..(hi + n) BY <4>2
      <4> QED BY <4>1, <4>3 DEF InRange
    <3> QED BY <2>1, <3>1, <3>2, <3>4
  <2>2. CASE ~needs_thresholding /\ Value' = Value BY <1>2, <2>2
  <2> QED BY <1>6, <2>1, <2>2, ThresholdMovesCells
<1>7. CASE Clear
  <2>1. Value'[c] = 0 BY <1>0, <1>7, ClearIsExact
  <2> QED BY <2>1
<1>8. CASE UNCHANGED vars
  <2>1. Value' = Value /\ ~needs_thresholding BY <1>8, ValueIs, NewValueIs DEF vars
  <2> QED BY <1>2, <2>1
<1> QED BY <1>3, <1>4, <1>5, <1>6, <1>7, <1>8 DEF Next, Threshold, Prune

\* A chunked block whose flag is down has its cells in the padded range,
\* provided that range holds the log-odds of an unobserved cell.
THEOREM BoundsAreKept ==
  ASSUME Chunked, MinLogOdds - Noise <= 0, 0 <= MaxLogOdds + Noise
  PROVE  Spec => []FlagsBoundCells
<1>1. InRange(0)
  <2>1. PICK lo \in Int, hi \in Int, n \in Nat : lo = MinLogOdds /\ hi = MaxLogOdds /\ n = Noise
    OBVIOUS
  <2>2. 0 \in (lo - n)..(hi + n) BY <2>1
  <2> QED BY <2>1, <2>2 DEF InRange
<1>2. Init => ExactInv /\ FlagsBoundCells
  <2> SUFFICES ASSUME Init PROVE ExactInv /\ FlagsBoundCells OBVIOUS
  <2>1. ExactInv /\ \A p \in Path : Value[p] = 0 BY ExactInit
  <2>2. \A c \in Leaf : Value[c] = 0 BY <2>1, LeafIsLong
  <2> QED BY <1>1, <2>1, <2>2 DEF FlagsBoundCells, InRange
<1>3. ExactInv /\ FlagsBoundCells /\ [Next]_vars => (ExactInv /\ FlagsBoundCells)'
  BY <1>1, ExactStep, BoundsStep
<1> QED BY <1>2, <1>3, PTL DEF Spec

-----------------------------------------------------------------------------
(* A chunked block is a grid of cells                                      *)

Cells == [c \in Leaf |-> Value[c]]

\* The two limits are the same.
LEMMA GridLimits ==
  ASSUME NEW v \in Int
  PROVE  Grid!Clamp(v) = Clamp(v) /\ Grid!ClampPadded(v) = ClampPadded(v)
<1>1. ASSUME NEW lo \in Int, NEW hi \in Int, lo <= hi PROVE Grid!Limit(v, lo, hi) = Limit(v, lo, hi)
  <2>1. CASE v < lo BY <1>1, <2>1 DEF Grid!Limit, Grid!LowerOf, Grid!UpperOf, Limit
  <2>2. CASE ~(v < lo) /\ hi < v BY <1>1, <2>2 DEF Grid!Limit, Grid!LowerOf, Grid!UpperOf, Limit
  <2>3. CASE ~(v < lo) /\ ~(hi < v) BY <1>1, <2>3 DEF Grid!Limit, Grid!LowerOf, Grid!UpperOf, Limit
  <2> QED BY <2>1, <2>2, <2>3
<1>2. /\ MinLogOdds \in Int /\ MaxLogOdds \in Int /\ MinLogOdds <= MaxLogOdds
      /\ MinLogOdds - Noise \in Int /\ MaxLogOdds + Noise \in Int
      /\ MinLogOdds - Noise <= MaxLogOdds + Noise
  OBVIOUS
<1> QED BY <1>1, <1>2 DEF Clamp, ClampPadded, Grid!Clamp, Grid!ClampPadded

\* Each step of a block is one of the grid: an update limits cells or adds to
\* them, an increment adds to the cells of a region, a thresholding clamps all
\* cells, and a pruning changes none.
LEMMA GridStep ==
  ASSUME Chunked, SetPath = {} \/ \A v \in Int : v % (2^Height) = 0 => v \in Sample,
         ExactInv, [Next]_vars
  PROVE  Grid!Next \/ Cells' = Cells
<1>0. /\ \A c \in Leaf : c \in Path
      /\ Value \in [Path -> Int] /\ Value' \in [Path -> Int]
  <2>1. Value \in [Path -> Int] BY ValueIs, ValueDefined DEF ExactInv, TypeOK
  <2>2. TypeOK' BY TypeStep DEF ExactInv
  <2>3. root_scale' \in Int /\ details' \in [NodePath -> Int] BY <2>2, NewTypeIs
  <2>4. Value' \in [Path -> Int] BY <2>3, NewValueIs, ValueDefined
  <2> QED BY <2>1, <2>4, LeafIsLong
<1>1. CASE UpdateBlock
  <2>1. PICK refined, stopped, sample : Updates(refined, stopped, sample) BY <1>1, UpdateUnfolds
  <2>2. \A c \in Leaf : \/ \E x \in Sample : Value'[c] = Value[c] + x
                        \/ \E x \in Sample : Value'[c] = ClampPadded(Value[c] + x)
                        \/ Value'[c] = Value[c]
    BY <2>1, UpdateMovesCells DEF ExactInv
  <2>3. Cells' = [c \in Leaf |-> Value'[c]] BY DEF Cells
  <2>4. ASSUME NEW c \in Leaf
        PROVE  \/ Cells'[c] \in {Cells[c], Grid!ClampPadded(Cells[c])}
               \/ \E x \in Sample : Cells'[c] \in {Cells[c] + x, Grid!ClampPadded(Cells[c] + x)}
    <3>1. Cells[c] = Value[c] /\ Cells'[c] = Value'[c] BY <2>3 DEF Cells
    <3>2. ASSUME NEW x \in Sample PROVE Grid!ClampPadded(Value[c] + x) = ClampPadded(Value[c] + x)
      <4>1. PICK y \in Int : y = Value[c] + x BY <1>0
      <4> QED BY <4>1, GridLimits
    <3> QED BY <2>2, <3>1, <3>2
  <2>5. Cells' \in [Leaf -> Int] BY <1>0, <2>3
  <2>6. Grid!Update BY <2>4 DEF Grid!Update, Cells
  <2> QED BY <2>5, <2>6 DEF Grid!Next, Cells
<1>2. ASSUME NEW p \in Path \ {<<>>}, NEW v \in Sample, Increment(p, v) PROVE Grid!Add
  <2>1. IsMultiple(v, Height) BY AmountsAreMultiples
  <2>2. \A c \in Leaf : Value'[c] = IF SubSeq(c, 1, Len(p)) = p THEN Value[c] + v ELSE Value[c]
    BY <1>2, <2>1, IncrementMovesCells DEF ExactInv
  <2> DEFINE r == {c \in Leaf : SubSeq(c, 1, Len(p)) = p}
  <2>3. r \in {{c \in Leaf : SubSeq(c, 1, Len(q)) = q} : q \in Path} OBVIOUS
  <2>4. Cells' = [c \in Leaf |-> IF c \in r THEN Cells[c] + v ELSE Cells[c]]
    <3>1. Cells' = [c \in Leaf |-> Value'[c]] BY DEF Cells
    <3>2. \A c \in Leaf : Value'[c] = IF c \in r THEN Cells[c] + v ELSE Cells[c]
      BY <2>2 DEF Cells
    <3> HIDE DEF r
    <3> QED BY <3>1, <3>2
  <2> HIDE DEF r
  <2> QED BY <2>3, <2>4 DEF Grid!Add, Cells
<1>3. CASE \E p \in AddPath, update \in Sample : AddToCellValue(p, update)
  <2>1. PICK p \in AddPath, update \in Sample : Increment(p, update) BY <1>3 DEF AddToCellValue
  <2>2. p \in Path \ {<<>>} BY AddedAmounts
  <2> QED BY <1>2, <2>1, <2>2 DEF Grid!Next
<1>4. CASE \E p \in SetPath, v \in SetValue : SetCellValue(p, v)
  <2>1. PICK p \in SetPath, v \in SetValue : SetCellValue(p, v) BY <1>4
  <2>2. PICK x \in Int : x % (2^Height) = 0 /\ Increment(p, x) BY <2>1, AddedAmounts DEF ExactInv
  <2>3. p \in Path \ {<<>>} /\ x \in Sample BY <2>2, AddedAmounts DEF ExactInv
  <2> QED BY <1>2, <2>2, <2>3 DEF Grid!Next
<1>5. CASE ThresholdValues
  <2>1. CASE \A c \in Leaf : Value'[c] = Clamp(Value[c])
    <3>1. Cells' = [c \in Leaf |-> Value'[c]] BY DEF Cells
    <3>2. \A c \in Leaf : Value'[c] = Grid!Clamp(Cells[c])
      <4> SUFFICES ASSUME NEW c \in Leaf PROVE Value'[c] = Grid!Clamp(Cells[c]) OBVIOUS
      <4>1. Value[c] \in Int /\ Cells[c] = Value[c] BY <1>0 DEF Cells
      <4> QED BY <2>1, <4>1, GridLimits
    <3>3. Cells' = [c \in Leaf |-> Grid!Clamp(Cells[c])] BY <3>1, <3>2
    <3> QED BY <3>3 DEF Grid!Next, Grid!Threshold, Cells
  <2>2. CASE Value' = Value
    <3>1. Cells' = [c \in Leaf |-> Value'[c]] BY DEF Cells
    <3> QED BY <2>2, <3>1 DEF Cells
  <2> QED BY <1>5, <2>1, <2>2, ThresholdMovesCells
<1>6. CASE Clear
  <2>1. Cells' = [c \in Leaf |-> Value'[c]] BY DEF Cells
  <2>2. \A c \in Leaf : Value'[c] = 0 BY <1>0, <1>6, ClearIsExact
  <2>3. Cells' = [c \in Leaf |-> 0] BY <2>1, <2>2
  <2> QED BY <2>3 DEF Grid!Next, Grid!Clear, Cells
<1>7. CASE UNCHANGED vars
  <2>1. Value' = Value BY <1>7, ValueIs, NewValueIs DEF vars
  <2>2. Cells' = [c \in Leaf |-> Value'[c]] BY DEF Cells
  <2> QED BY <2>1, <2>2 DEF Cells
<1> QED BY <1>1, <1>3, <1>4, <1>5, <1>6, <1>7 DEF Next, Threshold, Prune

\* A chunked block implements the grid of cells; if cells are set and not only
\* added to, the amounts of the grid have to be all those that this can take.
THEOREM BlockIsGrid ==
  ASSUME Chunked, SetPath = {} \/ \A v \in Int : v % (2^Height) = 0 => v \in Sample
  PROVE  Spec => ImplementsGrid
<1>1. Init => ExactInv /\ Grid!Init
  <2> SUFFICES ASSUME Init PROVE ExactInv /\ Grid!Init OBVIOUS
  <2>1. ExactInv /\ \A p \in Path : Value[p] = 0 BY ExactInit
  <2>2. \A c \in Leaf : Value[c] = 0 BY <2>1, LeafIsLong
  <2> QED BY <2>1, <2>2 DEF Grid!Init
<1>2. ExactInv /\ [Next]_vars => ExactInv' /\ [Grid!Next]_Cells
  BY ExactStep, GridStep
<1>3. [Grid!Next]_Cells <=> [Grid!Next]_[c \in Leaf |-> Value[c]] BY DEF Cells
<1> QED BY <1>1, <1>2, <1>3, PTL DEF Spec, ImplementsGrid, Grid!Spec
=============================================================================
