---------------------------- MODULE HaarTransform ----------------------------
(***************************************************************************)
(* The Haar transform of the 2^Dim children of a node into one scale and   *)
(* 2^Dim - 1 details, and back (haar_transform_inl.h), in three variants:  *)
(* one axis after the other (lifted), one coefficient at a time (parallel),*)
(* and for a single child.                                                 *)
(*                                                                         *)
(* An array is a function on 0..2^Dim - 1; of coefficients, 0 is the scale.*)
(* Values are integers that the divisions leave integers.                  *)
(***************************************************************************)
EXTENDS Indices

Coefficient == 0..Exp2(Dim) - 1
Detail == Coefficient \ {0}

Bits(i) == {a \in 0..Dim - 1 : IsBitSet(i, a)}

\* squeeze_in: an index with the bit of this axis set or not.
On(i, axis) == IF IsBitSet(i, axis) THEN i ELSE i + Exp2(axis)
Off(i, axis) == IF IsBitSet(i, axis) THEN i - Exp2(axis) ELSE i

-----------------------------------------------------------------------------
(* Lifted: along each axis the upper half becomes the difference of the    *)
(* halves, the lower one their mean.                                       *)

ForwardLifted(child_scales) ==
  LET lifted[n \in 0..Dim] ==
        IF n = 0 THEN child_scales
        ELSE LET c == lifted[n - 1]
                 detail(i) == c[On(i, n - 1)] - c[Off(i, n - 1)]
             IN  [i \in Coefficient |-> IF IsBitSet(i, n - 1) THEN detail(i)
                                        ELSE c[i] + detail(i) \div 2]
  IN  lifted[Dim]

BackwardLifted(parent) ==
  LET lowered[n \in 0..Dim] ==
        IF n = 0 THEN parent
        ELSE LET c == lowered[n - 1]
                 low(i) == c[Off(i, n - 1)] - c[On(i, n - 1)] \div 2
             IN  [i \in Coefficient |-> IF IsBitSet(i, n - 1) THEN c[i] + low(i) ELSE low(i)]
  IN  lowered[Dim]

-----------------------------------------------------------------------------
(* Parallel, and for a single child *)

\* Mutant: the sign follows the axes the two have in common.
SignInCommon(parent, child) ==
  IF Cardinality(Bits(parent) \cap Bits(child)) % 2 = 1 THEN -1 ELSE 1

\* parity(parent & ~child).
Sign(parent, child) == IF Cardinality(Bits(parent) \ Bits(child)) % 2 = 1 THEN -1 ELSE 1

\* exp2(popcount), and how much of a child each coefficient of the parent is.
BackwardDivisor == [i \in Coefficient |-> Exp2(Cardinality(Bits(i)))]
ForwardDivisor == [i \in Coefficient |-> Exp2(Dim) \div BackwardDivisor[i]]

\* The loop over all indices that adds up a term for each.
SumOver(term) ==
  LET sum[n \in 0..Exp2(Dim)] == IF n = 0 THEN 0 ELSE sum[n - 1] + term[n - 1]
  IN  sum[Exp2(Dim)]

ForwardParallel(child_scales) ==
  [p \in Coefficient |->
     SumOver([c \in Coefficient |-> Sign(p, c) * child_scales[c]]) \div ForwardDivisor[p]]

ForwardSingleChild(child_scale, child) ==
  [p \in Coefficient |-> (Sign(p, child) * child_scale) \div ForwardDivisor[p]]

BackwardSingleChild(parent, child) ==
  SumOver([p \in Coefficient |-> Sign(p, child) * (parent[p] \div BackwardDivisor[p])])

BackwardParallel(parent) == [c \in Coefficient |-> BackwardSingleChild(parent, c)]

\* Up to two dimensions, the parallel variants are used.
HaarForward(child_scales) ==
  IF Dim <= 2 THEN ForwardParallel(child_scales) ELSE ForwardLifted(child_scales)
HaarBackward(parent) ==
  IF Dim <= 2 THEN BackwardParallel(parent) ELSE BackwardLifted(parent)

\* What the variants make of these coefficients is the same, and each
\* transform undoes the other.
TransformsAgree(parent) ==
  LET children == HaarBackward(parent)
  IN  /\ BackwardLifted(parent) = BackwardParallel(parent)
      /\ ForwardLifted(children) = parent /\ ForwardParallel(children) = parent
=============================================================================
