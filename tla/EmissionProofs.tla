--------------------------- MODULE EmissionProofs ---------------------------
(***************************************************************************)
(* Proofs about EmissionMath, and about sums over a set, for the modules   *)
(* that emit and account: EnergyMintProofs and TokenLedgerProofs.          *)
(*                                                                         *)
(* Of the emission formulas, for every scale, number of terms, supply,     *)
(* window and report: no reward is more than the genesis peg pays, no      *)
(* emission makes the next SRC cheaper, no report is worth more in pieces, *)
(* and the five parts of a reward are the reward.  The exponential is at   *)
(* least one and grows, since its terms are never negative and grow; the   *)
(* logarithm is never negative, whatever the signs of its terms, since     *)
(* each term is at most the one before it.                                 *)
(*                                                                         *)
(* Induction is over the natural numbers that a set leaves out: the least  *)
(* of them would have a predecessor.                                       *)
(***************************************************************************)
EXTENDS EmissionCurve, FiniteSetTheorems, WellFoundedInduction, TLAPS

LEMMA Scales ==
  /\ FP_SCALE \in Nat \ {0} /\ LN10_FP \in Nat \ {0} /\ LN2_FP \in Nat \ {0}
  /\ MAX_SUPPLY_ATOMIC \in Nat \ {0} /\ INITIAL_ENERGY_PER_SRC \in Nat \ {0}
  /\ SRC_BASIS \in Nat \ {0} /\ MaxTerms \in Nat \ {0} /\ WORD \in Nat \ {0}
  /\ MAX_SUPPLY_ATOMIC < WORD
BY EmissionAssumption
-----------------------------------------------------------------------------
(* Arithmetic.                                                             *)

LEMMA DivisionBounds ==
  ASSUME NEW a \in Nat, NEW k \in Nat \ {0}
  PROVE  a \div k \in Nat /\ k * (a \div k) <= a /\ a < k * (a \div k) + k
OBVIOUS

LEMMA DivisionGrows ==
  ASSUME NEW a \in Nat, NEW b \in Nat, a <= b, NEW k \in Nat \ {0}
  PROVE  a \div k <= b \div k
<1> DEFINE p == a \div k
           q == b \div k
<1>1. p \in Nat /\ q \in Nat /\ k * p <= a /\ b < k * q + k
  BY DivisionBounds
<1> HIDE DEF p, q
<1>2. k * p < k * (q + 1)
  BY <1>1
<1>3. p < q + 1
  <2> SUFFICES ASSUME p >= q + 1 PROVE FALSE
    BY <1>1
  <2>1. PICK d \in Nat : p = (q + 1) + d
    <3>1. p - (q + 1) \in Nat /\ p = (q + 1) + (p - (q + 1))
      BY <1>1
    <3> QED
      BY <3>1
  <2>2. k * p = k * (q + 1) + k * d /\ k * d \in Nat
    BY <1>1, <2>1
  <2> QED
    BY <1>1, <1>2, <2>2
<1> QED
  BY <1>1, <1>3 DEF p, q

LEMMA ProductGrows ==
  ASSUME NEW k \in Nat, NEW x \in Nat, NEW y \in Nat, x <= y
  PROVE  k * x \in Nat /\ k * y \in Nat /\ k * x <= k * y
<1>1. PICK d \in Nat : y = x + d
  <2>1. y - x \in Nat /\ y = x + (y - x)
    OBVIOUS
  <2> QED
    BY <2>1
<1>2. k * y = k * x + k * d /\ k * x \in Nat /\ k * d \in Nat
  BY <1>1
<1> QED
  BY <1>2

LEMMA ProductIsNat ==
  ASSUME NEW a \in Nat, NEW b \in Nat
  PROVE  a * b \in Nat
OBVIOUS

LEMMA FixedProduct ==
  ASSUME NEW a \in Nat, NEW b \in Nat
  PROVE  fp_mul(a, b) \in Nat
BY Scales, ProductIsNat, DivisionBounds DEF fp_mul

LEMMA FixedProductGrows ==
  ASSUME NEW a \in Nat, NEW b \in Nat, a <= b, NEW x \in Nat, NEW y \in Nat, x <= y
  PROVE  fp_mul(a, x) \in Nat /\ fp_mul(b, y) \in Nat /\ fp_mul(a, x) <= fp_mul(b, y)
<1>1. a * x \in Nat /\ a * y \in Nat /\ b * y \in Nat
  BY ProductIsNat
<1>2. a * x <= a * y
  BY ProductGrows
<1>3. a * y <= b * y
  <2>1. y * a <= y * b
    BY ProductGrows
  <2> QED
    BY <2>1
<1>4. a * x <= b * y
  BY <1>1, <1>2, <1>3
<1>5. FP_SCALE \in Nat \ {0}
  BY Scales
<1> QED
  BY <1>1, <1>4, <1>5, DivisionBounds, DivisionGrows DEF fp_mul
-----------------------------------------------------------------------------
(* Induction.                                                              *)

\* A set of natural numbers has a least one.
LEMMA Least ==
  ASSUME NEW T \in SUBSET Nat, NEW k \in T
  PROVE  \E n \in T : \A m \in T : n <= m
<1> DEFINE R == OpToRel(<, Nat)
<1>1. IsWellFoundedOn(R, Nat)
  BY NatLessThanWellFounded
<1>2. \E x \in T : \A y \in T : ~ (<<y, x>> \in R)
  <2> HIDE DEF R
  <2> QED
    BY <1>1, WFMin
<1>3. PICK x \in T : \A y \in T : ~ (<<y, x>> \in OpToRel(<, Nat))
  BY <1>2
<1>4. \A y \in T : ~ (y < x)
  BY <1>3 DEF OpToRel
<1> QED
  BY <1>4

LEMMA AllNumbers ==
  ASSUME NEW T \in SUBSET Nat, 0 \in T, \A n \in T : n + 1 \in T
  PROVE  Nat = T
<1> SUFFICES ASSUME NEW k \in Nat \ T PROVE FALSE
  OBVIOUS
<1> DEFINE Others == Nat \ T
<1>1. PICK n \in Others : \A m \in Others : n <= m
  <2> HIDE DEF Others
  <2>1. Others \in SUBSET Nat /\ k \in Others
    BY DEF Others
  <2> QED
    BY <2>1, Least
<1>2. n # 0 /\ n - 1 \in Nat
  OBVIOUS
<1>3. n - 1 \in T
  BY <1>1, <1>2
<1>4. (n - 1) + 1 \in T
  BY <1>3
<1> QED
  BY <1>2, <1>4
-----------------------------------------------------------------------------
(* Values that are computed each from the one before it.                   *)

Chain(g, a, n, base, next) ==
  g[a] = base /\ \A k \in a + 1 .. n : g[k] = next[<<k, g[k - 1]>>]

LEMMA SeriesExists ==
  ASSUME NEW a \in Nat, NEW n \in Nat, a <= n,
         NEW D, NEW base \in D, NEW next \in [Nat \X D -> D]
  PROVE  \E g \in [a .. n -> D] : Chain(g, a, n, base, next)
<1> USE DEF Chain
<1> DEFINE Until(m, g) == g[a] = base /\ \A k \in a + 1 .. m : g[k] = next[<<k, g[k - 1]>>]
           T == {m \in Nat : \E g \in [a .. a + m -> D] : Until(a + m, g)}
<1>1. 0 \in T
  <2> DEFINE g == [k \in a .. a + 0 |-> base]
  <2>1. g \in [a .. a + 0 -> D] /\ Until(a + 0, g)
    OBVIOUS
  <2> HIDE DEF g, Until
  <2> QED
    BY <2>1
<1>2. ASSUME NEW m \in T PROVE m + 1 \in T
  <2>1. PICK g \in [a .. a + m -> D] : Until(a + m, g)
    OBVIOUS
  <2> DEFINE b == a + m
             h == [k \in a .. b + 1 |-> IF k <= b THEN g[k] ELSE next[<<k, g[b]>>]]
  <2>2. b \in Nat /\ a <= b /\ b \in a .. b /\ b + 1 \in Nat /\ a + (m + 1) = b + 1 /\ m + 1 \in Nat
    OBVIOUS
  <2>3. g \in [a .. b -> D] /\ Until(b, g)
    BY <2>1
  <2> HIDE DEF b
  <2>4. next[<<b + 1, g[b]>>] \in D
    BY <2>2, <2>3
  <2>5. h \in [a .. b + 1 -> D]
    BY <2>2, <2>3, <2>4
  <2>6. h[a] = base
    BY <2>2, <2>3
  <2>7. ASSUME NEW k \in a + 1 .. b + 1 PROVE h[k] = next[<<k, h[k - 1]>>]
    <3>1. k \in a .. b + 1 /\ k - 1 \in a .. b + 1 /\ k - 1 <= b /\ k - 1 \in a .. b
      BY <2>2
    <3>2. h[k - 1] = g[k - 1]
      BY <3>1
    <3>3. CASE k <= b
      BY <2>2, <2>3, <3>1, <3>2, <3>3
    <3>4. CASE k = b + 1
      BY <2>2, <3>1, <3>2, <3>4
    <3> QED
      BY <2>2, <3>3, <3>4
  <2>8. Until(b + 1, h)
    BY <2>6, <2>7
  <2> HIDE DEF h, Until
  <2>9. \E e \in [a .. a + (m + 1) -> D] : Until(a + (m + 1), e)
    BY <2>2, <2>5, <2>8
  <2> QED
    BY <2>2, <2>9
<1>3. n - a \in T
  <2> HIDE DEF T
  <2>1. T \in SUBSET Nat
    BY DEF T
  <2> QED
    BY <1>1, <1>2, <2>1, AllNumbers
<1>4. a + (n - a) = n
  OBVIOUS
<1> QED
  BY <1>3, <1>4

\* What holds of the first value and passes from each to the next holds of the last.
LEMMA SeriesKeeps ==
  ASSUME NEW a \in Nat, NEW n \in Nat, a <= n, NEW D, NEW g, g[a] \in D[a],
         \A k \in a + 1 .. n : g[k - 1] \in D[k - 1] => g[k] \in D[k]
  PROVE  g[n] \in D[n]
<1> DEFINE T == {m \in Nat : a + m <= n => g[a + m] \in D[a + m]}
<1>1. 0 \in T
  <2>1. a + 0 = a
    OBVIOUS
  <2> QED
    BY <2>1
<1>2. ASSUME NEW m \in T PROVE m + 1 \in T
  <2> SUFFICES ASSUME a + (m + 1) <= n PROVE g[a + (m + 1)] \in D[a + (m + 1)]
    OBVIOUS
  <2> DEFINE k == a + (m + 1)
  <2>1. k \in a + 1 .. n /\ k - 1 = a + m /\ a + m <= n
    OBVIOUS
  <2> HIDE DEF k
  <2>2. g[k - 1] \in D[k - 1]
    BY <2>1
  <2>3. g[k] \in D[k]
    BY <2>1, <2>2
  <2> QED
    BY <2>3 DEF k
<1>3. n - a \in T
  <2> HIDE DEF T
  <2>1. T \in SUBSET Nat
    BY DEF T
  <2> QED
    BY <1>1, <1>2, <2>1, AllNumbers
<1>4. a + (n - a) = n
  OBVIOUS
<1> QED
  BY <1>3, <1>4
-----------------------------------------------------------------------------
(* The exponential.                                                        *)

Steps == [term : Nat, sum : Nat]

ExpNext(prev, k, x) ==
  [term |-> fp_mul(prev.term, x) \div k, sum |-> prev.sum + fp_mul(prev.term, x) \div k]

ExpSeries(g, x) ==
  g = [k \in 0 .. MaxTerms |->
         IF k = 0 THEN [term |-> FP_SCALE, sum |-> FP_SCALE] ELSE ExpNext(g[k - 1], k, x)]

LEMMA ExpIsChosen ==
  ASSUME NEW x
  PROVE  exp_fp(x) = (CHOOSE g : ExpSeries(g, x))[MaxTerms].sum
BY DEF exp_fp, ExpSeries, ExpNext

LEMMA ExpNextIsNat ==
  ASSUME NEW x \in Nat, NEW k \in Nat \ {0}, NEW prev \in Steps
  PROVE  ExpNext(prev, k, x) \in Steps /\ ExpNext(prev, k, x).sum >= prev.sum
<1>1. fp_mul(prev.term, x) \in Nat
  BY FixedProduct DEF Steps
<1>2. fp_mul(prev.term, x) \div k \in Nat
  BY <1>1, DivisionBounds
<1> QED
  BY <1>2 DEF ExpNext, Steps

LEMMA ExpSeriesExists ==
  ASSUME NEW x \in Nat
  PROVE  \E g : ExpSeries(g, x)
<1> DEFINE one == [term |-> FP_SCALE, sum |-> FP_SCALE]
           next == [p \in Nat \X Steps |-> IF p[1] = 0 THEN one ELSE ExpNext(p[2], p[1], x)]
<1>1. one \in Steps
  BY Scales DEF Steps
<1>2. ASSUME NEW p \in Nat \X Steps PROVE next[p] \in Steps
  BY <1>1, ExpNextIsNat
<1>3. next \in [Nat \X Steps -> Steps]
  BY <1>2
<1>4. ASSUME NEW k \in Nat \ {0}, NEW prev \in Steps PROVE next[<<k, prev>>] = ExpNext(prev, k, x)
  OBVIOUS
<1> HIDE DEF next, one
<1>5. PICK g \in [0 .. MaxTerms -> Steps] : Chain(g, 0, MaxTerms, one, next)
  <2>1. 0 \in Nat /\ MaxTerms \in Nat /\ 0 <= MaxTerms
    BY Scales
  <2> QED
    BY ONLY <1>1, <1>3, <2>1, SeriesExists
<1>6. ASSUME NEW k \in 0 .. MaxTerms, k # 0 PROVE g[k] = ExpNext(g[k - 1], k, x)
  <2>1. k \in Nat \ {0} /\ k \in 0 + 1 .. MaxTerms /\ k - 1 \in 0 .. MaxTerms
    BY <1>6, Scales
  <2> QED
    BY <1>4, <1>5, <2>1 DEF Chain
<1>7. ExpSeries(g, x)
  BY <1>5, <1>6 DEF Chain, ExpSeries, one
<1> QED
  BY <1>7

\* The sum begins with one, and no term is negative.
LEMMA ExpAtLeastOne ==
  ASSUME NEW x \in Nat
  PROVE  exp_fp(x) \in Nat /\ exp_fp(x) >= FP_SCALE
<1> DEFINE g == CHOOSE g : ExpSeries(g, x)
           D == [k \in 0 .. MaxTerms |-> {s \in Steps : s.sum >= FP_SCALE}]
<1>1. ExpSeries(g, x)
  BY ExpSeriesExists
<1> HIDE DEF g
<1>2. g[0] \in D[0]
  BY <1>1, Scales DEF ExpSeries, Steps
<1>3. ASSUME NEW k \in 0 + 1 .. MaxTerms, g[k - 1] \in D[k - 1] PROVE g[k] \in D[k]
  <2>1. k \in Nat \ {0} /\ k \in 0 .. MaxTerms /\ k - 1 \in 0 .. MaxTerms
    BY Scales
  <2>2. g[k - 1] \in Steps /\ g[k - 1].sum >= FP_SCALE
    BY <1>3, <2>1
  <2>3. g[k] = ExpNext(g[k - 1], k, x)
    BY <1>1, <2>1 DEF ExpSeries
  <2>4. g[k] \in Steps /\ g[k].sum >= g[k - 1].sum
    BY <2>1, <2>2, <2>3, ExpNextIsNat
  <2>5. g[k].sum >= FP_SCALE
    BY <2>2, <2>4, Scales DEF Steps
  <2> QED
    BY <2>1, <2>4, <2>5
<1>4. g[MaxTerms] \in D[MaxTerms]
  <2> HIDE DEF D
  <2> QED
    BY <1>2, <1>3, SeriesKeeps, Scales
<1>5. g[MaxTerms] \in Steps /\ g[MaxTerms].sum >= FP_SCALE
  BY <1>4, Scales
<1> QED
  BY <1>5, ExpIsChosen DEF Steps, g

\* Term by term: what is greater stays greater.
LEMMA ExpGrows ==
  ASSUME NEW x \in Nat, NEW y \in Nat, x <= y
  PROVE  exp_fp(x) <= exp_fp(y)
<1> DEFINE g == CHOOSE s : ExpSeries(s, x)
           e == CHOOSE s : ExpSeries(s, y)
           Below == {p \in Steps \X Steps : p[1].term <= p[2].term /\ p[1].sum <= p[2].sum}
           h == [k \in 0 .. MaxTerms |-> <<g[k], e[k]>>]
           D == [k \in 0 .. MaxTerms |-> Below]
<1>1. ExpSeries(g, x) /\ ExpSeries(e, y)
  BY ExpSeriesExists
<1> HIDE DEF g, e
<1>2. 0 \in 0 .. MaxTerms /\ MaxTerms \in 0 .. MaxTerms
  BY Scales
<1>3. h[0] \in D[0]
  <2>1. g[0] = [term |-> FP_SCALE, sum |-> FP_SCALE] /\ e[0] = [term |-> FP_SCALE, sum |-> FP_SCALE]
    BY <1>1, <1>2 DEF ExpSeries
  <2> QED
    BY <1>2, <2>1, Scales DEF Steps
<1>4. ASSUME NEW k \in 0 + 1 .. MaxTerms, h[k - 1] \in D[k - 1] PROVE h[k] \in D[k]
  <2>1. k \in Nat \ {0} /\ k \in 0 .. MaxTerms /\ k - 1 \in 0 .. MaxTerms
    BY Scales
  <2> DEFINE p == g[k - 1]
             q == e[k - 1]
  <2>2. /\ p \in Steps /\ q \in Steps /\ p.term <= q.term /\ p.sum <= q.sum
    BY <1>4, <2>1
  <2>3. g[k] = ExpNext(p, k, x) /\ e[k] = ExpNext(q, k, y)
    BY <1>1, <2>1 DEF ExpSeries
  <2> HIDE DEF p, q
  <2>4. /\ p.term \in Nat /\ q.term \in Nat /\ p.sum \in Nat /\ q.sum \in Nat
    BY <2>2 DEF Steps
  <2> DEFINE a == fp_mul(p.term, x) \div k
             b == fp_mul(q.term, y) \div k
  <2>5. a \in Nat /\ b \in Nat /\ a <= b
    <3>1. fp_mul(p.term, x) \in Nat /\ fp_mul(q.term, y) \in Nat
          /\ fp_mul(p.term, x) <= fp_mul(q.term, y)
      BY <2>2, <2>4, FixedProductGrows
    <3> QED
      BY <2>1, <3>1, DivisionBounds, DivisionGrows
  <2>6. g[k] = [term |-> a, sum |-> p.sum + a] /\ e[k] = [term |-> b, sum |-> q.sum + b]
    BY <2>3 DEF ExpNext
  <2> HIDE DEF a, b
  <2>7. /\ g[k] \in Steps /\ e[k] \in Steps
        /\ g[k].term <= e[k].term /\ g[k].sum <= e[k].sum
    BY <2>2, <2>4, <2>5, <2>6 DEF Steps
  <2> QED
    BY <2>1, <2>7
<1>5. h[MaxTerms] \in D[MaxTerms]
  <2> HIDE DEF D, h
  <2> QED
    BY <1>3, <1>4, SeriesKeeps, Scales
<1>6. g[MaxTerms].sum <= e[MaxTerms].sum
  BY <1>2, <1>5
<1> QED
  BY <1>6, ExpIsChosen DEF g, e
-----------------------------------------------------------------------------
(* The logarithm.                                                          *)

LogSteps == [power : 0 .. FP_SCALE, sum : Int]

LogSign(k, alternating) == IF alternating THEN SignInCode(k) ELSE 1

LogNext(prev, k, u, alternating) ==
  [power |-> fp_mul(prev.power, u),
   sum   |-> prev.sum + LogSign(k, alternating) * (fp_mul(prev.power, u) \div k)]

LogValues(g, u, alternating) ==
  g = [k \in 1 .. MaxTerms |->
         IF k = 1 THEN [power |-> u, sum |-> u] ELSE LogNext(g[k - 1], k, u, alternating)]

LEMMA LogIsChosen ==
  ASSUME NEW u, NEW alternating
  PROVE  LogSeries(u, alternating) = (CHOOSE g : LogValues(g, u, alternating))[MaxTerms].sum
BY DEF LogSeries, LogValues, LogNext, LogSign

LEMMA SignIsUnit ==
  ASSUME NEW k \in Nat, NEW alternating \in BOOLEAN
  PROVE  LogSign(k, alternating) \in {1, -1}
BY DEF LogSign, SignInCode

\* A power of a number up to one is no more than the one before it, so neither is a term.
LEMMA PowersShrink ==
  ASSUME NEW p \in 0 .. FP_SCALE, NEW u \in 0 .. FP_SCALE
  PROVE  fp_mul(p, u) \in 0 .. FP_SCALE /\ fp_mul(p, u) <= p
<1>1. p \in Nat /\ u \in Nat /\ FP_SCALE \in Nat \ {0}
  BY Scales
<1>2. p * u \in Nat /\ p * u <= p * FP_SCALE
  BY <1>1, ProductGrows
<1>3. fp_mul(p, u) \in Nat /\ FP_SCALE * fp_mul(p, u) <= p * u
  BY <1>1, <1>2, DivisionBounds DEF fp_mul
<1>4. fp_mul(p, u) <= p
  <2> DEFINE q == fp_mul(p, u)
  <2> HIDE DEF q
  <2> SUFFICES ASSUME q > p PROVE FALSE
    BY <1>1, <1>3 DEF q
  <2>1. q \in Nat /\ p + 1 <= q
    BY <1>1, <1>3 DEF q
  <2>2. FP_SCALE * (p + 1) <= FP_SCALE * q
    BY <1>1, <2>1, ProductGrows
  <2>3. FP_SCALE * (p + 1) = p * FP_SCALE + FP_SCALE /\ p * FP_SCALE \in Nat
    BY <1>1
  <2>4. FP_SCALE * q <= p * FP_SCALE /\ FP_SCALE * q \in Nat
    BY <1>1, <1>2, <1>3, <2>1, ProductIsNat DEF q
  <2> QED
    BY <1>1, <2>2, <2>3, <2>4
<1> QED
  BY <1>1, <1>3, <1>4

LEMMA TermsShrink ==
  ASSUME NEW p \in Nat, NEW q \in Nat, q <= p, NEW k \in Nat \ {0}
  PROVE  p \div k \in Nat /\ q \div (k + 1) \in Nat /\ q \div (k + 1) <= p \div k
<1>1. q \div k <= p \div k /\ p \div k \in Nat /\ q \div k \in Nat
  BY DivisionGrows, DivisionBounds
<1> DEFINE s == q \div (k + 1)
           r == q \div k
<1>2. s \in Nat /\ r \in Nat /\ (k + 1) * s <= q /\ q < k * r + k
  BY DivisionBounds
<1> HIDE DEF s, r
<1>3. s <= r
  <2> SUFFICES ASSUME r + 1 <= s PROVE FALSE
    BY <1>2
  <2>1. k * (r + 1) <= k * s /\ k * s \in Nat
    BY <1>2, ProductGrows
  <2>2. (k + 1) * s = k * s + s /\ k * (r + 1) = k * r + k /\ k * r \in Nat
    BY <1>2
  <2> QED
    BY <1>2, <2>1, <2>2
<1> QED
  BY <1>1, <1>2, <1>3 DEF s, r

LEMMA LogNextIsStep ==
  ASSUME NEW u \in 0 .. FP_SCALE, NEW alternating \in BOOLEAN, NEW k \in Nat \ {0},
         NEW prev \in LogSteps
  PROVE  LogNext(prev, k, u, alternating) \in LogSteps
<1>1. fp_mul(prev.power, u) \in 0 .. FP_SCALE
  BY PowersShrink DEF LogSteps
<1>2. fp_mul(prev.power, u) \in Nat
  BY <1>1, Scales
<1>3. fp_mul(prev.power, u) \div k \in Nat
  BY <1>2, DivisionBounds
<1>4. LogSign(k, alternating) * (fp_mul(prev.power, u) \div k) \in Int
  <2> DEFINE term == fp_mul(prev.power, u) \div k
  <2> HIDE DEF term
  <2>1. LogSign(k, alternating) \in {1, -1} /\ term \in Nat
    BY <1>3, SignIsUnit DEF term
  <2>2. LogSign(k, alternating) * term \in Int
    BY <2>1
  <2> QED
    BY <2>2 DEF term
<1> QED
  BY <1>1, <1>4 DEF LogNext, LogSteps

LEMMA LogValuesExist ==
  ASSUME NEW u \in 0 .. FP_SCALE, NEW alternating \in BOOLEAN
  PROVE  \E g : LogValues(g, u, alternating)
<1> DEFINE first == [power |-> u, sum |-> u]
           next == [p \in Nat \X LogSteps |->
                      IF p[1] = 0 THEN first ELSE LogNext(p[2], p[1], u, alternating)]
<1>1. first \in LogSteps
  BY Scales DEF LogSteps
<1>2. ASSUME NEW p \in Nat \X LogSteps PROVE next[p] \in LogSteps
  BY <1>1, LogNextIsStep
<1>3. next \in [Nat \X LogSteps -> LogSteps]
  BY <1>2
<1>4. ASSUME NEW k \in Nat \ {0}, NEW prev \in LogSteps
      PROVE  next[<<k, prev>>] = LogNext(prev, k, u, alternating)
  OBVIOUS
<1> HIDE DEF next, first
<1>5. PICK g \in [1 .. MaxTerms -> LogSteps] : Chain(g, 1, MaxTerms, first, next)
  <2>1. 1 \in Nat /\ MaxTerms \in Nat /\ 1 <= MaxTerms
    BY Scales
  <2> QED
    BY ONLY <1>1, <1>3, <2>1, SeriesExists
<1>6. ASSUME NEW k \in 1 .. MaxTerms, k # 1 PROVE g[k] = LogNext(g[k - 1], k, u, alternating)
  <2>1. k \in Nat \ {0} /\ k \in 1 + 1 .. MaxTerms /\ k - 1 \in 1 .. MaxTerms
    BY <1>6, Scales
  <2> QED
    BY <1>4, <1>5, <2>1 DEF Chain
<1>7. LogValues(g, u, alternating)
  BY <1>5, <1>6 DEF Chain, LogValues, first
<1> QED
  BY <1>7

\* What a partial sum of k terms keeps.  An alternating sum that has just been raised can
\* take the next term back.
PartialSum(s, k, alternating) ==
  /\ s \in LogSteps
  /\ s.sum >= 0
  /\ alternating /\ k % 2 = 0 => s.sum >= s.power \div k

LEMMA PartialSumKept ==
  ASSUME NEW u \in 0 .. FP_SCALE, NEW alternating \in BOOLEAN, NEW j \in Nat \ {0},
         NEW prev, PartialSum(prev, j, alternating)
  PROVE  PartialSum(LogNext(prev, j + 1, u, alternating), j + 1, alternating)
<1> DEFINE k == j + 1
           s == LogNext(prev, k, u, alternating)
           t == s.power \div k
           was == prev.power \div j
<1>1. prev \in LogSteps /\ prev.sum \in Int /\ prev.sum >= 0 /\ prev.power \in 0 .. FP_SCALE
  BY DEF PartialSum, LogSteps
<1>2. k \in Nat \ {0} /\ s \in LogSteps
  BY <1>1, LogNextIsStep
<1>3. s.power = fp_mul(prev.power, u)
      /\ s.sum = prev.sum + LogSign(k, alternating) * (fp_mul(prev.power, u) \div k)
  BY DEF LogNext
<1>4. s.power \in Nat /\ s.power <= prev.power /\ prev.power \in Nat
  <2>1. fp_mul(prev.power, u) \in 0 .. FP_SCALE /\ fp_mul(prev.power, u) <= prev.power
    BY <1>1, PowersShrink
  <2> HIDE DEF s
  <2> QED
    BY <1>1, <1>3, <2>1, Scales
<1>5. t \in Nat /\ was \in Nat /\ t <= was
  BY <1>4, TermsShrink
<1>6. s.sum = prev.sum + LogSign(k, alternating) * t
  BY <1>3
<1>7. j % 2 = 0 \/ k % 2 = 0
  OBVIOUS
<1>8. alternating /\ j % 2 = 0 => prev.sum >= was
  BY DEF PartialSum
<1> HIDE DEF k, s, t, was
<1>9. CASE ~alternating
  <2>1. LogSign(k, alternating) = 1
    BY <1>9 DEF LogSign
  <2>2. s.sum = prev.sum + t
    BY <1>1, <1>5, <1>6, <2>1
  <2> QED
    BY <1>1, <1>2, <1>5, <1>9, <2>2 DEF PartialSum, k, s
<1>10. CASE alternating /\ k % 2 = 0
  <2>1. LogSign(k, alternating) = 1
    BY <1>10 DEF LogSign, SignInCode
  <2>2. s.sum = prev.sum + t
    BY <1>1, <1>5, <1>6, <2>1
  <2>3. s.sum >= t /\ s.sum >= 0
    BY <1>1, <1>5, <2>2
  <2> QED
    BY <1>2, <2>3 DEF PartialSum, k, s, t
<1>11. CASE alternating /\ k % 2 # 0
  <2>1. LogSign(k, alternating) = -1
    BY <1>11 DEF LogSign, SignInCode
  <2>2. s.sum = prev.sum - t
    BY <1>1, <1>5, <1>6, <2>1
  <2>3. prev.sum >= was
    BY <1>7, <1>8, <1>11
  <2>4. s.sum >= 0
    BY <1>1, <1>5, <2>2, <2>3
  <2> QED
    BY <1>2, <1>11, <2>4 DEF PartialSum, k, s
<1> QED
  BY <1>9, <1>10, <1>11

\* With either signs the sum is never negative.
LEMMA LogSeriesIsNat ==
  ASSUME NEW u \in 0 .. FP_SCALE, NEW alternating \in BOOLEAN
  PROVE  LogSeries(u, alternating) \in Nat
<1> DEFINE g == CHOOSE g : LogValues(g, u, alternating)
           D == [k \in 1 .. MaxTerms |-> {s \in LogSteps : PartialSum(s, k, alternating)}]
<1>1. LogValues(g, u, alternating)
  BY LogValuesExist
<1> HIDE DEF g
<1>2. 1 \in 1 .. MaxTerms /\ MaxTerms \in 1 .. MaxTerms
  BY Scales
<1>3. g[1] \in D[1]
  <2>1. g[1] = [power |-> u, sum |-> u]
    BY <1>1, <1>2 DEF LogValues
  <2>2. PartialSum(g[1], 1, alternating)
    BY <2>1, Scales DEF PartialSum, LogSteps
  <2> QED
    BY <1>2, <2>2 DEF PartialSum
<1>4. ASSUME NEW k \in 1 + 1 .. MaxTerms, g[k - 1] \in D[k - 1] PROVE g[k] \in D[k]
  <2> DEFINE j == k - 1
  <2>1. j \in Nat \ {0} /\ j + 1 = k /\ k \in 1 .. MaxTerms /\ j \in 1 .. MaxTerms /\ k # 1
    BY Scales
  <2>2. PartialSum(g[j], j, alternating)
    BY <1>4, <2>1
  <2>3. g[k] = LogNext(g[j], k, u, alternating)
    BY <1>1, <2>1 DEF LogValues
  <2> HIDE DEF j, D
  <2>4. PartialSum(g[k], k, alternating)
    BY <2>1, <2>2, <2>3, PartialSumKept
  <2> QED
    BY <2>1, <2>4 DEF PartialSum, D
<1>5. g[MaxTerms] \in D[MaxTerms]
  <2> HIDE DEF D
  <2> QED
    BY <1>3, <1>4, SeriesKeeps, Scales
<1>6. g[MaxTerms].sum \in Nat
  BY <1>2, <1>5 DEF PartialSum, LogSteps
<1> QED
  BY <1>6, LogIsChosen DEF g

LEMMA LogIsNat ==
  ASSUME NEW u \in 0 .. FP_SCALE
  PROVE  log10_1p_fp(u) \in Nat
<1>1. ln_1p_fp(u) \in Nat
  <2>1. CASE u < FP_SCALE \div 2
    BY <2>1, LogSeriesIsNat DEF ln_1p_fp
  <2>2. CASE ~(u < FP_SCALE \div 2)
    <3> DEFINE v == (FP_SCALE - u) \div 2
               sum == LogSeries(v, FALSE)
    <3>1. v \in 0 .. FP_SCALE
      BY Scales
    <3>2. sum \in Nat
      BY <3>1, LogSeriesIsNat
    <3>3. ln_1p_fp(u) = SaturatingSub(LN2_FP, sum)
      BY <2>2 DEF ln_1p_fp
    <3> HIDE DEF sum
    <3> QED
      BY <3>2, <3>3, Scales DEF SaturatingSub
  <2> QED
    BY <2>1, <2>2
<1>2. ln_1p_fp(u) * FP_SCALE \in Nat
  BY <1>1, ProductIsNat, Scales
<1> QED
  BY <1>2, DivisionBounds, Scales DEF log10_1p_fp
-----------------------------------------------------------------------------
(* The price of one SRC.                                                   *)

\* A part of a whole, scaled, is at most the scale.
LEMMA ShareIsPart ==
  ASSUME NEW device \in Nat, NEW network \in Nat, network # 0
  PROVE  DeviceShare(device, network) \in 0 .. FP_SCALE
<1>1. CASE device >= network
  BY <1>1, Scales DEF DeviceShare
<1>2. CASE device < network
  <2> DEFINE q == (device * FP_SCALE) \div network
  <2>1. device * FP_SCALE \in Nat /\ FP_SCALE * device <= FP_SCALE * network
    BY <1>2, ProductGrows, ProductIsNat, Scales
  <2>2. q \in Nat /\ network * q <= device * FP_SCALE
    BY <2>1, DivisionBounds
  <2>3. DeviceShare(device, network) = q
    BY <1>2 DEF DeviceShare
  <2> HIDE DEF q
  <2>4. network * q <= network * FP_SCALE /\ network * FP_SCALE \in Nat /\ network * q \in Nat
    BY <2>1, <2>2, Scales
  <2>5. q <= FP_SCALE
    <3> SUFFICES ASSUME FP_SCALE + 1 <= q PROVE FALSE
      BY <2>2, Scales
    <3>1. network * (FP_SCALE + 1) <= network * q
      BY <2>2, ProductGrows, Scales
    <3>2. network * (FP_SCALE + 1) = network * FP_SCALE + network
      BY Scales
    <3> QED
      BY <2>4, <3>1, <3>2
  <2> QED
    BY <2>2, <2>3, <2>5, Scales
<1> QED
  BY <1>1, <1>2

LEMMA MultiplierAtLeastOne ==
  ASSUME NEW device \in Nat, NEW network \in Nat
  PROVE  /\ device_difficulty_multiplier(device, network) \in Nat
         /\ device_difficulty_multiplier(device, network) >= FP_SCALE
<1>1. CASE network = 0
  BY <1>1, Scales DEF device_difficulty_multiplier
<1>2. CASE network # 0
  <2>1. log10_1p_fp(DeviceShare(device, network)) \in Nat
    BY <1>2, ShareIsPart, LogIsNat
  <2> QED
    BY <1>2, <2>1, Scales DEF device_difficulty_multiplier
<1> QED
  BY <1>1, <1>2

LEMMA ScaledByAtLeastOne ==
  ASSUME NEW a \in Nat, NEW m \in Nat, m >= FP_SCALE
  PROVE  (a * m) \div FP_SCALE \in Nat /\ (a * m) \div FP_SCALE >= a
<1> DEFINE q == (a * m) \div FP_SCALE
<1>1. FP_SCALE \in Nat \ {0} /\ a * m \in Nat
  BY Scales, ProductIsNat
<1>2. q \in Nat /\ a * m < FP_SCALE * q + FP_SCALE
  BY <1>1, DivisionBounds
<1>3. a * FP_SCALE <= a * m /\ a * FP_SCALE \in Nat
  BY <1>1, ProductGrows
<1> HIDE DEF q
<1>4. a <= q
  <2> SUFFICES ASSUME q + 1 <= a PROVE FALSE
    BY <1>2
  <2>1. FP_SCALE * (q + 1) <= FP_SCALE * a
    BY <1>1, <1>2, ProductGrows
  <2>2. FP_SCALE * (q + 1) = FP_SCALE * q + FP_SCALE /\ FP_SCALE * a = a * FP_SCALE
        /\ FP_SCALE * q \in Nat
    BY <1>1, <1>2
  <2> QED
    BY <1>1, <1>2, <1>3, <2>1, <2>2
<1> QED
  BY <1>2, <1>4 DEF q

\* One SRC never costs less than at genesis (math.rs), whatever was emitted.
LEMMA PriceAtLeastPeg ==
  ASSUME NEW total_supply \in Nat
  PROVE  /\ energy_per_src(total_supply) \in Nat
         /\ energy_per_src(total_supply) >= INITIAL_ENERGY_PER_SRC
<1>1. emission_share(total_supply) \in Nat
  BY ProductIsNat, DivisionBounds, Scales DEF emission_share
<1>2. fp_mul(emission_share(total_supply), LN10_FP) \in Nat
  BY <1>1, FixedProduct, Scales
<1>3. emission_difficulty(total_supply) \in Nat /\ emission_difficulty(total_supply) >= FP_SCALE
  BY <1>2, ExpAtLeastOne DEF emission_difficulty
<1> QED
  BY <1>3, ScaledByAtLeastOne, Scales DEF energy_per_src

\* What the cut to an u64 leaves of a number.
LEMMA Cut ==
  ASSUME NEW n \in Nat
  PROVE  n % WORD \in Nat /\ n % WORD <= n /\ n % WORD < WORD /\ (n < WORD => n % WORD = n)
<1>1. WORD \in Nat \ {0}
  BY Scales
<1> DEFINE q == n \div WORD
<1>2. q \in Nat /\ n = WORD * q + (n % WORD) /\ n % WORD \in 0 .. WORD - 1
  BY <1>1
<1> HIDE DEF q
<1>3. WORD * q \in Nat /\ (q # 0 => WORD * q >= WORD)
  <2>1. q # 0 => WORD * 1 <= WORD * q
    BY <1>1, <1>2, ProductGrows
  <2> QED
    BY <1>1, <1>2, <2>1
<1>4. q = 0 => WORD * q = 0
  BY <1>1
<1> QED
  BY <1>1, <1>2, <1>3, <1>4

LEMMA RewardBelowPrice ==
  ASSUME NEW energy \in Nat, NEW per_src \in Nat, per_src >= INITIAL_ENERGY_PER_SRC
  PROVE  /\ reward_for_energy(energy, per_src) \in Nat
         /\ reward_for_energy(energy, per_src) * INITIAL_ENERGY_PER_SRC <= energy * SRC_BASIS
<1> DEFINE whole  == (energy * SRC_BASIS) \div per_src
           reward == whole % WORD
<1>1. per_src \in Nat \ {0} /\ INITIAL_ENERGY_PER_SRC \in Nat /\ energy * SRC_BASIS \in Nat
  BY Scales, ProductIsNat
<1>2. reward \in Nat /\ per_src * reward <= energy * SRC_BASIS
  <2>1. whole \in Nat /\ per_src * whole <= energy * SRC_BASIS
    BY <1>1, DivisionBounds
  <2> HIDE DEF whole
  <2>2. reward \in Nat /\ reward <= whole
    BY <2>1, Cut
  <2> HIDE DEF reward
  <2>3. per_src * reward \in Nat /\ per_src * reward <= per_src * whole
    BY <1>1, <2>1, <2>2, ProductGrows
  <2> QED
    BY <1>1, <2>1, <2>2, <2>3
<1>3. reward_for_energy(energy, per_src) = reward
  BY <1>1 DEF reward_for_energy
<1> HIDE DEF reward
<1>4. reward * INITIAL_ENERGY_PER_SRC <= reward * per_src
      /\ reward * INITIAL_ENERGY_PER_SRC \in Nat
  BY <1>1, <1>2, ProductGrows
<1>5. reward * per_src = per_src * reward /\ reward * per_src \in Nat
  BY <1>1, <1>2
<1> QED
  BY <1>1, <1>2, <1>3, <1>4, <1>5

\* The peg (math.rs): for every scale, supply and share of the network, a report is never
\* paid more atoms than its energy was worth at genesis.
THEOREM RewardBelowPeg ==
  ASSUME NEW energy \in Nat, NEW total_supply \in Nat, NEW device \in Nat, NEW network \in Nat
  PROVE  /\ calculate_reward_dynamic(energy, total_supply, device, network) \in Nat
         /\ calculate_reward_dynamic(energy, total_supply, device, network)
              * INITIAL_ENERGY_PER_SRC <= energy * SRC_BASIS
<1> DEFINE per_src == effective_energy_per_src(total_supply, device, network)
<1>1. /\ energy_per_src(total_supply) \in Nat
      /\ energy_per_src(total_supply) >= INITIAL_ENERGY_PER_SRC
  BY PriceAtLeastPeg
<1>2. per_src \in Nat /\ per_src >= energy_per_src(total_supply)
  BY <1>1, MultiplierAtLeastOne, ScaledByAtLeastOne DEF effective_energy_per_src
<1> HIDE DEF per_src
<1>3. per_src >= INITIAL_ENERGY_PER_SRC
  BY <1>1, <1>2, Scales
<1> QED
  BY <1>2, <1>3, RewardBelowPrice DEF calculate_reward_dynamic, per_src

\* No emission ever makes the next SRC cheaper (math.rs), for every supply and every number
\* of terms.
THEOREM PriceNeverFalls ==
  ASSUME NEW before \in Nat, NEW after \in Nat, before <= after
  PROVE  /\ energy_per_src(before) <= energy_per_src(after)
         /\ INITIAL_ENERGY_PER_SRC <= energy_per_src(before)
<1> DEFINE s == emission_share(before)
           t == emission_share(after)
<1>1. s \in Nat /\ t \in Nat /\ s <= t
  <2>1. before * FP_SCALE \in Nat /\ after * FP_SCALE \in Nat
        /\ before * FP_SCALE <= after * FP_SCALE
    <3>1. FP_SCALE * before <= FP_SCALE * after
      BY ProductGrows, Scales
    <3> QED
      BY <3>1, ProductIsNat, Scales
  <2> QED
    BY <2>1, DivisionBounds, DivisionGrows, Scales DEF emission_share
<1> HIDE DEF s, t
<1> DEFINE x == fp_mul(s, LN10_FP)
           y == fp_mul(t, LN10_FP)
<1>2. x \in Nat /\ y \in Nat /\ x <= y
  BY <1>1, FixedProductGrows, Scales
<1> HIDE DEF x, y
<1> DEFINE d == exp_fp(x)
           f == exp_fp(y)
<1>3. d \in Nat /\ f \in Nat /\ d <= f
  BY <1>2, ExpAtLeastOne, ExpGrows
<1>4. d = emission_difficulty(before) /\ f = emission_difficulty(after)
  BY DEF emission_difficulty, s, t, x, y
<1> HIDE DEF d, f
<1>5. /\ INITIAL_ENERGY_PER_SRC * d \in Nat /\ INITIAL_ENERGY_PER_SRC * f \in Nat
      /\ INITIAL_ENERGY_PER_SRC * d <= INITIAL_ENERGY_PER_SRC * f
  BY <1>3, ProductGrows, Scales
<1> QED
  BY <1>4, <1>5, DivisionGrows, PriceAtLeastPeg, Scales DEF energy_per_src

\* A report that is cut in two is never paid more than in one piece, at whatever price, while
\* the reward of the whole fits an u64.
THEOREM CuttingNeverPays ==
  ASSUME NEW a \in Nat, NEW b \in Nat, NEW per_src \in Nat,
         ((a + b) * SRC_BASIS) \div per_src < WORD
  PROVE  reward_for_energy(a, per_src) + reward_for_energy(b, per_src)
           <= reward_for_energy(a + b, per_src)
<1>1. CASE per_src = 0
  BY <1>1 DEF reward_for_energy
<1>2. CASE per_src # 0
  <2> DEFINE m == a * SRC_BASIS
             n == b * SRC_BASIS
             p == m \div per_src
             q == n \div per_src
             r == (m + n) \div per_src
  <2>1. m \in Nat /\ n \in Nat /\ (a + b) * SRC_BASIS = m + n
    BY ProductIsNat, Scales
  <2>2. /\ reward_for_energy(a, per_src) = p % WORD /\ reward_for_energy(b, per_src) = q % WORD
        /\ reward_for_energy(a + b, per_src) = r % WORD /\ r < WORD
    BY <1>2, <2>1 DEF reward_for_energy
  <2> HIDE DEF m, n
  <2>3. per_src \in Nat \ {0} /\ m + n \in Nat
    BY <1>2, <2>1
  <2>4. /\ p \in Nat /\ per_src * p <= m
        /\ q \in Nat /\ per_src * q <= n
        /\ r \in Nat /\ m + n < per_src * r + per_src
    BY <2>1, <2>3, DivisionBounds
  <2> HIDE DEF p, q, r
  <2>5. p + q <= r
    <3> SUFFICES ASSUME r + 1 <= p + q PROVE FALSE
      BY <2>4
    <3>1. per_src * (r + 1) <= per_src * (p + q)
      BY <2>3, <2>4, ProductGrows
    <3>2. per_src * (r + 1) = per_src * r + per_src /\ per_src * (p + q) = per_src * p + per_src * q
      BY <2>3, <2>4
    <3>3. per_src * r \in Nat /\ per_src * p \in Nat /\ per_src * q \in Nat
      BY <2>3, <2>4
    <3> QED
      BY <2>1, <2>4, <3>1, <3>2, <3>3
  <2>6. p % WORD = p /\ q % WORD = q /\ r % WORD = r
    <3>1. p < WORD /\ q < WORD /\ r < WORD
      BY <2>2, <2>4, <2>5, Scales
    <3> QED
      BY <2>4, <3>1, Cut
  <2> QED
    BY <2>2, <2>5, <2>6
<1> QED
  BY <1>1, <1>2

\* From the genesis peg: what costs at least as much as at genesis pays less than an u64 holds.
LEMMA RewardFits ==
  ASSUME NEW energy \in Nat, NEW per_src \in Nat, per_src >= INITIAL_ENERGY_PER_SRC,
         energy * SRC_BASIS < WORD * INITIAL_ENERGY_PER_SRC
  PROVE  (energy * SRC_BASIS) \div per_src < WORD
<1> DEFINE r == (energy * SRC_BASIS) \div per_src
           I == INITIAL_ENERGY_PER_SRC
<1>1. per_src \in Nat \ {0} /\ I \in Nat /\ energy * SRC_BASIS \in Nat /\ WORD \in Nat
  BY Scales, ProductIsNat
<1>2. r \in Nat /\ per_src * r <= energy * SRC_BASIS
  BY <1>1, DivisionBounds
<1> HIDE DEF r
<1>3. r < WORD
  <2> SUFFICES ASSUME WORD <= r PROVE FALSE
    BY <1>1, <1>2
  <2>1. I * WORD <= I * r /\ I * WORD \in Nat /\ I * r \in Nat
    BY <1>1, <1>2, ProductGrows
  <2>2. r * I <= r * per_src /\ r * I \in Nat /\ r * per_src \in Nat
    BY <1>1, <1>2, ProductGrows
  <2>3. r * I = I * r /\ r * per_src = per_src * r /\ WORD * I = I * WORD
    BY <1>1, <1>2
  <2> QED
    BY <1>1, <1>2, <2>1, <2>2, <2>3
<1> QED
  BY <1>3 DEF r
-----------------------------------------------------------------------------
(* The curve of EmissionCurve.                                             *)

\* What is divided by at least as much as it was multiplied with does not grow.
LEMMA PartOfScale ==
  ASSUME NEW part \in Nat, NEW whole \in Nat \ {0}, part <= whole, NEW k \in Nat
  PROVE  (part * k) \div whole \in 0 .. k
<1> DEFINE q == (part * k) \div whole
<1>1. part * k \in Nat /\ k * part <= k * whole /\ whole * k \in Nat
  BY ProductGrows, ProductIsNat
<1>2. q \in Nat /\ whole * q <= part * k
  BY <1>1, DivisionBounds
<1> HIDE DEF q
<1>3. q <= k
  <2> SUFFICES ASSUME k + 1 <= q PROVE FALSE
    BY <1>2
  <2>1. whole * (k + 1) <= whole * q
    BY <1>2, ProductGrows
  <2>2. whole * (k + 1) = whole * k + whole /\ k * part = part * k /\ k * whole = whole * k
        /\ whole * q \in Nat
    BY <1>2
  <2> QED
    BY <1>1, <1>2, <2>1, <2>2
<1> QED
  BY <1>2, <1>3 DEF q

LEMMA WholeOfScale ==
  ASSUME NEW whole \in Nat \ {0}, NEW k \in Nat
  PROVE  (whole * k) \div whole = k
<1> DEFINE q == (whole * k) \div whole
<1>1. q \in Nat /\ q <= k /\ whole * k < whole * q + whole
  BY PartOfScale, ProductIsNat, DivisionBounds
<1> HIDE DEF q
<1>2. whole * (q + 1) = whole * q + whole /\ whole * (q + 1) \in Nat /\ whole * k \in Nat
  BY <1>1
<1>3. k <= q
  <2> SUFFICES ASSUME q + 1 <= k PROVE FALSE
    BY <1>1
  <2>1. whole * (q + 1) <= whole * k
    BY <1>1, ProductGrows
  <2> QED
    BY <1>1, <1>2, <2>1
<1> QED
  BY <1>1, <1>3 DEF q

\* The argument of the exponential: ln(10) at the full supply, and never more.
LEMMA ExponentIsPart ==
  ASSUME NEW total_supply \in 0 .. MAX_SUPPLY_ATOMIC
  PROVE  /\ emission_share(total_supply) \in 0 .. FP_SCALE
         /\ fp_mul(emission_share(total_supply), LN10_FP) \in 0 .. LN10_FP
         /\ total_supply = MAX_SUPPLY_ATOMIC =>
              fp_mul(emission_share(total_supply), LN10_FP) = LN10_FP
<1>1. /\ total_supply \in Nat /\ total_supply <= MAX_SUPPLY_ATOMIC
      /\ MAX_SUPPLY_ATOMIC \in Nat \ {0} /\ FP_SCALE \in Nat \ {0} /\ LN10_FP \in Nat
  BY Scales
<1>2. emission_share(total_supply) \in 0 .. FP_SCALE
  BY <1>1, PartOfScale DEF emission_share
<1>3. fp_mul(emission_share(total_supply), LN10_FP) \in 0 .. LN10_FP
  BY <1>1, <1>2, PartOfScale DEF fp_mul
<1>4. ASSUME total_supply = MAX_SUPPLY_ATOMIC
      PROVE  fp_mul(emission_share(total_supply), LN10_FP) = LN10_FP
  <2>1. emission_share(total_supply) = FP_SCALE
    BY <1>1, <1>4, WholeOfScale DEF emission_share
  <2> QED
    BY <1>1, <2>1, WholeOfScale DEF fp_mul
<1> QED
  BY <1>2, <1>3, <1>4

LEMMA DifficultyBelowTop ==
  ASSUME NEW total_supply \in 0 .. MAX_SUPPLY_ATOMIC
  PROVE  /\ emission_difficulty(total_supply) \in Nat
         /\ emission_difficulty(total_supply) <= exp_fp(LN10_FP)
         /\ total_supply = MAX_SUPPLY_ATOMIC => emission_difficulty(total_supply) = exp_fp(LN10_FP)
<1> DEFINE x == fp_mul(emission_share(total_supply), LN10_FP)
<1>1. x \in Nat /\ x <= LN10_FP /\ LN10_FP \in Nat
  BY ExponentIsPart, Scales
<1>2. total_supply = MAX_SUPPLY_ATOMIC => x = LN10_FP
  BY ExponentIsPart
<1>3. emission_difficulty(total_supply) = exp_fp(x)
  BY DEF emission_difficulty
<1> HIDE DEF x
<1> QED
  BY <1>1, <1>2, <1>3, ExpAtLeastOne, ExpGrows

\* What the constants must be for the curve to end at ten: the series at ln(10) does not
\* pass it, and falls short of it by no more than the tolerance leaves beside the rounding of
\* the price.  In the code the series ends at 10 * FP_SCALE - 14.
Accurate ==
  /\ exp_fp(LN10_FP) <= 10 * FP_SCALE
  /\ 10 * FP_SCALE - exp_fp(LN10_FP) + FP_SCALE \div INITIAL_ENERGY_PER_SRC + 1 <= Tolerance

\* The price, scaled back, has lost no more than its rounding.
LEMMA PriceScaledBack ==
  ASSUME NEW d \in Nat
  PROVE  LET price == (INITIAL_ENERGY_PER_SRC * d) \div FP_SCALE
             r     == (price * FP_SCALE) \div INITIAL_ENERGY_PER_SRC
         IN  /\ price \in Nat /\ r \in Nat /\ r <= d
             /\ d - r <= FP_SCALE \div INITIAL_ENERGY_PER_SRC + 1
<1> DEFINE I == INITIAL_ENERGY_PER_SRC
           F == FP_SCALE
           price == (I * d) \div F
           r == (price * F) \div I
           c == F \div I
<1>1. I \in Nat \ {0} /\ F \in Nat \ {0}
  BY Scales
<1> HIDE DEF I, F
<1>2. I * d \in Nat
  BY <1>1, ProductIsNat
<1>3. price \in Nat /\ F * price <= I * d /\ I * d < F * price + F
  BY <1>1, <1>2, DivisionBounds
<1> HIDE DEF price
<1>4. price * F \in Nat /\ price * F = F * price
  BY <1>1, <1>3
<1>5. r \in Nat /\ I * r <= price * F /\ price * F < I * r + I
  BY <1>1, <1>4, DivisionBounds
<1>6. c \in Nat /\ F < I * c + I
  BY <1>1, DivisionBounds
<1> HIDE DEF r, c
<1>7. r <= d
  <2> SUFFICES ASSUME d + 1 <= r PROVE FALSE
    BY <1>5
  <2>1. I * (d + 1) <= I * r
    BY <1>1, <1>5, ProductGrows
  <2>2. I * (d + 1) = I * d + I /\ I * r \in Nat
    BY <1>1, <1>5
  <2> QED
    BY <1>1, <1>2, <1>3, <1>4, <1>5, <2>1, <2>2
<1>8. d <= r + c + 1
  <2> SUFFICES ASSUME r + c + 2 <= d PROVE FALSE
    BY <1>5, <1>6
  <2>1. I * (r + c + 2) <= I * d
    BY <1>1, <1>5, <1>6, ProductGrows
  <2>2. I * (r + c + 2) = I * r + I * c + I + I /\ I * r \in Nat /\ I * c \in Nat
    BY <1>1, <1>5, <1>6
  <2> QED
    BY <1>1, <1>2, <1>3, <1>4, <1>5, <1>6, <2>1, <2>2
<1> QED
  BY <1>3, <1>5, <1>6, <1>7, <1>8 DEF price, r, c, I, F

CurveRange == emitted \in 0 .. MAX_SUPPLY_ATOMIC /\ deviceWindow \in Nat /\ networkWindow \in Nat

LEMMA CurveStaysInRange == CurveSpec => []CurveRange
<1>1. CurveInit => CurveRange
  BY CurveAssumption, Scales DEF CurveInit, CurveRange
<1>2. CurveRange /\ [CurveNext]_curve => CurveRange'
  BY Scales DEF CurveRange, CurveNext, Emission, Production, curve
<1> QED
  BY <1>1, <1>2, PTL DEF CurveSpec

\* The whole curve, for every scale whose series is accurate: from the genesis price to ten
\* times it, which it reaches, without ever falling.
THEOREM DifficultyIsBounded ==
  ASSUME Accurate
  PROVE  CurveSpec => []DifficultyFollowsSupply
<1>1. ASSUME CurveRange PROVE DifficultyFollowsSupply
  <2> DEFINE d == emission_difficulty(emitted)
             price == energy_per_src(emitted)
             top == exp_fp(LN10_FP)
  <2>1. emitted \in 0 .. MAX_SUPPLY_ATOMIC /\ emitted \in Nat
    BY <1>1, Scales DEF CurveRange
  <2>2. d \in Nat /\ d <= top /\ (emitted = MAX_SUPPLY_ATOMIC => d = top)
    BY <2>1, DifficultyBelowTop
  <2>3. top \in Nat
    BY ExpAtLeastOne, Scales
  <2>4. price = (INITIAL_ENERGY_PER_SRC * d) \div FP_SCALE
    BY DEF energy_per_src
  <2>5. price \in Nat /\ price >= INITIAL_ENERGY_PER_SRC
    BY <2>1, PriceAtLeastPeg
  <2> DEFINE r == (price * FP_SCALE) \div INITIAL_ENERGY_PER_SRC
             c == FP_SCALE \div INITIAL_ENERGY_PER_SRC
  <2>6. r \in Nat /\ r <= d /\ d - r <= c + 1
    <3> HIDE DEF d
    <3> QED
      BY <2>2, <2>4, PriceScaledBack
  <2>7. top <= 10 * FP_SCALE /\ 10 * FP_SCALE - top + c + 1 <= Tolerance
    BY DEF Accurate
  <2>8. c \in Nat
    BY DivisionBounds, Scales
  <2> HIDE DEF d, price, top, r, c
  <2>9. price <= 10 * INITIAL_ENERGY_PER_SRC
    <3> DEFINE I == INITIAL_ENERGY_PER_SRC
    <3>1. I \in Nat /\ FP_SCALE \in Nat \ {0}
      BY Scales
    <3> HIDE DEF I
    <3>2. I * d <= I * (10 * FP_SCALE) /\ I * d \in Nat /\ I * (10 * FP_SCALE) \in Nat
      BY <2>2, <2>3, <2>7, <3>1, ProductGrows
    <3>3. I * (10 * FP_SCALE) = FP_SCALE * (10 * I)
      BY <3>1
    <3>4. (I * d) \div FP_SCALE <= (FP_SCALE * (10 * I)) \div FP_SCALE
      BY <3>1, <3>2, <3>3, DivisionGrows
    <3>5. (FP_SCALE * (10 * I)) \div FP_SCALE = 10 * I
      BY <3>1, WholeOfScale
    <3> QED
      BY <2>4, <3>4, <3>5 DEF I
  <2>10. ASSUME emitted = MAX_SUPPLY_ATOMIC PROVE Near(r, 10 * FP_SCALE)
    BY <2>2, <2>3, <2>6, <2>7, <2>8, <2>10, Scales, CurveAssumption DEF Near
  <2>11. ASSUME emitted > 0 PROVE price >= energy_per_src(emitted - 1)
    <3>1. emitted - 1 \in Nat /\ emitted - 1 <= emitted
      BY <2>1, <2>11
    <3>2. energy_per_src(emitted - 1) <= energy_per_src(emitted)
      BY <2>1, <3>1, PriceNeverFalls
    <3>3. energy_per_src(emitted - 1) \in Nat
      BY <3>1, PriceAtLeastPeg
    <3> QED
      BY <2>5, <3>2, <3>3 DEF price
  <2> QED
    BY <2>5, <2>9, <2>10, <2>11 DEF DifficultyFollowsSupply, price, r
<1> QED
  BY <1>1, CurveStaysInRange, PTL

\* The peg along the whole curve, and the reason not to cut reports.
THEOREM RewardsStayBelowPeg == CurveSpec => []RewardsNeverExceedPeg
<1>1. ASSUME CurveRange PROVE RewardsNeverExceedPeg
  <2>1. emitted \in Nat /\ deviceWindow \in Nat /\ networkWindow \in Nat
    BY <1>1, Scales DEF CurveRange
  <2> DEFINE per_src == effective_energy_per_src(emitted, deviceWindow, networkWindow)
  <2>2. per_src \in Nat /\ per_src >= INITIAL_ENERGY_PER_SRC
    <3>1. /\ energy_per_src(emitted) \in Nat
          /\ energy_per_src(emitted) >= INITIAL_ENERGY_PER_SRC
      BY <2>1, PriceAtLeastPeg
    <3>2. per_src \in Nat /\ per_src >= energy_per_src(emitted)
      BY <2>1, <3>1, MultiplierAtLeastOne, ScaledByAtLeastOne DEF effective_energy_per_src
    <3> HIDE DEF per_src
    <3> QED
      BY <3>1, <3>2, Scales
  <2> HIDE DEF per_src
  <2>3. ASSUME NEW a \in Energies, NEW b \in Energies
        PROVE  LET paid(e) == calculate_reward_dynamic(e, emitted, deviceWindow, networkWindow)
               IN  /\ paid(a) * INITIAL_ENERGY_PER_SRC <= a * SRC_BASIS
                   /\ (a + b) * SRC_BASIS < WORD * INITIAL_ENERGY_PER_SRC =>
                       paid(a) + paid(b) <= paid(a + b)
    <3>1. a \in Nat /\ b \in Nat
      BY CurveAssumption
    <3>2. calculate_reward_dynamic(a, emitted, deviceWindow, networkWindow)
            * INITIAL_ENERGY_PER_SRC <= a * SRC_BASIS
      BY <2>1, <3>1, RewardBelowPeg
    <3>3. ASSUME (a + b) * SRC_BASIS < WORD * INITIAL_ENERGY_PER_SRC
          PROVE  reward_for_energy(a, per_src) + reward_for_energy(b, per_src)
                   <= reward_for_energy(a + b, per_src)
      <4>1. a + b \in Nat
        BY <3>1
      <4>2. ((a + b) * SRC_BASIS) \div per_src < WORD
        BY <2>2, <3>3, <4>1, RewardFits
      <4> QED
        BY <2>2, <3>1, <4>2, CuttingNeverPays
    <3> QED
      BY <3>2, <3>3 DEF calculate_reward_dynamic, per_src
  <2> QED
    BY <2>3 DEF RewardsNeverExceedPeg
<1> QED
  BY <1>1, CurveStaysInRange, PTL
-----------------------------------------------------------------------------
(* The width of the code.  math.rs multiplies in 128 bits and answers an   *)
(* overflow with zero, which the formulas of EmissionMath leave out: up to *)
(* the full supply no product overflows.                                   *)

\* A term of the exponential is at most 3/k of the one before it.
LEMMA TermFalls ==
  ASSUME NEW x \in Nat, x <= 3 * FP_SCALE, NEW t \in Nat, NEW k \in Nat \ {0}
  PROVE  fp_mul(t, x) \div k \in Nat /\ k * (fp_mul(t, x) \div k) <= 3 * t
<1> DEFINE q == fp_mul(t, x)
<1>1. FP_SCALE \in Nat \ {0} /\ t * x \in Nat
  BY Scales, ProductIsNat
<1>2. q \in Nat /\ FP_SCALE * q <= t * x
  BY <1>1, DivisionBounds DEF fp_mul
<1> HIDE DEF q
<1>3. t * x <= t * (3 * FP_SCALE)
  BY <1>1, ProductGrows
<1>4. t * (3 * FP_SCALE) = FP_SCALE * (3 * t) /\ FP_SCALE * (3 * t) \in Nat /\ FP_SCALE * q \in Nat
  BY <1>1, <1>2
<1>5. q <= 3 * t
  <2> SUFFICES ASSUME 3 * t + 1 <= q PROVE FALSE
    BY <1>2
  <2>1. FP_SCALE * (3 * t + 1) <= FP_SCALE * q
    BY <1>1, <1>2, ProductGrows
  <2>2. FP_SCALE * (3 * t + 1) = FP_SCALE * (3 * t) + FP_SCALE
    BY <1>1
  <2> QED
    BY <1>1, <1>2, <1>3, <1>4, <2>1, <2>2
<1>6. q \div k \in Nat /\ k * (q \div k) <= q
  BY <1>2, DivisionBounds
<1>7. k * (q \div k) \in Nat
  BY <1>6
<1> QED
  BY <1>2, <1>5, <1>6, <1>7 DEF q

\* The terms rise twice, fall from the fourth on, and are halved from the seventh on.
ExpWithin(s, k) ==
  /\ s \in Steps
  /\ 2 * s.term <= 9 * FP_SCALE
  /\ k = 0 => s.term = FP_SCALE /\ s.sum = FP_SCALE
  /\ k = 1 => s.term <= 3 * FP_SCALE /\ s.sum <= 4 * FP_SCALE
  /\ k = 2 => 2 * s.sum <= 17 * FP_SCALE
  /\ k = 3 => 2 * s.sum <= 26 * FP_SCALE
  /\ k = 4 => 2 * s.sum <= 35 * FP_SCALE
  /\ k = 5 => 2 * s.sum <= 44 * FP_SCALE
  /\ k >= 5 => 2 * (s.sum + s.term) <= 53 * FP_SCALE

LEMMA ExpWithinKept ==
  ASSUME NEW x \in Nat, x <= 3 * FP_SCALE, NEW j \in Nat, NEW prev, ExpWithin(prev, j)
  PROVE  ExpWithin(ExpNext(prev, j + 1, x), j + 1)
<1> DEFINE k == j + 1
           t == fp_mul(prev.term, x) \div k
           s == ExpNext(prev, k, x)
           was == prev.term
           sum == prev.sum
<1>1. prev \in Steps /\ was \in Nat /\ sum \in Nat
  BY DEF ExpWithin, Steps
<1>2. t \in Nat /\ k * t <= 3 * was
  BY <1>1, TermFalls
<1>3. s = [term |-> t, sum |-> sum + t] /\ s \in Steps
  BY <1>1, <1>2 DEF ExpNext, Steps
<1>4. FP_SCALE \in Nat /\ k \in Nat \ {0} /\ k = j + 1
  BY Scales
<1>5. /\ 2 * was <= 9 * FP_SCALE
      /\ j = 0 => was = FP_SCALE /\ sum = FP_SCALE
      /\ j = 1 => was <= 3 * FP_SCALE /\ sum <= 4 * FP_SCALE
      /\ j = 2 => 2 * sum <= 17 * FP_SCALE
      /\ j = 3 => 2 * sum <= 26 * FP_SCALE
      /\ j = 4 => 2 * sum <= 35 * FP_SCALE
      /\ j >= 5 => 2 * (sum + was) <= 53 * FP_SCALE
  BY DEF ExpWithin
<1>6. s.term = t /\ s.sum = sum + t
  BY <1>3
<1> SUFFICES ExpWithin(s, k)
  OBVIOUS
<1> HIDE DEF t, s, was, sum, k
<1>7. CASE j = 0
  <2>1. k = 1 /\ 1 * t <= 3 * was
    BY <1>2, <1>4, <1>7
  <2>2. 2 * t <= 9 * FP_SCALE
    BY <1>1, <1>2, <1>4, <1>5, <1>7, <2>1
  <2> QED
    BY <1>1, <1>2, <1>3, <1>4, <1>5, <1>6, <1>7, <2>1, <2>2 DEF ExpWithin
<1>8. CASE j = 1
  <2>1. k = 2 /\ 2 * t <= 3 * was
    BY <1>2, <1>4, <1>8
  <2>2. 2 * t <= 9 * FP_SCALE
    BY <1>1, <1>2, <1>4, <1>5, <1>8, <2>1
  <2> QED
    BY <1>1, <1>2, <1>3, <1>4, <1>5, <1>6, <1>8, <2>1, <2>2 DEF ExpWithin
<1>9. CASE j = 2
  <2>1. k = 3 /\ 3 * t <= 3 * was
    BY <1>2, <1>4, <1>9
  <2>2. 2 * t <= 9 * FP_SCALE
    BY <1>1, <1>2, <1>4, <1>5, <1>9, <2>1
  <2> QED
    BY <1>1, <1>2, <1>3, <1>4, <1>5, <1>6, <1>9, <2>1, <2>2 DEF ExpWithin
<1>10. CASE j = 3
  <2>1. k = 4 /\ 4 * t <= 3 * was
    BY <1>2, <1>4, <1>10
  <2>2. 2 * t <= 9 * FP_SCALE
    BY <1>1, <1>2, <1>4, <1>5, <1>10, <2>1
  <2> QED
    BY <1>1, <1>2, <1>3, <1>4, <1>5, <1>6, <1>10, <2>1, <2>2 DEF ExpWithin
<1>11. CASE j = 4
  <2>1. k = 5 /\ 5 * t <= 3 * was
    BY <1>2, <1>4, <1>11
  <2>2. 2 * t <= 9 * FP_SCALE
    BY <1>1, <1>2, <1>4, <1>5, <1>11, <2>1
  <2> QED
    BY <1>1, <1>2, <1>3, <1>4, <1>5, <1>6, <1>11, <2>1, <2>2 DEF ExpWithin
<1>12. CASE j >= 5
  <2>1. 6 * t <= k * t
    <3>1. t * 6 <= t * k
      BY <1>2, <1>4, <1>12, ProductGrows
    <3> QED
      BY <1>2, <1>4, <3>1
  <2>2. k * t \in Nat
    BY <1>2, <1>4
  <2>3. 2 * t <= was
    BY <1>1, <1>2, <2>1, <2>2
  <2> QED
    BY <1>1, <1>2, <1>3, <1>4, <1>5, <1>6, <1>12, <2>3 DEF ExpWithin
<1>13. j \in {0, 1, 2, 3, 4} \/ j >= 5
  OBVIOUS
<1> QED
  BY <1>7, <1>8, <1>9, <1>10, <1>11, <1>12, <1>13

LEMMA ExpStaysWithin ==
  ASSUME NEW x \in Nat, x <= 3 * FP_SCALE, NEW g, ExpSeries(g, x), NEW n \in 0 .. MaxTerms
  PROVE  ExpWithin(g[n], n)
<1> DEFINE D == [k \in 0 .. n |-> {s \in Steps : ExpWithin(s, k)}]
<1>1. n \in Nat /\ 0 <= n /\ 0 \in 0 .. n /\ n \in 0 .. n /\ MaxTerms \in Nat
  BY Scales
<1>2. g[0] \in D[0]
  <2>1. g[0] = [term |-> FP_SCALE, sum |-> FP_SCALE]
    BY <1>1 DEF ExpSeries
  <2>2. ExpWithin(g[0], 0)
    BY <2>1, Scales DEF ExpWithin, Steps
  <2> QED
    BY <1>1, <2>2 DEF ExpWithin
<1>3. ASSUME NEW k \in 0 + 1 .. n, g[k - 1] \in D[k - 1] PROVE g[k] \in D[k]
  <2> DEFINE j == k - 1
  <2>1. j \in Nat /\ j + 1 = k /\ k \in 0 .. MaxTerms /\ k \in 0 .. n /\ j \in 0 .. n /\ k # 0
    BY <1>1
  <2>2. ExpWithin(g[j], j)
    BY <1>3, <2>1
  <2>3. g[k] = ExpNext(g[j], k, x)
    BY <2>1 DEF ExpSeries
  <2> HIDE DEF j, D
  <2>4. ExpWithin(g[k], k)
    BY <2>1, <2>2, <2>3, ExpWithinKept
  <2> QED
    BY <2>1, <2>4 DEF ExpWithin, D
<1>4. g[n] \in D[n]
  <2> HIDE DEF D
  <2> QED
    BY <1>1, <1>2, <1>3, SeriesKeeps
<1> QED
  BY <1>1, <1>4

\* The sum of the exponential, at every term.
LEMMA ExpBounded ==
  ASSUME NEW x \in Nat, x <= 3 * FP_SCALE
  PROVE  exp_fp(x) \in Nat /\ exp_fp(x) <= 27 * FP_SCALE
<1> DEFINE g == CHOOSE e : ExpSeries(e, x)
           s == g[MaxTerms]
<1>1. ExpSeries(g, x)
  BY ExpSeriesExists
<1>2. MaxTerms \in Nat /\ MaxTerms \in 0 .. MaxTerms /\ FP_SCALE \in Nat
  BY Scales
<1> HIDE DEF g
<1>3. ExpWithin(s, MaxTerms)
  BY <1>1, <1>2, ExpStaysWithin
<1>4. s \in Steps /\ s.sum \in Nat /\ s.term \in Nat
  BY <1>3 DEF ExpWithin, Steps
<1> HIDE DEF s
<1>5. s.sum <= 27 * FP_SCALE
  BY <1>2, <1>3, <1>4 DEF ExpWithin
<1> QED
  BY <1>4, <1>5, ExpIsChosen DEF s, g

\* The powers of the logarithm stay below one, and k terms of it below k.
LEMMA LogStaysWithin ==
  ASSUME NEW u \in 0 .. FP_SCALE, NEW alternating \in BOOLEAN,
         NEW g, LogValues(g, u, alternating), NEW n \in 1 .. MaxTerms
  PROVE  g[n] \in LogSteps /\ g[n].sum <= n * FP_SCALE
<1> DEFINE D == [k \in 1 .. n |-> {s \in LogSteps : s.sum <= k * FP_SCALE}]
<1>1. n \in Nat /\ 1 <= n /\ 1 \in 1 .. n /\ n \in 1 .. n /\ MaxTerms \in Nat /\ FP_SCALE \in Nat
  BY Scales
<1>2. g[1] \in D[1]
  <2>1. g[1] = [power |-> u, sum |-> u] /\ u <= 1 * FP_SCALE
    BY <1>1 DEF LogValues
  <2> QED
    BY <1>1, <2>1 DEF LogSteps
<1>3. ASSUME NEW k \in 1 + 1 .. n, g[k - 1] \in D[k - 1] PROVE g[k] \in D[k]
  <2> DEFINE j == k - 1
             prev == g[j]
             s == LogNext(prev, k, u, alternating)
             q == fp_mul(prev.power, u)
             term == q \div k
  <2>1. j \in Nat /\ j + 1 = k /\ k \in 1 .. MaxTerms /\ k \in 1 .. n /\ j \in 1 .. n /\ k # 1
        /\ k \in Nat \ {0}
    BY <1>1
  <2>2. prev \in LogSteps /\ prev.sum <= j * FP_SCALE
    BY <1>3, <2>1
  <2>3. g[k] = s
    BY <2>1 DEF LogValues
  <2>4. q \in Nat /\ q <= FP_SCALE
    <3>1. prev.power \in 0 .. FP_SCALE
      BY <2>2 DEF LogSteps
    <3> HIDE DEF prev
    <3>2. q \in 0 .. FP_SCALE
      BY <3>1, PowersShrink
    <3> QED
      BY <1>1, <3>2
  <2>5. term \in Nat /\ term <= q
    <3> HIDE DEF q
    <3>1. term \in Nat /\ k * term <= q
      BY <2>1, <2>4, DivisionBounds
    <3> HIDE DEF term
    <3>2. term * 1 <= term * k /\ term * k = k * term /\ term * k \in Nat
      BY <2>1, <3>1, ProductGrows
    <3> QED
      BY <2>4, <3>1, <3>2
  <2>6. s.sum = prev.sum + LogSign(k, alternating) * term
    BY DEF LogNext
  <2>7. s \in LogSteps
    <3> HIDE DEF prev
    <3> QED
      BY <2>1, <2>2, LogNextIsStep
  <2>8. LogSign(k, alternating) \in {1, -1}
    BY <2>1, SignIsUnit
  <2>9. prev.sum \in Int /\ j * FP_SCALE \in Nat /\ k * FP_SCALE = j * FP_SCALE + FP_SCALE
    BY <1>1, <2>1, <2>2 DEF LogSteps
  <2> HIDE DEF j, prev, s, q, term, D
  <2>10. s.sum <= prev.sum + term
    BY <2>5, <2>6, <2>8, <2>9
  <2>11. s.sum \in Int
    BY <2>7 DEF LogSteps
  <2>12. s.sum <= k * FP_SCALE
    BY <1>1, <2>2, <2>4, <2>5, <2>9, <2>10, <2>11
  <2> QED
    BY <2>1, <2>3, <2>7, <2>12 DEF D
<1>4. g[n] \in D[n]
  <2> HIDE DEF D
  <2> QED
    BY <1>1, <1>2, <1>3, SeriesKeeps
<1> QED
  BY <1>1, <1>4

LEMMA LogBounded ==
  ASSUME NEW u \in 0 .. FP_SCALE, LN2_FP <= FP_SCALE
  PROVE  ln_1p_fp(u) \in Nat /\ ln_1p_fp(u) <= MaxTerms * FP_SCALE
<1>1. MaxTerms \in Nat \ {0} /\ FP_SCALE \in Nat /\ LN2_FP \in Nat
  BY Scales
<1>2. CASE u < FP_SCALE \div 2
  <2> DEFINE g == CHOOSE e : LogValues(e, u, TRUE)
  <2>1. LogValues(g, u, TRUE)
    BY LogValuesExist
  <2>2. LogSeries(u, TRUE) = g[MaxTerms].sum
    BY LogIsChosen
  <2> HIDE DEF g
  <2>3. g[MaxTerms].sum <= MaxTerms * FP_SCALE
    <3>1. MaxTerms \in 1 .. MaxTerms /\ TRUE \in BOOLEAN
      BY <1>1
    <3> QED
      BY ONLY u \in 0 .. FP_SCALE, <2>1, <3>1, LogStaysWithin
  <2>4. ln_1p_fp(u) = LogSeries(u, TRUE)
    BY <1>2 DEF ln_1p_fp
  <2> QED
    BY <2>2, <2>3, <2>4, LogSeriesIsNat
<1>3. CASE ~(u < FP_SCALE \div 2)
  <2> DEFINE v == (FP_SCALE - u) \div 2
             sum == LogSeries(v, FALSE)
  <2>1. v \in 0 .. FP_SCALE
    BY <1>1
  <2>2. sum \in Nat
    BY <2>1, LogSeriesIsNat
  <2>3. ln_1p_fp(u) = SaturatingSub(LN2_FP, sum)
    BY <1>3 DEF ln_1p_fp
  <2> HIDE DEF sum
  <2>4. ln_1p_fp(u) \in Nat /\ ln_1p_fp(u) <= LN2_FP
    BY <1>1, <2>2, <2>3 DEF SaturatingSub
  <2>5. FP_SCALE * 1 <= FP_SCALE * MaxTerms /\ FP_SCALE * MaxTerms = MaxTerms * FP_SCALE
        /\ FP_SCALE * MaxTerms \in Nat
    BY <1>1, ProductGrows
  <2> QED
    BY <1>1, <2>4, <2>5
<1> QED
  BY <1>2, <1>3

\* Every product that math.rs forms for a supply, a window, a network and a report.
Products(total_supply, device, network, energy) ==
  LET x == fp_mul(emission_share(total_supply), LN10_FP)
      u == DeviceShare(device, network)
  IN  {total_supply * FP_SCALE, emission_share(total_supply) * LN10_FP,
       INITIAL_ENERGY_PER_SRC * emission_difficulty(total_supply),
       device * FP_SCALE, ln_1p_fp(u) * FP_SCALE,
       energy_per_src(total_supply) * device_difficulty_multiplier(device, network),
       energy * SRC_BASIS}
      \cup {(CHOOSE g : ExpSeries(g, x))[k].term * x : k \in 0 .. MaxTerms}
      \cup {(CHOOSE g : LogValues(g, u, TRUE))[k].power * u : k \in 1 .. MaxTerms}
      \cup {(CHOOSE g : LogValues(g, (FP_SCALE - u) \div 2, FALSE))[k].power
              * ((FP_SCALE - u) \div 2) : k \in 1 .. MaxTerms}

\* The widths of the code: WORD is 2^64 and wide is 2^128, which is 340 times FP_SCALE
\* squared; MaxTerms is the 200 at which the code gives up.
Widths(wide) ==
  /\ MAX_SUPPLY_ATOMIC <= WORD /\ WORD <= 19 * FP_SCALE
  /\ SRC_BASIS <= FP_SCALE /\ 27 * INITIAL_ENERGY_PER_SRC <= FP_SCALE
  /\ LN2_FP <= FP_SCALE /\ FP_SCALE <= LN10_FP /\ LN10_FP <= 3 * FP_SCALE
  /\ (MaxTerms + 19) * (FP_SCALE * FP_SCALE) <= wide

LEMMA BothFactorsGrow ==
  ASSUME NEW a \in Nat, NEW b \in Nat, NEW c \in Nat, NEW d \in Nat, a <= c, b <= d
  PROVE  a * b \in Nat /\ a * b <= c * d
<1>1. a * b \in Nat /\ a * d \in Nat /\ c * d \in Nat
  BY ProductIsNat
<1>2. a * b <= a * d /\ d * a <= d * c
  BY ProductGrows
<1>3. d * a = a * d /\ d * c = c * d
  OBVIOUS
<1> QED
  BY <1>1, <1>2, <1>3

LEMMA MultiplierBounded ==
  ASSUME NEW device \in Nat, NEW network \in Nat, LN2_FP <= FP_SCALE, FP_SCALE <= LN10_FP
  PROVE  /\ device_difficulty_multiplier(device, network) \in Nat
         /\ device_difficulty_multiplier(device, network) <= (MaxTerms + 1) * FP_SCALE
<1>1. MaxTerms \in Nat /\ FP_SCALE \in Nat \ {0} /\ LN10_FP \in Nat \ {0}
      /\ (MaxTerms + 1) * FP_SCALE = MaxTerms * FP_SCALE + FP_SCALE /\ MaxTerms * FP_SCALE \in Nat
  BY Scales
<1>2. CASE network = 0
  BY <1>1, <1>2 DEF device_difficulty_multiplier
<1>3. CASE network # 0
  <2> DEFINE u == DeviceShare(device, network)
             ln == ln_1p_fp(u)
             log == (ln * FP_SCALE) \div LN10_FP
  <2>1. u \in 0 .. FP_SCALE
    BY <1>3, ShareIsPart
  <2> HIDE DEF u
  <2>2. ln \in Nat /\ ln <= MaxTerms * FP_SCALE
    BY <2>1, LogBounded
  <2> HIDE DEF ln
  <2>3. log \in Nat /\ log <= ln
    <3>1. (FP_SCALE * ln) \div LN10_FP \in 0 .. ln
      BY <1>1, <2>2, PartOfScale
    <3>2. ln * FP_SCALE = FP_SCALE * ln
      BY <1>1, <2>2
    <3> QED
      BY <2>2, <3>1, <3>2
  <2>4. device_difficulty_multiplier(device, network) = FP_SCALE + log
    BY <1>3 DEF device_difficulty_multiplier, log10_1p_fp, u, ln
  <2> HIDE DEF log
  <2> QED
    BY <1>1, <2>2, <2>3, <2>4
<1> QED
  BY <1>2, <1>3

\* The fallbacks of math.rs for an overflow are never taken up to the full supply, whatever
\* the network, the device and the report: the formulas are those of unbounded numbers.
THEOREM NothingOverflows ==
  ASSUME NEW wide \in Nat, Widths(wide),
         NEW total_supply \in 0 .. MAX_SUPPLY_ATOMIC, NEW device \in 0 .. WORD,
         NEW network \in Nat, NEW energy \in 0 .. WORD
  PROVE  \A p \in Products(total_supply, device, network, energy) : p \in 0 .. wide
<1> DEFINE F == FP_SCALE
           FF == FP_SCALE * FP_SCALE
           x == fp_mul(emission_share(total_supply), LN10_FP)
           u == DeviceShare(device, network)
           v == (FP_SCALE - u) \div 2
<1>1. /\ F \in Nat \ {0} /\ MaxTerms \in Nat \ {0} /\ LN10_FP \in Nat /\ LN2_FP \in Nat
      /\ INITIAL_ENERGY_PER_SRC \in Nat /\ SRC_BASIS \in Nat /\ MAX_SUPPLY_ATOMIC \in Nat
      /\ FF \in Nat
  BY Scales, ProductIsNat
<1>2. /\ MAX_SUPPLY_ATOMIC <= WORD /\ WORD <= 19 * F /\ SRC_BASIS <= F
      /\ 27 * INITIAL_ENERGY_PER_SRC <= F /\ LN2_FP <= F /\ F <= LN10_FP /\ LN10_FP <= 3 * F
      /\ (MaxTerms + 19) * FF <= wide
  BY DEF Widths
<1>3. 20 * FF <= wide /\ MaxTerms * FF <= wide /\ (MaxTerms + 1) * FF <= wide
      /\ MaxTerms * FF \in Nat
  <2>1. (MaxTerms + 19) * FF = MaxTerms * FF + 19 * FF /\ MaxTerms * FF \in Nat
        /\ (MaxTerms + 1) * FF = MaxTerms * FF + FF
    BY <1>1
  <2>2. FF * 1 <= FF * MaxTerms /\ FF * MaxTerms = MaxTerms * FF
    BY <1>1, ProductGrows
  <2> HIDE DEF FF
  <2> QED
    BY <1>1, <1>2, <2>1, <2>2
<1>4. /\ emission_share(total_supply) \in 0 .. F /\ x \in 0 .. LN10_FP
      /\ u \in 0 .. F /\ v \in 0 .. F
  <2>1. u \in 0 .. F
    <3>1. device \in Nat
      OBVIOUS
    <3>2. CASE network = 0
      BY <1>1, <3>1, <3>2 DEF DeviceShare
    <3>3. CASE network # 0
      BY <3>1, <3>3, ShareIsPart
    <3> QED
      BY <3>2, <3>3
  <2> HIDE DEF u
  <2> QED
    BY <1>1, <2>1, ExponentIsPart
<1>5. \A a \in 0 .. 3 * F, b \in 0 .. 6 * F : a * b \in 0 .. wide
  <2> SUFFICES ASSUME NEW a \in 0 .. 3 * F, NEW b \in 0 .. 6 * F PROVE a * b \in 0 .. wide
    OBVIOUS
  <2>1. a \in Nat /\ b \in Nat /\ a <= 3 * F /\ b <= 6 * F /\ 3 * F \in Nat /\ 6 * F \in Nat
    BY <1>1
  <2>2. a * b \in Nat /\ a * b <= (3 * F) * (6 * F)
    BY <2>1, BothFactorsGrow
  <2>3. (3 * F) * (6 * F) = 18 * FF
    BY <1>1
  <2> HIDE DEF FF, F
  <2> QED
    BY <1>1, <1>3, <2>2, <2>3
<1>6. \A a \in 0 .. WORD, b \in 0 .. F : a * b \in 0 .. wide
  <2> SUFFICES ASSUME NEW a \in 0 .. WORD, NEW b \in 0 .. F PROVE a * b \in 0 .. wide
    OBVIOUS
  <2>1. a \in Nat /\ b \in Nat /\ a <= 19 * F /\ b <= F /\ 19 * F \in Nat
    BY <1>1, <1>2, Scales
  <2>2. a * b \in Nat /\ a * b <= (19 * F) * F
    BY <1>1, <2>1, BothFactorsGrow
  <2>3. (19 * F) * F = 19 * FF
    BY <1>1
  <2> HIDE DEF FF, F
  <2> QED
    BY <1>1, <1>3, <2>2, <2>3
<1> HIDE DEF F, FF
<1>7. total_supply * FP_SCALE \in 0 .. wide /\ device * FP_SCALE \in 0 .. wide
      /\ energy * SRC_BASIS \in 0 .. wide
  BY <1>1, <1>2, <1>6 DEF F
<1>8. emission_share(total_supply) * LN10_FP \in 0 .. wide
  <2> DEFINE share == emission_share(total_supply)
  <2>1. share \in 0 .. F
    BY <1>4
  <2> HIDE DEF share
  <2>2. share \in 0 .. 3 * F /\ LN10_FP \in 0 .. 6 * F
    BY <1>1, <1>2, <2>1
  <2> QED
    BY <1>5, <2>2 DEF share
<1> DEFINE d == emission_difficulty(total_supply)
<1>9. d \in Nat /\ d <= 27 * F
  <2>1. x \in Nat /\ x <= 3 * FP_SCALE
    BY <1>1, <1>2, <1>4 DEF F
  <2> HIDE DEF x
  <2> QED
    BY <2>1, ExpBounded DEF emission_difficulty, x, F
<1> HIDE DEF d
<1>10. INITIAL_ENERGY_PER_SRC * d \in 0 .. wide /\ INITIAL_ENERGY_PER_SRC * d <= FF
  <2>1. INITIAL_ENERGY_PER_SRC * d \in Nat
        /\ INITIAL_ENERGY_PER_SRC * d <= INITIAL_ENERGY_PER_SRC * (27 * F)
    BY <1>1, <1>9, ProductGrows
  <2>2. INITIAL_ENERGY_PER_SRC * (27 * F) = F * (27 * INITIAL_ENERGY_PER_SRC)
        /\ F * (27 * INITIAL_ENERGY_PER_SRC) \in Nat
    BY <1>1
  <2>3. F * (27 * INITIAL_ENERGY_PER_SRC) <= FF
    BY <1>1, <1>2, ProductGrows DEF FF, F
  <2> QED
    BY <1>1, <1>3, <2>1, <2>2, <2>3
<1>11. ln_1p_fp(u) * FP_SCALE \in 0 .. wide
  <2> DEFINE ln == ln_1p_fp(u)
  <2>1. ln \in Nat /\ ln <= MaxTerms * F
    BY <1>2, <1>4, LogBounded DEF F
  <2> HIDE DEF ln
  <2>2. F * ln \in Nat /\ F * ln <= F * (MaxTerms * F)
    BY <1>1, <2>1, ProductGrows
  <2>3. F * (MaxTerms * F) = MaxTerms * FF /\ F * ln = ln * FP_SCALE
    BY <1>1, <2>1 DEF FF, F
  <2> QED
    BY <1>1, <1>3, <2>2, <2>3 DEF ln
<1>12. energy_per_src(total_supply) * device_difficulty_multiplier(device, network) \in 0 .. wide
  <2> DEFINE price == energy_per_src(total_supply)
             m == device_difficulty_multiplier(device, network)
             k == MaxTerms + 1
  <2>1. price = (INITIAL_ENERGY_PER_SRC * d) \div FP_SCALE
    BY DEF energy_per_src, d
  <2>2. price \in Nat /\ price <= F
    <3> DEFINE a == INITIAL_ENERGY_PER_SRC * d
    <3>1. a \in Nat /\ a <= FF /\ FF = FP_SCALE * FP_SCALE /\ FP_SCALE \in Nat \ {0}
      BY <1>1, <1>10 DEF FF, F
    <3> HIDE DEF a
    <3>2. a \div FP_SCALE <= (FP_SCALE * FP_SCALE) \div FP_SCALE /\ a \div FP_SCALE \in Nat
      BY <3>1, DivisionGrows, DivisionBounds
    <3>3. (FP_SCALE * FP_SCALE) \div FP_SCALE = FP_SCALE
      BY <3>1, WholeOfScale
    <3> QED
      BY <2>1, <3>2, <3>3 DEF a, F
  <2>3. m \in Nat /\ m <= k * F
    <3>1. device \in Nat /\ network \in Nat /\ LN2_FP <= FP_SCALE /\ FP_SCALE <= LN10_FP
      BY <1>2 DEF F
    <3> QED
      BY <3>1, MultiplierBounded DEF F
  <2>4. k \in Nat /\ k * FF <= wide
    BY <1>1, <1>3
  <2> HIDE DEF price, m, k
  <2>5. price * m \in Nat /\ price * m <= F * (k * F)
    BY <1>1, <2>2, <2>3, <2>4, BothFactorsGrow, ProductIsNat
  <2>6. F * (k * F) = k * FF /\ k * FF \in Nat
    BY <1>1, <2>4 DEF FF, F
  <2> QED
    BY <2>4, <2>5, <2>6 DEF price, m
<1>13. ASSUME NEW k \in 0 .. MaxTerms
       PROVE  (CHOOSE g : ExpSeries(g, x))[k].term * x \in 0 .. wide
  <2> DEFINE e == CHOOSE g : ExpSeries(g, x)
             t == e[k].term
  <2>1. x \in Nat /\ x <= 3 * FP_SCALE
    BY <1>1, <1>2, <1>4 DEF F
  <2>2. ExpSeries(e, x)
    <3> HIDE DEF x
    <3> QED
      BY <2>1, ExpSeriesExists
  <2> HIDE DEF e, x
  <2>3. ExpWithin(e[k], k)
    BY <2>1, <2>2, ExpStaysWithin
  <2>4. t \in Nat /\ 2 * t <= 9 * F
    BY <2>3 DEF ExpWithin, Steps, F
  <2> HIDE DEF t
  <2>5. t \in 0 .. 6 * F /\ x \in 0 .. 3 * F
    BY <1>1, <2>1, <2>4 DEF F
  <2>6. x * t \in 0 .. wide
    BY <1>5, <2>5
  <2>7. x * t = t * x
    BY <2>1, <2>4
  <2> QED
    BY <2>6, <2>7 DEF e, t
<1>14. ASSUME NEW w \in 0 .. FP_SCALE, NEW alternating \in BOOLEAN, NEW k \in 1 .. MaxTerms
       PROVE  (CHOOSE g : LogValues(g, w, alternating))[k].power * w \in 0 .. wide
  <2> DEFINE e == CHOOSE g : LogValues(g, w, alternating)
  <2>1. LogValues(e, w, alternating)
    BY LogValuesExist
  <2> HIDE DEF e
  <2>2. e[k] \in LogSteps
    BY <2>1, LogStaysWithin
  <2>3. e[k].power \in 0 .. 3 * F /\ w \in 0 .. 6 * F
    BY <1>1, <2>2 DEF LogSteps, F
  <2> QED
    BY <1>5, <2>3 DEF e
<1>15. /\ \A k \in 1 .. MaxTerms : (CHOOSE g : LogValues(g, u, TRUE))[k].power * u \in 0 .. wide
       /\ \A k \in 1 .. MaxTerms : (CHOOSE g : LogValues(g, v, FALSE))[k].power * v \in 0 .. wide
  <2>1. u \in 0 .. FP_SCALE /\ v \in 0 .. FP_SCALE
    BY <1>4 DEF F
  <2> HIDE DEF u, v
  <2> QED
    BY <1>14, <2>1
<1> QED
  BY <1>7, <1>8, <1>10, <1>11, <1>12, <1>13, <1>15 DEF Products, d
-----------------------------------------------------------------------------
(* The loops of the code end at the first term that is zero; the series of *)
(* EmissionMath go on to MaxTerms.  From a zero term on nothing is added.  *)

LEMMA ExpStepsAreNat ==
  ASSUME NEW x \in Nat, NEW g, ExpSeries(g, x), NEW n \in 0 .. MaxTerms
  PROVE  g[n] \in Steps
<1> DEFINE D == [k \in 0 .. n |-> Steps]
<1>1. n \in Nat /\ 0 <= n /\ 0 \in 0 .. n /\ n \in 0 .. n /\ MaxTerms \in Nat
  BY Scales
<1>2. g[0] \in D[0]
  BY <1>1, Scales DEF ExpSeries, Steps
<1>3. ASSUME NEW k \in 0 + 1 .. n, g[k - 1] \in D[k - 1] PROVE g[k] \in D[k]
  <2>1. k \in Nat \ {0} /\ k \in 0 .. MaxTerms /\ k \in 0 .. n /\ k - 1 \in 0 .. n
    BY <1>1
  <2>2. g[k] = ExpNext(g[k - 1], k, x) /\ g[k - 1] \in Steps
    BY <1>3, <2>1 DEF ExpSeries
  <2>3. g[k] \in Steps
    BY <2>1, <2>2, ExpNextIsNat
  <2> QED
    BY <2>1, <2>3
<1>4. g[n] \in D[n]
  <2> HIDE DEF D
  <2> QED
    BY <1>1, <1>2, <1>3, SeriesKeeps
<1> QED
  BY <1>1, <1>4

\* math.rs:35: the exponential that stops at a zero term is the one with every term.
THEOREM ExpEndsAtZero ==
  ASSUME NEW x \in Nat, NEW g, ExpSeries(g, x), NEW n \in 0 .. MaxTerms, g[n].term = 0
  PROVE  exp_fp(x) = (CHOOSE e : ExpSeries(e, x))[MaxTerms].sum
         /\ g[MaxTerms].sum = g[n].sum
<1> DEFINE D == [k \in n .. MaxTerms |-> {s \in Steps : s.term = 0 /\ s.sum = g[n].sum}]
<1>1. n \in Nat /\ n <= MaxTerms /\ n \in n .. MaxTerms /\ MaxTerms \in n .. MaxTerms
      /\ MaxTerms \in Nat
  BY Scales
<1>2. g[n] \in D[n]
  BY <1>1, ExpStepsAreNat
<1>3. ASSUME NEW k \in n + 1 .. MaxTerms, g[k - 1] \in D[k - 1] PROVE g[k] \in D[k]
  <2> DEFINE prev == g[k - 1]
  <2>1. k \in Nat \ {0} /\ k \in 0 .. MaxTerms /\ k \in n .. MaxTerms /\ k - 1 \in n .. MaxTerms
    BY <1>1
  <2>2. g[k] = ExpNext(prev, k, x) /\ prev \in Steps /\ prev.term = 0 /\ prev.sum = g[n].sum
    BY <1>3, <2>1 DEF ExpSeries
  <2> HIDE DEF prev, D
  <2>3. fp_mul(prev.term, x) = 0
    <3>1. 0 * x = 0 /\ 0 \div FP_SCALE = 0
      BY Scales
    <3> QED
      BY <2>2, <3>1 DEF fp_mul
  <2>4. 0 \div k = 0 /\ prev.sum \in Nat
    BY <2>1, <2>2 DEF Steps
  <2>5. g[k] = [term |-> 0, sum |-> prev.sum]
    BY <2>2, <2>3, <2>4 DEF ExpNext
  <2> QED
    BY <2>1, <2>2, <2>4, <2>5 DEF D, Steps
<1>4. g[MaxTerms] \in D[MaxTerms]
  <2> HIDE DEF D
  <2> QED
    BY <1>1, <1>2, <1>3, SeriesKeeps
<1> QED
  BY <1>1, <1>4, ExpIsChosen

\* math.rs:59 and 79: likewise for both series of the logarithm, although their powers are not
\* yet zero where a term is.
THEOREM LogEndsAtZero ==
  ASSUME NEW u \in 0 .. FP_SCALE, NEW alternating \in BOOLEAN,
         NEW g, LogValues(g, u, alternating), NEW n \in 1 .. MaxTerms, g[n].power \div n = 0
  PROVE  g[MaxTerms].sum = g[n].sum
<1> DEFINE D == [k \in n .. MaxTerms |-> {s \in LogSteps : s.power \div k = 0 /\ s.sum = g[n].sum}]
<1>1. n \in Nat \ {0} /\ n <= MaxTerms /\ n \in n .. MaxTerms /\ MaxTerms \in n .. MaxTerms
      /\ MaxTerms \in Nat
  BY Scales
<1>2. g[n] \in D[n]
  <2>1. g[n] \in LogSteps
    BY LogStaysWithin
  <2> QED
    BY <1>1, <2>1
<1>3. ASSUME NEW k \in n + 1 .. MaxTerms, g[k - 1] \in D[k - 1] PROVE g[k] \in D[k]
  <2> DEFINE j == k - 1
             prev == g[j]
             q == fp_mul(prev.power, u)
  <2>1. j \in Nat \ {0} /\ j + 1 = k /\ k \in 1 .. MaxTerms /\ k \in n .. MaxTerms
        /\ j \in n .. MaxTerms /\ k # 1 /\ k \in Nat \ {0}
    BY <1>1
  <2>2. g[k] = LogNext(prev, k, u, alternating) /\ prev \in LogSteps /\ prev.power \div j = 0
        /\ prev.sum = g[n].sum
    BY <1>3, <2>1 DEF LogValues
  <2> HIDE DEF j, prev, D
  <2>3. prev.power \in 0 .. FP_SCALE /\ prev.power \in Nat /\ prev.sum \in Int
    BY <2>2, Scales DEF LogSteps
  <2>4. q \in Nat /\ q <= prev.power
    <3>1. fp_mul(prev.power, u) \in 0 .. FP_SCALE /\ fp_mul(prev.power, u) <= prev.power
      BY <2>3, PowersShrink
    <3> QED
      BY <3>1, Scales
  <2> HIDE DEF q
  <2>5. q \div k = 0
    <3>1. q \div (j + 1) \in Nat /\ q \div (j + 1) <= prev.power \div j
      BY <2>1, <2>3, <2>4, TermsShrink
    <3> QED
      BY <2>1, <2>2, <3>1
  <2>6. g[k].power = q /\ g[k].sum = prev.sum + LogSign(k, alternating) * 0
    BY <2>2, <2>5 DEF LogNext, q
  <2>7. LogSign(k, alternating) * 0 = 0
    BY <2>1, SignIsUnit
  <2>8. g[k] \in LogSteps
    BY <2>1, LogStaysWithin
  <2> QED
    BY <2>1, <2>2, <2>3, <2>5, <2>6, <2>7, <2>8 DEF D
<1>4. g[MaxTerms] \in D[MaxTerms]
  <2> HIDE DEF D
  <2> QED
    BY <1>1, <1>2, <1>3, SeriesKeeps
<1> QED
  BY <1>1, <1>4
-----------------------------------------------------------------------------
(* Sums over a finite set, as the community modules define them.           *)

Some(s) == CHOOSE x \in s : TRUE

\* One entry, and the sum of the rest.
Unrolled(f, g, s) == IF s = {} THEN 0 ELSE f[Some(s)] + g[s \ {Some(s)}]

Sums(f, S, g) == g = [s \in SUBSET S |-> Unrolled(f, g, s)]

LEMMA SumIsChosen ==
  ASSUME NEW f, NEW S
  PROVE  Total(f, S) = (CHOOSE g : Sums(f, S, g))[S]
BY DEF Total, MapThenSumSet, MapThenFoldSet, Sums, Unrolled, Some

LEMMA SomeIsIn ==
  ASSUME NEW s, s # {}
  PROVE  Some(s) \in s
BY DEF Some

LEMMA Smaller ==
  ASSUME NEW s, IsFiniteSet(s), NEW x \in s
  PROVE  /\ IsFiniteSet(s \ {x})
         /\ Cardinality(s) \in Nat \ {0}
         /\ Cardinality(s \ {x}) = Cardinality(s) - 1
<1>1. s # {} /\ Cardinality(s) \in Nat
  BY FS_CardinalityType
<1>2. Cardinality(s) # 0
  BY <1>1, FS_EmptySet
<1> QED
  BY <1>1, <1>2, FS_RemoveElement

LEMMA SumsExist ==
  ASSUME NEW S, IsFiniteSet(S), NEW f, \A x \in S : f[x] \in Int
  PROVE  \E g \in [SUBSET S -> Int] : Sums(f, S, g)
<1> DEFINE Right(n, g) == \A s \in SUBSET S : Cardinality(s) <= n => g[s] = Unrolled(f, g, s)
           Wrong == {n \in Nat : ~ \E g \in [SUBSET S -> Int] : Right(n, g)}
<1>1. ASSUME NEW s \in SUBSET S
      PROVE  IsFiniteSet(s) /\ Cardinality(s) \in Nat /\ Cardinality(s) <= Cardinality(S)
  BY FS_Subset, FS_CardinalityType
<1>2. 0 \notin Wrong
  <2> DEFINE zero == [s \in SUBSET S |-> 0]
  <2>1. ASSUME NEW s \in SUBSET S, Cardinality(s) <= 0 PROVE zero[s] = Unrolled(f, zero, s)
    BY <1>1, <2>1, FS_EmptySet DEF Unrolled
  <2>2. zero \in [SUBSET S -> Int]
    OBVIOUS
  <2>3. Right(0, zero)
    BY <2>1
  <2> QED
    BY <2>2, <2>3
<1>3. ASSUME NEW n \in Nat, n \notin Wrong PROVE n + 1 \notin Wrong
  <2>1. PICK g \in [SUBSET S -> Int] : Right(n, g)
    BY <1>3
  <2> DEFINE h == [s \in SUBSET S |-> Unrolled(f, g, s)]
  <2>2. h \in [SUBSET S -> Int]
    <3>1. ASSUME NEW s \in SUBSET S PROVE Unrolled(f, g, s) \in Int
      BY SomeIsIn DEF Unrolled
    <3> QED
      BY <3>1
  <2>3. ASSUME NEW s \in SUBSET S, Cardinality(s) <= n PROVE h[s] = g[s]
    BY <2>1, <2>3
  <2>4. ASSUME NEW s \in SUBSET S, Cardinality(s) <= n + 1
        PROVE  h[s] = Unrolled(f, h, s)
    <3>1. CASE s = {}
      BY <3>1 DEF Unrolled
    <3>2. CASE s # {}
      <4>1. Some(s) \in s /\ s \ {Some(s)} \in SUBSET S
        BY <3>2, SomeIsIn
      <4>2. Cardinality(s \ {Some(s)}) <= n
        BY <1>1, <2>4, <4>1, Smaller
      <4> QED
        BY <2>3, <3>2, <4>1, <4>2 DEF Unrolled
    <3> QED
      BY <3>1, <3>2
  <2>5. Right(n + 1, h)
    BY <2>4
  <2> HIDE DEF h
  <2> QED
    BY <2>2, <2>5
<1>4. \A n \in Nat : n \notin Wrong
  <2> SUFFICES ASSUME NEW k \in Wrong PROVE FALSE
    OBVIOUS
  <2> HIDE DEF Wrong
  <2>1. Wrong \in SUBSET Nat
    BY DEF Wrong
  <2>2. PICK n \in Wrong : \A m \in Wrong : n <= m
    BY <2>1, Least
  <2>3. n \in Nat /\ n # 0
    BY <1>2, <2>1
  <2>4. n - 1 \in Nat /\ n - 1 \notin Wrong
    BY <2>1, <2>2, <2>3
  <2>5. (n - 1) + 1 \notin Wrong
    BY <1>3, <2>4
  <2> QED
    BY <2>2, <2>3, <2>5
<1>5. PICK g \in [SUBSET S -> Int] : Right(Cardinality(S), g)
  BY <1>4, FS_CardinalityType
<1>6. Sums(f, S, g)
  BY <1>1, <1>5 DEF Sums
<1> QED
  BY <1>6

\* Two sums agree wherever their entries do.
LEMMA SumsAgree ==
  ASSUME NEW S, NEW T, NEW f, NEW e, NEW g, NEW h, Sums(f, S, g), Sums(e, T, h),
         NEW U \in SUBSET (S \cap T), IsFiniteSet(U), \A x \in U : f[x] = e[x]
  PROVE  g[U] = h[U]
<1> DEFINE Wrong == {n \in Nat : \E s \in SUBSET U : Cardinality(s) = n /\ g[s] # h[s]}
<1> SUFFICES ASSUME g[U] # h[U] PROVE FALSE
  OBVIOUS
<1>1. Cardinality(U) \in Wrong
  BY FS_CardinalityType
<1>2. PICK n \in Wrong : \A m \in Wrong : n <= m
  <2> HIDE DEF Wrong
  <2>1. Wrong \in SUBSET Nat
    BY DEF Wrong
  <2> QED
    BY <1>1, <2>1, Least
<1>3. PICK s \in SUBSET U : Cardinality(s) = n /\ g[s] # h[s]
  BY <1>2
<1>4. g[s] = Unrolled(f, g, s) /\ h[s] = Unrolled(e, h, s)
  BY DEF Sums
<1>5. s # {}
  BY <1>3, <1>4 DEF Unrolled
<1>6. Some(s) \in s /\ IsFiniteSet(s)
  BY <1>5, SomeIsIn, FS_Subset
<1> DEFINE r == s \ {Some(s)}
<1>7. Cardinality(r) \in Nat /\ Cardinality(r) < n
  BY <1>3, <1>6, Smaller
<1>8. g[r] = h[r]
  BY <1>2, <1>7
<1> QED
  BY <1>3, <1>4, <1>5, <1>6, <1>8 DEF Unrolled

\* What Total is of: the empty set has none, and any entry may be taken first.
LEMMA SumIsUnrolled ==
  ASSUME NEW S, IsFiniteSet(S), NEW f, \A x \in S : f[x] \in Int
  PROVE  \E g \in [SUBSET S -> Int] :
           Sums(f, S, g) /\ \A s \in SUBSET S : g[s] = Total(f, s)
<1>1. PICK g \in [SUBSET S -> Int] : Sums(f, S, g)
  BY SumsExist
<1>2. ASSUME NEW s \in SUBSET S PROVE g[s] = Total(f, s)
  <2>1. IsFiniteSet(s)
    BY FS_Subset
  <2>2. \E h : Sums(f, s, h)
    BY <2>1, SumsExist
  <2> DEFINE h == CHOOSE h : Sums(f, s, h)
  <2>3. Sums(f, s, h)
    BY <2>2
  <2>4. Total(f, s) = h[s]
    BY SumIsChosen
  <2> HIDE DEF h
  <2>5. s \in SUBSET (S \cap s)
    OBVIOUS
  <2> QED
    BY <1>1, <2>1, <2>3, <2>4, <2>5, SumsAgree
<1> QED
  BY <1>1, <1>2

LEMMA SumOfNone == ASSUME NEW f PROVE Total(f, {}) = 0
<1>1. IsFiniteSet({})
  BY FS_EmptySet
<1>2. PICK g \in [SUBSET {} -> Int] : Sums(f, {}, g) /\ \A s \in SUBSET {} : g[s] = Total(f, s)
  BY <1>1, SumIsUnrolled
<1>3. {} \in SUBSET {}
  OBVIOUS
<1> QED
  BY <1>2, <1>3 DEF Sums, Unrolled

LEMMA SumTakes ==
  ASSUME NEW S, IsFiniteSet(S), NEW f, \A x \in S : f[x] \in Int, NEW x \in S
  PROVE  Total(f, S) \in Int /\ Total(f, S \ {x}) \in Int
         /\ Total(f, S) = f[x] + Total(f, S \ {x})
<1>1. PICK g \in [SUBSET S -> Int] : Sums(f, S, g) /\ \A s \in SUBSET S : g[s] = Total(f, s)
  BY SumIsUnrolled
<1> DEFINE Splits(s) == \A y \in s : g[s] = f[y] + g[s \ {y}]
           Wrong == {n \in Nat : \E s \in SUBSET S : Cardinality(s) = n /\ ~Splits(s)}
<1>2. ASSUME NEW s \in SUBSET S PROVE Splits(s)
  <2> SUFFICES ASSUME ~Splits(s) PROVE FALSE
    OBVIOUS
  <2>1. Cardinality(s) \in Wrong
    BY FS_Subset, FS_CardinalityType
  <2>2. PICK n \in Wrong : \A m \in Wrong : n <= m
    <3> HIDE DEF Wrong
    <3>1. Wrong \in SUBSET Nat
      BY DEF Wrong
    <3> QED
      BY <2>1, <3>1, Least
  <2>3. PICK t \in SUBSET S : Cardinality(t) = n /\ ~Splits(t)
    BY <2>2
  <2>4. PICK y \in t : g[t] # f[y] + g[t \ {y}]
    BY <2>3
  <2> DEFINE z == Some(t)
  <2>5. z \in t /\ IsFiniteSet(t)
    BY SomeIsIn, FS_Subset
  <2>6. g[t] = f[z] + g[t \ {z}]
    BY <1>1, <2>5 DEF Sums, Unrolled
  <2>7. z # y
    BY <2>4, <2>6
  <2> HIDE DEF z, Splits
  <2>8. ASSUME NEW u \in t PROVE Splits(t \ {u})
    <3>1. Cardinality(t \ {u}) \in Nat /\ Cardinality(t \ {u}) < n
      BY <2>3, <2>5, Smaller
    <3>2. t \ {u} \in SUBSET S
      OBVIOUS
    <3> QED
      BY <2>2, <3>1, <3>2
  <2>9. g[t \ {z}] = f[y] + g[(t \ {z}) \ {y}] /\ g[t \ {y}] = f[z] + g[(t \ {y}) \ {z}]
    BY <2>5, <2>7, <2>8 DEF Splits
  <2>10. (t \ {z}) \ {y} = (t \ {y}) \ {z}
    OBVIOUS
  <2>11. f[y] \in Int /\ f[z] \in Int /\ g[(t \ {y}) \ {z}] \in Int
    <3>1. (t \ {y}) \ {z} \in SUBSET S
      OBVIOUS
    <3> QED
      BY <2>4, <2>5, <3>1
  <2> DEFINE both == g[(t \ {y}) \ {z}]
  <2>12. g[t \ {z}] = f[y] + both
    BY <2>9, <2>10
  <2>13. both \in Int /\ g[t \ {y}] = f[z] + both
    BY <2>9, <2>11
  <2> HIDE DEF both, Wrong
  <2>14. f[z] + (f[y] + both) = f[y] + (f[z] + both)
    BY <2>11, <2>13
  <2> QED
    BY <2>4, <2>6, <2>12, <2>13, <2>14
<1>3. S \in SUBSET S /\ S \ {x} \in SUBSET S
  OBVIOUS
<1> QED
  BY <1>1, <1>2, <1>3

LEMMA SumsAreEqual ==
  ASSUME NEW S, IsFiniteSet(S), NEW f, NEW e, \A x \in S : f[x] \in Int, \A x \in S : e[x] \in Int
  PROVE  (\A x \in S : f[x] = e[x]) => Total(f, S) = Total(e, S)
<1>1. PICK g \in [SUBSET S -> Int] : Sums(f, S, g) /\ \A s \in SUBSET S : g[s] = Total(f, s)
  BY SumIsUnrolled
<1>2. PICK h \in [SUBSET S -> Int] : Sums(e, S, h) /\ \A s \in SUBSET S : h[s] = Total(e, s)
  BY SumIsUnrolled
<1>3. S \in SUBSET S /\ S \in SUBSET (S \cap S)
  OBVIOUS
<1>4. (\A x \in S : f[x] = e[x]) => g[S] = h[S]
  BY <1>1, <1>2, <1>3, SumsAgree
<1> QED
  BY <1>1, <1>2, <1>3, <1>4

\* One entry changes.
Whole(f, S) == \A z \in S : f[z] \in Int

LEMMA SumMoves ==
  ASSUME NEW S, IsFiniteSet(S), NEW f, NEW e, NEW x \in S, Whole(f, S), Whole(e, S)
  PROVE  /\ Total(f, S) \in Int /\ Total(e, S) \in Int
         /\ (\A y \in S \ {x} : e[y] = f[y]) => Total(e, S) = Total(f, S) - f[x] + e[x]
<1> DEFINE r == S \ {x}
<1>1. IsFiniteSet(r) /\ (\A y \in r : f[y] \in Int) /\ (\A y \in r : e[y] \in Int)
  BY FS_RemoveElement DEF Whole
<1>2. (\A y \in r : f[y] = e[y]) => Total(f, r) = Total(e, r)
  <2> HIDE DEF r
  <2> QED
    BY <1>1, SumsAreEqual
<1>3. /\ Total(f, S) \in Int /\ Total(f, r) \in Int
      /\ Total(f, S) = f[x] + Total(f, r)
  BY SumTakes DEF Whole
<1>4. /\ Total(e, S) \in Int
      /\ Total(e, S) = e[x] + Total(e, r)
  BY SumTakes DEF Whole
<1>5. (\A y \in S \ {x} : e[y] = f[y]) => \A y \in r : f[y] = e[y]
  OBVIOUS
<1>6. f[x] \in Int /\ e[x] \in Int
  BY DEF Whole
<1> HIDE DEF r
<1> QED
  BY <1>2, <1>3, <1>4, <1>5, <1>6

LEMMA SumType ==
  ASSUME NEW S, IsFiniteSet(S), NEW f, \A x \in S : f[x] \in Int
  PROVE  Total(f, S) \in Int
<1>1. PICK g \in [SUBSET S -> Int] : Sums(f, S, g) /\ \A s \in SUBSET S : g[s] = Total(f, s)
  BY SumIsUnrolled
<1> QED
  BY <1>1

\* What holds of the empty set and of a set once it holds without one of its elements.
LEMMA SubsetInduction ==
  ASSUME NEW S, IsFiniteSet(S), NEW T \in SUBSET (SUBSET S), {} \in T,
         \A s \in SUBSET S : \A x \in s : s \ {x} \in T => s \in T
  PROVE  S \in T
<1> DEFINE Wrong == {n \in Nat : \E s \in SUBSET S : Cardinality(s) = n /\ s \notin T}
<1> SUFFICES ASSUME S \notin T PROVE FALSE
  OBVIOUS
<1>1. Cardinality(S) \in Wrong
  BY FS_CardinalityType
<1>2. PICK n \in Wrong : \A m \in Wrong : n <= m
  <2> HIDE DEF Wrong
  <2>1. Wrong \in SUBSET Nat
    BY DEF Wrong
  <2> QED
    BY <1>1, <2>1, Least
<1>3. PICK s \in SUBSET S : Cardinality(s) = n /\ s \notin T
  BY <1>2
<1>4. PICK x \in s : TRUE
  <2>1. s # {}
    BY <1>3
  <2> QED
    BY <2>1
<1>5. s \ {x} \in SUBSET S /\ Cardinality(s \ {x}) \in Nat /\ Cardinality(s \ {x}) < n
  BY <1>3, FS_Subset, Smaller
<1>6. s \ {x} \in T
  BY <1>2, <1>5
<1> QED
  BY <1>3, <1>6

LEMMA SumIsNat ==
  ASSUME NEW S, IsFiniteSet(S), NEW f, \A x \in S : f[x] \in Nat
  PROVE  Total(f, S) \in Nat
<1> DEFINE T == {s \in SUBSET S : Total(f, s) \in Nat}
<1>1. {} \in T
  BY SumOfNone
<1>2. ASSUME NEW s \in SUBSET S, NEW x \in s, s \ {x} \in T PROVE s \in T
  <2>1. IsFiniteSet(s) /\ \A y \in s : f[y] \in Int
    BY FS_Subset
  <2>2. Total(f, s) = f[x] + Total(f, s \ {x})
    BY <2>1, SumTakes
  <2> QED
    BY <1>2, <2>2
<1>3. S \in T
  <2> HIDE DEF T
  <2>1. T \in SUBSET (SUBSET S)
    BY DEF T
  <2> QED
    BY <1>1, <1>2, <2>1, SubsetInduction
<1> QED
  BY <1>3

\* The sum of two functions.
LEMMA SumAdds ==
  ASSUME NEW S, IsFiniteSet(S), NEW f, NEW e, NEW h,
         \A x \in S : f[x] \in Int /\ e[x] \in Int /\ h[x] = f[x] + e[x]
  PROVE  Total(h, S) = Total(f, S) + Total(e, S)
<1> DEFINE T == {s \in SUBSET S : Total(h, s) = Total(f, s) + Total(e, s)}
<1>1. {} \in T
  BY SumOfNone
<1>2. ASSUME NEW s \in SUBSET S, NEW x \in s, s \ {x} \in T PROVE s \in T
  <2>1. /\ IsFiniteSet(s)
        /\ \A y \in s : f[y] \in Int
        /\ \A y \in s : e[y] \in Int
        /\ \A y \in s : h[y] \in Int
    BY FS_Subset
  <2>2. /\ Total(f, s) = f[x] + Total(f, s \ {x}) /\ Total(f, s \ {x}) \in Int
        /\ Total(e, s) = e[x] + Total(e, s \ {x}) /\ Total(e, s \ {x}) \in Int
        /\ Total(h, s) = h[x] + Total(h, s \ {x})
    BY <2>1, SumTakes
  <2> QED
    BY <1>2, <2>2
<1>3. S \in T
  <2> HIDE DEF T
  <2>1. T \in SUBSET (SUBSET S)
    BY DEF T
  <2> QED
    BY <1>1, <1>2, <2>1, SubsetInduction
<1> QED
  BY <1>3

\* What bounds every entry in proportion bounds the sum.
LEMMA SumBounds ==
  ASSUME NEW S, IsFiniteSet(S), NEW f, NEW e, NEW k \in Nat, NEW m \in Nat,
         \A x \in S : f[x] \in Nat /\ e[x] \in Nat /\ k * f[x] <= m * e[x]
  PROVE  k * Total(f, S) <= m * Total(e, S)
<1> DEFINE T == {s \in SUBSET S : k * Total(f, s) <= m * Total(e, s)}
<1>1. {} \in T
  BY SumOfNone
<1>2. ASSUME NEW s \in SUBSET S, NEW x \in s, s \ {x} \in T PROVE s \in T
  <2> DEFINE a == Total(f, s \ {x})
             b == Total(e, s \ {x})
  <2>1. /\ IsFiniteSet(s)
        /\ \A y \in s : f[y] \in Int
        /\ \A y \in s : e[y] \in Int
    BY FS_Subset
  <2>2. /\ Total(f, s) = f[x] + a /\ a \in Int
        /\ Total(e, s) = e[x] + b /\ b \in Int
    BY <2>1, SumTakes
  <2>3. k * a <= m * b
    BY <1>2
  <2> HIDE DEF a, b
  <2>4. f[x] \in Nat /\ e[x] \in Nat /\ k * f[x] <= m * e[x]
    OBVIOUS
  <2>5. k * (f[x] + a) = k * f[x] + k * a /\ m * (e[x] + b) = m * e[x] + m * b
        /\ k * f[x] \in Int /\ k * a \in Int /\ m * e[x] \in Int /\ m * b \in Int
    BY <2>2, <2>4
  <2>6. k * Total(f, s) <= m * Total(e, s)
    BY <2>2, <2>3, <2>4, <2>5
  <2> QED
    BY <2>6
<1>3. S \in T
  <2> HIDE DEF T
  <2>1. T \in SUBSET (SUBSET S)
    BY DEF T
  <2> QED
    BY <1>1, <1>2, <2>1, SubsetInduction
<1> QED
  BY <1>3

\* The entries of a set that are not all zero lie in the other set.
LEMMA SumOfPart ==
  ASSUME NEW S, IsFiniteSet(S), NEW V \in SUBSET S, NEW U \in SUBSET S, NEW f,
         \A x \in S : f[x] \in Nat, \A x \in U \ V : f[x] = 0
  PROVE  Total(f, U) <= Total(f, V)
<1> DEFINE T == {s \in SUBSET S : Total(f, U \cap s) <= Total(f, V \cap s)}
<1>1. {} \in T
  <2>1. U \cap {} = {} /\ V \cap {} = {}
    OBVIOUS
  <2> QED
    BY <2>1, SumOfNone
<1>2. ASSUME NEW s \in SUBSET S, NEW x \in s, s \ {x} \in T PROVE s \in T
  <2> DEFINE u == U \cap s
             v == V \cap s
  <2>1. U \cap (s \ {x}) = u \ {x} /\ V \cap (s \ {x}) = v \ {x}
    OBVIOUS
  <2>2. Total(f, u \ {x}) <= Total(f, v \ {x})
    BY <1>2, <2>1
  <2>3. /\ IsFiniteSet(u) /\ \A y \in u : f[y] \in Int
        /\ IsFiniteSet(v) /\ \A y \in v : f[y] \in Int
    BY FS_Subset
  <2>4. Total(f, u) \in Int /\ Total(f, v) \in Int
    BY <2>3, SumType
  <2> DEFINE p == Total(f, u \ {x})
             q == Total(f, v \ {x})
  <2>5. x \notin u => p = Total(f, u)
    <3>1. x \notin u => u \ {x} = u
      OBVIOUS
    <3> QED
      BY <3>1
  <2>6. x \notin v => q = Total(f, v)
    <3>1. x \notin v => v \ {x} = v
      OBVIOUS
    <3> QED
      BY <3>1
  <2>7. x \in u => Total(f, u) = f[x] + p /\ p \in Int
    BY <2>3, SumTakes
  <2>8. x \in v => Total(f, v) = f[x] + q /\ q \in Int
    BY <2>3, SumTakes
  <2>9. f[x] \in Nat /\ (x \in u /\ x \notin v => f[x] = 0)
    OBVIOUS
  <2> HIDE DEF u, v, p, q
  <2>10. Total(f, u) <= Total(f, v)
    BY <2>2, <2>4, <2>5, <2>6, <2>7, <2>8, <2>9 DEF p, q
  <2> QED
    BY <2>10 DEF u, v
<1>3. S \in T
  <2> HIDE DEF T
  <2>1. T \in SUBSET (SUBSET S)
    BY DEF T
  <2> QED
    BY <1>1, <1>2, <2>1, SubsetInduction
<1>4. U \cap S = U /\ V \cap S = V
  OBVIOUS
<1> QED
  BY <1>3, <1>4

OfClass(S, class, a) == {x \in S : class[x] = a}

\* Values that are sorted into classes: the sum of the sums of the classes.
LEMMA SumOfClasses ==
  ASSUME NEW S, IsFiniteSet(S), NEW A, IsFiniteSet(A), NEW f, NEW class \in [S -> A], NEW h,
         \A x \in S : f[x] \in Int,
         \A a \in A : h[a] = Total(f, OfClass(S, class, a))
  PROVE  Total(h, A) = Total(f, S)
<1> DEFINE Of(s, a) == {x \in s : class[x] = a}
           Sorted(s) == [a \in A |-> Total(f, Of(s, a))]
           T == {s \in SUBSET S : Total(Sorted(s), A) = Total(f, s)}
<1>1. ASSUME NEW s \in SUBSET S, NEW a \in A
      PROVE  /\ IsFiniteSet(s) /\ \A y \in s : f[y] \in Int
             /\ IsFiniteSet(Of(s, a)) /\ \A y \in Of(s, a) : f[y] \in Int
             /\ Sorted(s)[a] \in Int
  <2>1. IsFiniteSet(s) /\ IsFiniteSet(Of(s, a)) /\ \A y \in Of(s, a) : f[y] \in Int
    BY FS_Subset
  <2>2. Total(f, Of(s, a)) \in Int
    <3> HIDE DEF Of
    <3> QED
      BY <2>1, SumType
  <2> QED
    BY <2>1, <2>2
<1>2. {} \in T
  <2> DEFINE none == Sorted({})
  <2>1. ASSUME NEW a \in A PROVE none[a] = 0
    <3>1. Of({}, a) = {}
      OBVIOUS
    <3> QED
      BY <3>1, SumOfNone
  <2>2. \A a \in A : none[a] \in Int /\ none[a] = none[a] + none[a]
    BY <2>1
  <2> HIDE DEF none
  <2> DEFINE n == Total(none, A)
  <2>3. n + n = n /\ n \in Int
    BY <2>2, SumAdds, SumType
  <2>4. n = 0
    <3> HIDE DEF n
    <3> QED
      BY <2>3
  <2> QED
    BY <2>4, SumOfNone DEF none
<1>3. ASSUME NEW s \in SUBSET S, NEW x \in s, s \ {x} \in T PROVE s \in T
  <2> DEFINE r == s \ {x}
             b == class[x]
             was == Sorted(r)
             is == Sorted(s)
  <2>1. b \in A /\ r \in SUBSET S
    OBVIOUS
  <2>2. ASSUME NEW a \in A \ {b} PROVE is[a] = was[a]
    <3>1. Of(r, a) = Of(s, a)
      OBVIOUS
    <3> QED
      BY <3>1
  <2>3. is[b] = f[x] + was[b]
    <3>1. Of(r, b) = Of(s, b) \ {x} /\ x \in Of(s, b)
      OBVIOUS
    <3>2. Total(f, Of(s, b)) = f[x] + Total(f, Of(s, b) \ {x})
      <4>1. IsFiniteSet(Of(s, b)) /\ \A y \in Of(s, b) : f[y] \in Int
        BY <1>1, <2>1
      <4> HIDE DEF Of
      <4> QED
        BY <3>1, <4>1, SumTakes
    <3> QED
      BY <2>1, <3>1, <3>2
  <2>4. (\A a \in A : was[a] \in Int) /\ (\A a \in A : is[a] \in Int)
    BY <1>1, <2>1
  <2>5. Total(f, s) = f[x] + Total(f, r) /\ f[x] \in Int /\ Total(f, r) \in Int
    BY <1>1, <2>1, SumTakes
  <2>6. Total(was, A) = Total(f, r)
    BY <1>3
  <2> HIDE DEF r, b, was, is
  <2>7. Total(is, A) = Total(was, A) - was[b] + is[b]
    <3> HIDE DEF Sorted, Of, T
    <3>1. b \in A /\ Whole(was, A) /\ Whole(is, A)
      BY <2>1, <2>4 DEF Whole
    <3>2. (\A a \in A \ {b} : is[a] = was[a]) => Total(is, A) = Total(was, A) - was[b] + is[b]
      BY ONLY IsFiniteSet(A), <3>1, SumMoves
    <3> QED
      BY <2>2, <3>2
  <2>8. Total(is, A) = Total(f, s)
    BY <2>1, <2>3, <2>4, <2>5, <2>6, <2>7
  <2> QED
    BY <2>8 DEF is
<1>4. S \in T
  <2> HIDE DEF T
  <2>1. T \in SUBSET (SUBSET S)
    BY DEF T
  <2> QED
    BY <1>2, <1>3, <2>1, SubsetInduction
<1> DEFINE all == Sorted(S)
<1>5. \A a \in A : all[a] \in Int /\ h[a] = all[a]
  BY <1>1 DEF OfClass
<1>6. Total(all, A) = Total(f, S)
  BY <1>4
<1> HIDE DEF all
<1>7. \A a \in A : all[a] \in Int
  BY <1>5
<1>8. \A a \in A : h[a] \in Int
  BY <1>5
<1>9. Total(h, A) = Total(all, A)
  BY <1>5, <1>7, <1>8, SumsAreEqual
<1> QED
  BY <1>6, <1>9

\* A function that is zero everywhere.
LEMMA SumOfZeros ==
  ASSUME NEW S, IsFiniteSet(S), NEW f, \A x \in S : f[x] = 0
  PROVE  Total(f, S) = 0
<1>1. \A x \in S : f[x] \in Nat
  OBVIOUS
<1>2. Total(f, S) \in Nat
  BY <1>1, SumIsNat
<1>3. {} \in SUBSET S /\ S \in SUBSET S /\ \A x \in S \ {} : f[x] = 0
  OBVIOUS
<1>4. Total(f, S) <= Total(f, {})
  BY <1>1, <1>3, SumOfPart
<1> QED
  BY <1>2, <1>4, SumOfNone

\* One entry of a function grows, or one gives to another.
Grown(f, e, S, x, n) == e[x] = f[x] + n /\ \A z \in S \ {x} : e[z] = f[z]

Shifted(f, e, S, x, y, n) ==
  e[x] = f[x] - n /\ e[y] = f[y] + n /\ \A z \in S \ {x, y} : e[z] = f[z]

LEMMA SumGrows ==
  ASSUME NEW S, IsFiniteSet(S), NEW f, NEW e, NEW x \in S, NEW n \in Int, Whole(f, S)
  PROVE  Grown(f, e, S, x, n) =>
           Total(f, S) \in Int /\ Total(e, S) = Total(f, S) + n /\ Whole(e, S)
<1> SUFFICES ASSUME Grown(f, e, S, x, n)
             PROVE  Total(f, S) \in Int /\ Total(e, S) = Total(f, S) + n /\ Whole(e, S)
  OBVIOUS
<1>1. e[x] = f[x] + n /\ f[x] \in Int /\ \A z \in S \ {x} : e[z] = f[z]
  BY DEF Grown, Whole
<1>2. Whole(e, S)
  BY <1>1 DEF Whole
<1>3. /\ Total(f, S) \in Int
      /\ (\A y \in S \ {x} : e[y] = f[y]) => Total(e, S) = Total(f, S) - f[x] + e[x]
  BY <1>2, SumMoves
<1> QED
  BY <1>1, <1>2, <1>3

LEMMA SumShifts ==
  ASSUME NEW S, IsFiniteSet(S), NEW f, NEW e, NEW x \in S, NEW y \in S, NEW n \in Int,
         Whole(f, S)
  PROVE  x # y /\ Shifted(f, e, S, x, y, n) => Total(e, S) = Total(f, S) /\ Whole(e, S)
<1> SUFFICES ASSUME x # y, Shifted(f, e, S, x, y, n)
             PROVE  Total(e, S) = Total(f, S) /\ Whole(e, S)
  OBVIOUS
<1> DEFINE mid == [z \in S |-> IF z = x THEN f[z] - n ELSE f[z]]
<1>1. Grown(mid, f, S, x, n)
  BY DEF Grown, Whole
<1>2. Grown(mid, e, S, y, n)
  BY DEF Shifted, Grown
<1>3. Whole(mid, S)
  BY DEF Whole
<1> HIDE DEF mid
<1>4. Total(f, S) = Total(mid, S) + n
  BY <1>1, <1>3, SumGrows
<1>5. Total(e, S) = Total(mid, S) + n /\ Whole(e, S)
  BY <1>2, <1>3, SumGrows
<1> QED
  BY <1>4, <1>5
-----------------------------------------------------------------------------
(* The split of a reward.                                                  *)

Parts == [user : Nat, buyback : Nat, staking : Nat, dao : Nat, emergency : Nat]

\* Every part of a split is a number of atoms, and together they are the reward: nothing is
\* lost and nothing is made by the rounding.
THEOREM SplitLosesNothing ==
  ASSUME NEW reward \in Nat
  PROVE  LET part == Split(reward)
         IN  /\ part \in Parts
             /\ part.user + part.buyback + part.staking + part.dao + part.emergency = reward
<1> DEFINE user == (reward * 85) \div 100
           fee == reward - user
           buyback == (fee * 20) \div 100
           staking == (fee * 40) \div 100
           dao == (fee * 30) \div 100
           emergency == fee - buyback - staking - dao
<1>1. Split(reward) = [user |-> user, buyback |-> buyback, staking |-> staking, dao |-> dao,
                       emergency |-> emergency]
  BY DEF Split
<1>2. user \in Nat /\ fee \in Nat
  OBVIOUS
<1> HIDE DEF user, fee
<1>3. buyback \in Nat /\ staking \in Nat /\ dao \in Nat /\ emergency \in Nat
  BY <1>2
<1>4. user + buyback + staking + dao + emergency = reward
  BY <1>2, <1>3 DEF fee
<1> HIDE DEF buyback, staking, dao, emergency
<1> QED
  BY <1>1, <1>2, <1>3, <1>4 DEF Parts

FourFunds == {"buyback", "staking", "dao", "emergency"}

\* The accounts f become e when the parts are paid to the funds and to an owner.
Credits(f, e, S, owner, part) ==
  /\ e[owner] = f[owner] + part.user
  /\ e["buyback"] = f["buyback"] + part.buyback
  /\ e["staking"] = f["staking"] + part.staking
  /\ e["dao"] = f["dao"] + part.dao
  /\ e["emergency"] = f["emergency"] + part.emergency
  /\ \A z \in S \ (FourFunds \cup {owner}) : e[z] = f[z]

LEMMA CreditsAddUp ==
  ASSUME NEW S, IsFiniteSet(S), FourFunds \subseteq S, NEW owner \in S \ FourFunds,
         NEW f, NEW e, Whole(f, S), NEW reward \in Nat
  PROVE  Credits(f, e, S, owner, Split(reward)) =>
           Total(f, S) \in Int /\ Total(e, S) = Total(f, S) + reward
<1> SUFFICES ASSUME Credits(f, e, S, owner, Split(reward))
             PROVE  Total(f, S) \in Int /\ Total(e, S) = Total(f, S) + reward
  OBVIOUS
<1> DEFINE part == Split(reward)
           f1 == [z \in S |-> IF z = owner THEN f[z] + part.user ELSE f[z]]
           f2 == [z \in S |-> IF z = "buyback" THEN f1[z] + part.buyback ELSE f1[z]]
           f3 == [z \in S |-> IF z = "staking" THEN f2[z] + part.staking ELSE f2[z]]
           f4 == [z \in S |-> IF z = "dao" THEN f3[z] + part.dao ELSE f3[z]]
<1>1. part \in Parts
      /\ part.user + part.buyback + part.staking + part.dao + part.emergency = reward
  BY SplitLosesNothing
<1>2. Credits(f, e, S, owner, part)
  OBVIOUS
<1> HIDE DEF part
<1> DEFINE user == part.user
           buyback == part.buyback
           staking == part.staking
           dao == part.dao
           emergency == part.emergency
<1>3. user \in Int /\ buyback \in Int /\ staking \in Int /\ dao \in Int /\ emergency \in Int
      /\ user + buyback + staking + dao + emergency = reward
  BY <1>1 DEF Parts
<1>4. "buyback" \in S /\ "staking" \in S /\ "dao" \in S /\ "emergency" \in S
  BY DEF FourFunds
<1>5. Grown(f, f1, S, owner, user)
  BY DEF Grown
<1>6. Grown(f1, f2, S, "buyback", buyback)
  BY <1>4 DEF Grown
<1>7. Grown(f2, f3, S, "staking", staking)
  BY <1>4 DEF Grown
<1>8. Grown(f3, f4, S, "dao", dao)
  BY <1>4 DEF Grown
<1>9. Grown(f4, e, S, "emergency", emergency)
  <2>1. /\ owner \notin FourFunds
        /\ \A z \in S : f4[z] = CASE z = owner -> f[z] + part.user
                                  [] z = "buyback" -> f[z] + part.buyback
                                  [] z = "staking" -> f[z] + part.staking
                                  [] z = "dao" -> f[z] + part.dao
                                  [] OTHER -> f[z]
    BY DEF FourFunds
  <2> HIDE DEF f4
  <2> QED
    BY <1>2, <1>4, <2>1 DEF Grown, Credits, FourFunds
<1> HIDE DEF f1, f2, f3, f4, user, buyback, staking, dao, emergency
<1>10. Total(f, S) \in Int /\ Total(f1, S) = Total(f, S) + user /\ Whole(f1, S)
  BY ONLY IsFiniteSet(S), Whole(f, S), owner \in S, <1>3, <1>5, SumGrows
<1>11. Whole(f1, S)
  BY <1>10
<1>12. Total(f2, S) = Total(f1, S) + buyback /\ Whole(f2, S)
  BY ONLY IsFiniteSet(S), <1>11, <1>3, <1>4, <1>6, SumGrows
<1>13. Whole(f2, S)
  BY <1>12
<1>14. Total(f3, S) = Total(f2, S) + staking /\ Whole(f3, S)
  BY ONLY IsFiniteSet(S), <1>13, <1>3, <1>4, <1>7, SumGrows
<1>15. Whole(f3, S)
  BY <1>14
<1>16. Total(f4, S) = Total(f3, S) + dao /\ Whole(f4, S)
  BY ONLY IsFiniteSet(S), <1>15, <1>3, <1>4, <1>8, SumGrows
<1>17. Whole(f4, S)
  BY <1>16
<1>18. Total(e, S) = Total(f4, S) + emergency
  BY ONLY IsFiniteSet(S), <1>17, <1>3, <1>4, <1>9, SumGrows
<1> DEFINE total == Total(f, S)
<1>19. total \in Int /\ Total(e, S) = total + user + buyback + staking + dao + emergency
  BY ONLY <1>10, <1>12, <1>14, <1>16, <1>18
<1> HIDE DEF total
<1>20. Total(e, S) = total + reward
  BY ONLY <1>3, <1>19
<1> QED
  BY <1>19, <1>20 DEF total
=============================================================================
