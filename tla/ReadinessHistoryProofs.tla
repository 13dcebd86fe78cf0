------------------------ MODULE ReadinessHistoryProofs ------------------------
(***************************************************************************)
(* Theorems of ReadinessHistory, for any buckets, levels, contracts, ADR   *)
(* indices, evidence, jobs and number of deaths.                           *)
(***************************************************************************)
EXTENDS ReadinessHistory, SumTheorems

-----------------------------------------------------------------------------
(* Fractions of one denominator.                                           *)

Fractions == Int \X (Nat \ {0})

\* The same denominator, and no greater a numerator.
Below(f, g) ==
    /\ f \in Fractions /\ g \in Fractions
    /\ f[2] = g[2] /\ f[1] <= g[1]

(* Arithmetic on numerators and denominators.                              *)
LEMMA Scaled ==
    ASSUME NEW a \in Int, NEW b \in Int, NEW k \in Nat, a <= b
    PROVE  a * k \in Int /\ b * k \in Int /\ a * k <= b * k
  OBVIOUS

LEMMA ScaledLeft ==
    ASSUME NEW a \in Int, NEW b \in Int, NEW k \in Nat, a <= b
    PROVE  k * a \in Int /\ k * b \in Int /\ k * a <= k * b
  OBVIOUS

LEMMA Denominators ==
    ASSUME NEW m \in Nat \ {0}, NEW n \in Nat \ {0}
    PROVE  m * n \in Nat \ {0}
  OBVIOUS

(* Fractions that are below others, over the same denominators, add up to  *)
(* less.                                                                   *)
LEMMA PlusKeepsBelow ==
    ASSUME NEW f, NEW g, NEW d, NEW e, Below(f, g), Below(d, e)
    PROVE  Below(Plus(f, d), Plus(g, e))
<1> DEFINE m == f[2]
           n == d[2]
<1>1. /\ f[1] \in Int /\ g[1] \in Int /\ d[1] \in Int /\ e[1] \in Int
      /\ m \in Nat \ {0} /\ n \in Nat \ {0} /\ g[2] = m /\ e[2] = n
      /\ f[1] <= g[1] /\ d[1] <= e[1]
  BY DEF Below, Fractions
<1> HIDE DEF m, n
<1>2. /\ f[1] * n \in Int /\ g[1] * n \in Int /\ f[1] * n <= g[1] * n
      /\ d[1] * m \in Int /\ e[1] * m \in Int /\ d[1] * m <= e[1] * m
  BY <1>1, Scaled
<1>3. m * n \in Nat \ {0}
  BY <1>1, Denominators
<1>4. /\ Plus(f, d) = <<f[1] * n + d[1] * m, m * n>>
      /\ Plus(g, e) = <<g[1] * n + e[1] * m, m * n>>
  BY <1>1 DEF Plus, m, n
<1>5. /\ f[1] * n + d[1] * m \in Int /\ g[1] * n + e[1] * m \in Int
      /\ f[1] * n + d[1] * m <= g[1] * n + e[1] * m
  BY <1>2
<1>6. QED
  BY <1>3, <1>4, <1>5 DEF Below, Fractions

(* The difference of fractions in order has the sign of the order.         *)
LEMMA MinusOfBelow ==
    ASSUME NEW f, NEW g, Below(f, g)
    PROVE  Minus(g, f)[1] >= 0 /\ Minus(f, g)[1] <= 0
<1>1. /\ f[1] \in Int /\ g[1] \in Int /\ f[2] \in Nat /\ g[2] = f[2]
      /\ f[1] <= g[1]
  BY DEF Below, Fractions
<1>2. /\ f[1] * f[2] \in Int /\ g[1] * f[2] \in Int
      /\ f[1] * f[2] <= g[1] * f[2]
  BY <1>1, Scaled
<1>3. /\ Minus(g, f)[1] = g[1] * f[2] - f[1] * f[2]
      /\ Minus(f, g)[1] = f[1] * f[2] - g[1] * f[2]
  BY <1>1 DEF Minus
<1>4. QED
  BY <1>2, <1>3

-----------------------------------------------------------------------------
(* The sum of fractions over the buckets.                                  *)

TotalBody(f, g, A) ==
    IF A = {} THEN <<0, 1>> ELSE Plus(f[Chosen(A)], g[A \ {Chosen(A)}])

IsTotal(g, f, S) == g = [A \in SUBSET S |-> TotalBody(f, g, A)]

(* The recursive function behind Total exists, by induction on the size of *)
(* the set it folds over.                                                  *)
LEMMA TotalExists ==
    ASSUME NEW S, IsFiniteSet(S), NEW f
    PROVE  \E g : IsTotal(g, f, S)
<1> DEFINE Small(n) == {A \in SUBSET S : Cardinality(A) <= n}
           T == {n \in Nat : \E g : g = [A \in Small(n) |-> TotalBody(f, g, A)]}
<1>0. \A A \in SUBSET S : IsFiniteSet(A) /\ Cardinality(A) \in Nat
  BY FS_Subset, FS_CardinalityType
<1>1. 0 \in T
  <2>1. Small(0) = {{}}
    BY <1>0, FS_EmptySet
  <2> DEFINE g == [A \in Small(0) |-> <<0, 1>>]
  <2>2. g = [A \in Small(0) |-> TotalBody(f, g, A)]
    BY <2>1 DEF TotalBody
  <2>3. QED
    BY <2>2
<1>2. ASSUME NEW n \in T PROVE n + 1 \in T
  <2>1. PICK g : g = [A \in Small(n) |-> TotalBody(f, g, A)]
    OBVIOUS
  <2> DEFINE h == [A \in Small(n + 1) |-> TotalBody(f, g, A)]
  <2>2. ASSUME NEW A \in Small(n + 1)
        PROVE  TotalBody(f, h, A) = TotalBody(f, g, A)
    <3>1. CASE A = {}
      BY <3>1 DEF TotalBody
    <3>2. CASE A # {}
      <4> DEFINE B == A \ {Chosen(A)}
      <4>1. B \in Small(n)
        BY <1>0, <2>2, <3>2, ChosenIn, FS_RemoveElement
      <4>2. B \in Small(n + 1)
        BY <1>0, <4>1
      <4>3. h[B] = g[B]
        BY <2>1, <4>1, <4>2
      <4>4. QED
        BY <3>2, <4>3 DEF TotalBody
    <3>3. QED
      BY <3>1, <3>2
  <2>3. h = [A \in Small(n + 1) |-> TotalBody(f, h, A)]
    BY <2>2
  <2> HIDE DEF h
  <2>4. \E k : k = [A \in Small(n + 1) |-> TotalBody(f, k, A)]
    BY <2>3
  <2>5. n + 1 \in Nat
    OBVIOUS
  <2>6. QED
    BY <2>4, <2>5
<1>3. T = Nat
  BY <1>1, <1>2, SetInduction
<1>4. Cardinality(S) \in T /\ Small(Cardinality(S)) = SUBSET S
  BY <1>3, FS_Subset, FS_CardinalityType
<1>5. QED
  BY <1>4 DEF IsTotal

(* Total is that function.                                                 *)
LEMMA TotalUnfolds ==
    ASSUME NEW S, IsFiniteSet(S), NEW f, DOMAIN f = S
    PROVE  \E g : IsTotal(g, f, S) /\ Total(f) = g[S]
<1> DEFINE g == CHOOSE g : g = [A \in SUBSET S |->
                   IF A = {} THEN <<0, 1>>
                   ELSE Plus(f[CHOOSE x \in A : TRUE],
                             g[A \ {CHOOSE x \in A : TRUE}])]
<1>1. IsTotal(g, f, S)
  <2>1. \E k : k = [A \in SUBSET S |->
                   IF A = {} THEN <<0, 1>>
                   ELSE Plus(f[CHOOSE x \in A : TRUE],
                             k[A \ {CHOOSE x \in A : TRUE}])]
    <3>1. PICK k : IsTotal(k, f, S)
      BY TotalExists
    <3>2. k = [A \in SUBSET S |->
                   IF A = {} THEN <<0, 1>>
                   ELSE Plus(f[CHOOSE x \in A : TRUE],
                             k[A \ {CHOOSE x \in A : TRUE}])]
      BY <3>1 DEF IsTotal, TotalBody, Chosen
    <3>3. QED
      BY <3>2
  <2>2. g = [A \in SUBSET S |->
                   IF A = {} THEN <<0, 1>>
                   ELSE Plus(f[CHOOSE x \in A : TRUE],
                             g[A \ {CHOOSE x \in A : TRUE}])]
    BY <2>1
  <2>3. QED
    BY <2>2 DEF IsTotal, TotalBody, Chosen
<1>2. Total(f) = g[S]
  BY DEF Total, FoldFunction, FoldFunctionOnSet, MapThenFoldSet
<1>3. QED
  BY <1>1, <1>2

(* Summands of the same denominators that are no less have no lesser sum.  *)
LEMMA TotalKeepsBelow ==
    ASSUME NEW S, IsFiniteSet(S), NEW f, NEW e, DOMAIN f = S, DOMAIN e = S,
           \A x \in S : Below(f[x], e[x])
    PROVE  Below(Total(f), Total(e))
<1>1. PICK g : IsTotal(g, f, S) /\ Total(f) = g[S]
  BY TotalUnfolds
<1>2. PICK h : IsTotal(h, e, S) /\ Total(e) = h[S]
  BY TotalUnfolds
<1> DEFINE T == {A \in SUBSET S : Below(g[A], h[A])}
<1>3. ASSUME NEW A \in SUBSET S, \A x \in A : A \ {x} \in T PROVE A \in T
  <2>0. g[A] = TotalBody(f, g, A) /\ h[A] = TotalBody(e, h, A)
    BY <1>1, <1>2 DEF IsTotal
  <2>1. CASE A = {}
    <3>1. g[A] = <<0, 1>> /\ h[A] = <<0, 1>>
      BY <2>0, <2>1 DEF TotalBody
    <3>2. QED
      BY <3>1 DEF Below, Fractions
  <2>2. CASE A # {}
    <3> DEFINE x == Chosen(A)
               B == A \ {x}
    <3>1. x \in A
      BY <2>2, ChosenIn
    <3>2. g[A] = Plus(f[x], g[B]) /\ h[A] = Plus(e[x], h[B])
      BY <2>0, <2>2 DEF TotalBody
    <3>3. Below(f[x], e[x]) /\ Below(g[B], h[B])
      BY <1>3, <3>1
    <3> HIDE DEF x, B
    <3>4. Below(g[A], h[A])
      BY <3>2, <3>3, PlusKeepsBelow
    <3>5. QED
      BY <3>4
  <2>3. QED
    BY <2>1, <2>2
<1>4. T \in SUBSET SUBSET S
  OBVIOUS
<1> HIDE DEF T
<1>5. T = SUBSET S
  BY <1>3, <1>4, SubsetInduction
<1>6. Below(g[S], h[S])
  BY <1>5 DEF T
<1>7. QED
  BY <1>1, <1>2, <1>6

-----------------------------------------------------------------------------
(* Maturing.  Points grow with the level; so do the points of decisions of *)
(* which, from any level on, there are no fewer.                           *)

(* What the assumption on the contracts says, fact by fact.                *)
LEMMA Inputs ==
    /\ Top \in Nat /\ IsFiniteSet(Buckets)
    /\ \A c \in DOMAIN Contracts :
          /\ Contracts[c].weights \in [Buckets -> Nat \ {0}]
          /\ Contracts[c].points \in [Levels -> 0 .. 100]
          /\ \A l \in 1 .. Top : Contracts[c].points[l - 1] < Contracts[c].points[l]
    /\ Decisions \in [Profiles -> [Buckets -> [Levels -> Nat]]]
    /\ \A p \in Profiles, b \in Buckets : \E l \in Levels : Decisions[p][b][l] > 0
    /\ Frozen.contract \in DOMAIN Contracts /\ Frozen.profile \in Profiles
  BY ScoreAssumption

\* One level of the sum: what is counted there, and what is counted above it.
LEMMA AbelStep ==
    ASSUME NEW k \in Int, NEW n \in Int, k <= n,
           NEW d \in Int, NEW a \in Nat, NEW w \in Int, w >= n * a
    PROVE  /\ k * d \in Int /\ k * (d + a) \in Int
           /\ k * d + w >= k * (d + a)
<1>1. k * a \in Int /\ n * a \in Int /\ k * a <= n * a
  BY Scaled
<1>2. k * (d + a) = k * d + k * a /\ k * d \in Int /\ k * (d + a) \in Int
  OBVIOUS
<1>3. QED
  BY <1>1, <1>2

(* Multiplication distributes over a difference.                           *)
LEMMA Distributes ==
    ASSUME NEW k \in Int, NEW d \in Int, NEW e \in Int
    PROVE  /\ k * d \in Int /\ k * e \in Int /\ k * (e - d) \in Int
           /\ k * (e - d) = k * e - k * d
  OBVIOUS

(* Abel summation: units that moved to higher levels, none lost, carry more*)
(* points in total, since each level is worth more than the one below.     *)
LEMMA MaturedPoints ==
    ASSUME NEW points \in [Levels -> 0 .. 100],
           \A l \in 1 .. Top : points[l - 1] < points[l],
           NEW d \in [Levels -> Nat], NEW e \in [Levels -> Nat],
           \A l \in Levels : SumFunctionOnSet(d, l .. Top) <= SumFunctionOnSet(e, l .. Top),
           SumFunctionOnSet(d, 0 .. Top) = SumFunctionOnSet(e, 0 .. Top)
    PROVE  SumFunction([l \in Levels |-> points[l] * d[l]])
             <= SumFunction([l \in Levels |-> points[l] * e[l]])
<1> DEFINE f == [l \in Levels |-> points[l] * d[l]]
           g == [l \in Levels |-> points[l] * e[l]]
           D(l) == SumFunctionOnSet(d, l .. Top)
           E(l) == SumFunctionOnSet(e, l .. Top)
           F(l) == SumFunctionOnSet(f, l .. Top)
           G(l) == SumFunctionOnSet(g, l .. Top)
           Claim(l) == G(l) - F(l) >= points[l] * (E(l) - D(l))
           T == {n \in Nat : n <= Top => Claim(Top - n)}
<1>0. \A l \in Levels : points[l] \in Int /\ d[l] \in Int /\ e[l] \in Int
  <2> TAKE l \in Levels
  <2>1. points[l] \in 0 .. 100
    OBVIOUS
  <2>2. d[l] \in Nat /\ e[l] \in Nat
    OBVIOUS
  <2>3. 0 .. 100 \subseteq Int /\ Nat \subseteq Int
    OBVIOUS
  <2>4. QED
    BY <2>1, <2>2, <2>3
<1>1. Top \in Nat /\ Levels = 0 .. Top
  BY Inputs DEF Levels
<1>2. \A l \in Levels : /\ points[l] \in Int /\ d[l] \in Int /\ e[l] \in Int
                        /\ f[l] = points[l] * d[l] /\ g[l] = points[l] * e[l]
                        /\ f[l] \in Int /\ g[l] \in Int
  <2> TAKE l \in Levels
  <2>1. points[l] \in Int /\ d[l] \in Int /\ e[l] \in Int
    BY <1>0
  <2>2. f[l] = points[l] * d[l] /\ g[l] = points[l] * e[l]
    OBVIOUS
  <2>3. QED
    BY <2>1, <2>2, Distributes
<1>3. DOMAIN f = Levels /\ DOMAIN g = Levels
  OBVIOUS
<1> HIDE DEF f, g
<1>4. ASSUME NEW l \in Levels
      PROVE  /\ D(l) \in Int /\ E(l) \in Int /\ F(l) \in Int /\ G(l) \in Int
             /\ D(l) <= E(l)
             /\ D(l) = d[l] + SumFunctionOnSet(d, (l .. Top) \ {l})
             /\ E(l) = e[l] + SumFunctionOnSet(e, (l .. Top) \ {l})
             /\ F(l) = f[l] + SumFunctionOnSet(f, (l .. Top) \ {l})
             /\ G(l) = g[l] + SumFunctionOnSet(g, (l .. Top) \ {l})
  <2> DEFINE S == l .. Top
  <2>0. l \in Int /\ 0 <= l /\ l <= Top /\ Top \in Int
    BY <1>1
  <2>1. IsFiniteSet(S) /\ l \in S /\ S \subseteq Levels
    <3>1. IsFiniteSet(S)
      BY <2>0, FS_Interval
    <3>2. l \in S
      BY <2>0
    <3>3. S \subseteq 0 .. Top
      BY <2>0
    <3>4. QED
      BY <1>1, <3>1, <3>2, <3>3
  <2>2. \A x \in S : d[x] \in Int /\ e[x] \in Int /\ f[x] \in Int /\ g[x] \in Int
    BY <1>2, <2>1
  <2> HIDE DEF S
  <2>3. /\ SumFunctionOnSet(d, S) \in Int
        /\ SumFunctionOnSet(d, S) = d[l] + SumFunctionOnSet(d, S \ {l})
    BY <2>1, <2>2, SumTakesOut
  <2>4. /\ SumFunctionOnSet(e, S) \in Int
        /\ SumFunctionOnSet(e, S) = e[l] + SumFunctionOnSet(e, S \ {l})
    BY <2>1, <2>2, SumTakesOut
  <2>5. /\ SumFunctionOnSet(f, S) \in Int
        /\ SumFunctionOnSet(f, S) = f[l] + SumFunctionOnSet(f, S \ {l})
    BY <2>1, <2>2, SumTakesOut
  <2>6. /\ SumFunctionOnSet(g, S) \in Int
        /\ SumFunctionOnSet(g, S) = g[l] + SumFunctionOnSet(g, S \ {l})
    BY <2>1, <2>2, SumTakesOut
  <2>7. D(l) <= E(l)
    OBVIOUS
  <2>8. QED
    BY <2>3, <2>4, <2>5, <2>6, <2>7 DEF S
<1>5. ASSUME NEW l \in Levels, l < Top
      PROVE  /\ D(l) = d[l] + D(l + 1) /\ E(l) = e[l] + E(l + 1)
             /\ F(l) = f[l] + F(l + 1) /\ G(l) = g[l] + G(l + 1)
  <2>1. (l .. Top) \ {l} = (l + 1) .. Top
    <3>1. l \in Int /\ Top \in Int /\ l < Top
      BY <1>1, <1>5
    <3> HIDE DEF F, G, D, E, T, Claim
    <3>2. QED
      BY <3>1
  <2>2. QED
    BY <1>4, <2>1
<1>6. Claim(Top)
  <2>1. Top \in Levels
    BY <1>1
  <2>2. (Top .. Top) \ {Top} = {} /\ IsFiniteSet({})
    BY <1>1, FS_EmptySet
  <2>3. \A h : SumFunctionOnSet(h, {}) = 0
    BY <2>2, SumTakesOut
  <2>4. /\ D(Top) = d[Top] /\ E(Top) = e[Top]
        /\ F(Top) = f[Top] /\ G(Top) = g[Top]
    <3>1. /\ d[Top] \in Int /\ e[Top] \in Int /\ f[Top] \in Int /\ g[Top] \in Int
      BY <1>2, <2>1
    <3>2. /\ D(Top) = d[Top] + SumFunctionOnSet(d, {})
          /\ E(Top) = e[Top] + SumFunctionOnSet(e, {})
          /\ F(Top) = f[Top] + SumFunctionOnSet(f, {})
          /\ G(Top) = g[Top] + SumFunctionOnSet(g, {})
      BY <1>4, <2>1, <2>2
    <3>3. /\ SumFunctionOnSet(d, {}) = 0 /\ SumFunctionOnSet(e, {}) = 0
          /\ SumFunctionOnSet(f, {}) = 0 /\ SumFunctionOnSet(g, {}) = 0
      BY <2>3
    <3> HIDE DEF F, G, D, E
    <3>4. QED
      BY <3>1, <3>2, <3>3
  <2>5. g[Top] - f[Top] = points[Top] * (e[Top] - d[Top])
    BY <1>2, <2>1, Distributes
  <2>6. points[Top] * (e[Top] - d[Top]) \in Int
    BY <1>2, <2>1, Distributes
  <2>7. QED
    BY <2>4, <2>5, <2>6
<1> HIDE DEF D, E, F, G
<1>7. ASSUME NEW l \in Levels, l < Top, Claim(l + 1)
      PROVE  Claim(l)
  <2> DEFINE m == l + 1
             k == points[l]
             n == points[m]
             u == e[l] - d[l]
             a == E(m) - D(m)
             w == G(m) - F(m)
  <2>1. m \in Levels /\ m \in 1 .. Top /\ m - 1 = l
    BY <1>1, <1>7
  <2>2. k \in Int /\ n \in Int /\ k <= n
    BY <1>2, <2>1
  <2>3. /\ D(m) \in Int /\ E(m) \in Int /\ F(m) \in Int /\ G(m) \in Int /\ D(m) <= E(m)
        /\ D(l) = d[l] + D(m) /\ E(l) = e[l] + E(m)
        /\ F(l) = f[l] + F(m) /\ G(l) = g[l] + G(m)
    BY <1>4, <1>5, <1>7, <2>1
  <2>4. d[l] \in Int /\ e[l] \in Int /\ f[l] \in Int /\ g[l] \in Int
    BY <1>2
  <2>5. a \in Nat /\ u \in Int /\ w \in Int
    BY <2>3, <2>4
  <2>6. w >= n * a
    BY <1>7
  <2>7. g[l] - f[l] = k * u
    BY <1>2, <2>4, Distributes
  <2>8. E(l) - D(l) = u + a
    BY <2>3, <2>4
  <2>9. G(l) - F(l) = k * u + w
    <3>1. G(l) - F(l) = (g[l] - f[l]) + w
      BY <2>3, <2>4
    <3>2. QED
      BY <2>7, <3>1
  <2> HIDE DEF k, n, u, a, w
  <2>10. k * u + w >= k * (u + a)
    BY <2>2, <2>5, <2>6, AbelStep
  <2>11. QED
    BY <2>8, <2>9, <2>10 DEF k
<1> HIDE DEF Claim
<1>8. T = Nat
  <2>1. 0 \in T
    BY <1>1, <1>6
  <2>2. ASSUME NEW n \in T PROVE n + 1 \in T
    <3>1. SUFFICES ASSUME n + 1 <= Top PROVE Claim(Top - (n + 1))
      OBVIOUS
    <3> DEFINE l == Top - (n + 1)
    <3>2. l \in Levels /\ l < Top /\ l + 1 = Top - n /\ n <= Top
      BY <1>1, <3>1
    <3>3. Claim(l + 1)
      BY <3>2
    <3>4. QED
      BY <1>7, <3>2, <3>3
  <2>3. T \in SUBSET Nat
    OBVIOUS
  <2> HIDE DEF T
  <2>4. QED
    BY <2>1, <2>2, <2>3, SetInduction
<1>9. Claim(0)
  <2> HIDE DEF T
  <2>1. Top \in T /\ Top - Top = 0 /\ Top <= Top
    BY <1>1, <1>8
  <2>2. QED
    BY <2>1 DEF T
<1>10. F(0) <= G(0)
  <2>1. 0 \in Levels
    BY <1>1
  <2>2. D(0) = E(0)
    BY DEF D, E
  <2>3. /\ F(0) \in Int /\ G(0) \in Int
        /\ points[0] \in Int /\ E(0) - D(0) = 0
    <3>1. points[0] \in Int
      BY <1>0, <2>1
    <3>2. D(0) \in Int /\ E(0) \in Int /\ F(0) \in Int /\ G(0) \in Int
      BY <1>4, <2>1
    <3>3. E(0) - D(0) = 0
      BY <2>2, <3>2
    <3>4. QED
      BY <3>1, <3>2, <3>3
  <2>4. G(0) - F(0) >= points[0] * 0
    BY <1>9, <2>3 DEF Claim
  <2>5. points[0] * 0 = 0
    BY <2>3
  <2>6. QED
    BY <2>3, <2>4, <2>5
<1>11. SumFunction(f) = F(0) /\ SumFunction(g) = G(0)
  BY <1>1, <1>3 DEF SumFunction, F, G
<1>12. QED
  BY <1>10, <1>11 DEF f, g

(* So every bucket is worth more to a matured profile,                     *)
LEMMA MaturedShares ==
    ASSUME NEW c \in DOMAIN Contracts, NEW p \in Profiles, NEW q \in Profiles,
           Matured(p, q), NEW b \in Buckets
    PROVE  Below(BucketShare(c, p, b), BucketShare(c, q, b))
<1> DEFINE points == Contracts[c].points
           weights == Contracts[c].weights
           d == Decisions[p][b]
           e == Decisions[q][b]
           f == [l \in Levels |-> points[l] * d[l]]
           g == [l \in Levels |-> points[l] * e[l]]
<1>1. /\ points \in [Levels -> 0 .. 100] /\ weights \in [Buckets -> Nat \ {0}]
      /\ \A l \in 1 .. Top : points[l - 1] < points[l]
      /\ IsFiniteSet(Buckets)
  BY Inputs
<1>2. d \in [Levels -> Nat] /\ e \in [Levels -> Nat]
  BY Inputs
<1>3. /\ \A l \in Levels : SumFunctionOnSet(d, l .. Top) <= SumFunctionOnSet(e, l .. Top)
      /\ SumFunctionOnSet(d, 0 .. Top) = SumFunctionOnSet(e, 0 .. Top)
  BY Inputs DEF Matured, Levels
<1>4. Points(c, p, b) = SumFunction(f) /\ Points(c, q, b) = SumFunction(g)
  BY DEF Points
<1> HIDE DEF points, weights, d, e
<1>5. IsFiniteSet(Levels)
  BY Inputs, FS_Interval DEF Levels
<1>6. SumFunction(f) <= SumFunction(g)
  BY <1>1, <1>2, <1>3, MaturedPoints
<1>7. SumFunction(f) \in Int /\ SumFunction(g) \in Int
  <2>1. ASSUME NEW h \in [Levels -> Nat]
        PROVE  SumFunction([l \in Levels |-> points[l] * h[l]]) \in Int
    <3> DEFINE k == [l \in Levels |-> points[l] * h[l]]
    <3>1. ASSUME NEW l \in Levels PROVE k[l] \in Int
      <4>1. points[l] \in 0 .. 100 /\ h[l] \in Nat
        BY <1>1
      <4>2. points[l] \in Int /\ h[l] \in Int
        BY <4>1
      <4>3. QED
        BY <4>2, Distributes
    <3>2. DOMAIN k = Levels
      OBVIOUS
    <3> HIDE DEF k
    <3>3. SumFunctionOnSet(k, Levels) \in Int
      BY <1>5, <3>1, SumTakesOut
    <3>4. QED
      BY <3>2, <3>3 DEF SumFunction, k
  <2>2. QED
    BY <1>2, <2>1
<1>8. SumFunction(weights) \in Nat \ {0}
  <2>1. /\ DOMAIN weights = Buckets
        /\ \A x \in Buckets : weights[x] \in Nat /\ weights[x] > 0
    BY <1>1
  <2>2. /\ SumFunctionOnSet(weights, Buckets) \in Nat
        /\ weights[b] <= SumFunctionOnSet(weights, Buckets)
    BY <1>1, <2>1, SumNatural
  <2>3. QED
    BY <2>1, <2>2 DEF SumFunction
<1>9. SumFunction(d) \in Nat \ {0} /\ SumFunction(e) = SumFunction(d)
  <2>1. PICK l \in Levels : d[l] > 0
    BY Inputs DEF d
  <2>2. DOMAIN d = Levels /\ DOMAIN e = Levels /\ \A x \in Levels : d[x] \in Nat
    BY <1>2
  <2>3. SumFunctionOnSet(d, Levels) \in Nat /\ d[l] <= SumFunctionOnSet(d, Levels)
    BY <1>5, <2>2, SumNatural
  <2>4. SumFunctionOnSet(d, Levels) \in Nat \ {0}
    BY <2>1, <2>2, <2>3
  <2>5. SumFunctionOnSet(d, Levels) = SumFunctionOnSet(e, Levels)
    BY <1>3 DEF Levels
  <2>6. QED
    BY <2>2, <2>4, <2>5 DEF SumFunction
<1>10. /\ BucketShare(c, p, b) = <<weights[b] * Points(c, p, b),
                                   SumFunction(weights) * SumFunction(d)>>
       /\ BucketShare(c, q, b) = <<weights[b] * Points(c, q, b),
                                   SumFunction(weights) * SumFunction(d)>>
  <2>1. BucketShare(c, q, b) = <<weights[b] * Points(c, q, b),
                                 SumFunction(weights) * SumFunction(e)>>
    BY DEF BucketShare, weights, e
  <2>2. BucketShare(c, p, b) = <<weights[b] * Points(c, p, b),
                                 SumFunction(weights) * SumFunction(d)>>
    BY DEF BucketShare, weights, d
  <2>3. QED
    BY <1>9, <2>1, <2>2
<1> HIDE DEF f, g
<1>11. /\ weights[b] * Points(c, p, b) \in Int /\ weights[b] * Points(c, q, b) \in Int
       /\ weights[b] * Points(c, p, b) <= weights[b] * Points(c, q, b)
  <2>1. weights[b] \in Nat
    BY <1>1
  <2>2. QED
    BY <1>4, <1>6, <1>7, <2>1, ScaledLeft
<1>12. SumFunction(weights) * SumFunction(d) \in Nat \ {0}
  BY <1>8, <1>9, Denominators
<1>13. QED
  BY <1>10, <1>11, <1>12 DEF Below, Fractions

(* and so is the whole score.                                              *)
LEMMA MaturedScores ==
    ASSUME NEW c \in DOMAIN Contracts, NEW p \in Profiles, NEW q \in Profiles,
           Matured(p, q)
    PROVE  Below(Score(c, p), Score(c, q))
<1> DEFINE f == [b \in Buckets |-> BucketShare(c, p, b)]
           g == [b \in Buckets |-> BucketShare(c, q, b)]
<1>1. Score(c, p) = Total(f) /\ Score(c, q) = Total(g)
  BY DEF Score, ScoreProfiles
<1>2. /\ DOMAIN f = Buckets /\ DOMAIN g = Buckets
      /\ \A b \in Buckets : Below(f[b], g[b])
  BY MaturedShares
<1> HIDE DEF f, g
<1>3. IsFiniteSet(Buckets)
  BY Inputs
<1>4. QED
  BY <1>1, <1>2, <1>3, TotalKeepsBelow

(* What a snapshot's delta says of its profile and its baseline's.         *)
LEMMA DeltaOfSnapshot ==
    ASSUME NEW s \in Snapshots
    PROVE  /\ s.baseline.contract = s.contract
           /\ s.indexed = s.contract =>
                 /\ Matured(s.baseline.profile, s.profile) => s.delta[1] >= 0
                 /\ Matured(s.profile, s.baseline.profile) => s.delta[1] <= 0
<1>1. PICK c \in DOMAIN Contracts, d \in DOMAIN Contracts, q \in Profiles,
           p \in Profiles, m \in Measures : s = Snapshot(c, d, BaselineOf(c, q), p, m)
  BY DEF Snapshots
<1>2. /\ s.contract = c /\ s.indexed = d /\ s.profile = p
      /\ s.baseline.contract = c /\ s.baseline.profile = q
      /\ s.delta = Minus(Score(d, p), Score(c, q))
  BY <1>1 DEF Snapshot, BaselineOf
<1>3. ASSUME d = c, Matured(q, p) PROVE s.delta[1] >= 0
  BY <1>2, <1>3, MaturedScores, MinusOfBelow
<1>4. ASSUME d = c, Matured(p, q) PROVE s.delta[1] <= 0
  BY <1>2, <1>4, MaturedScores, MinusOfBelow
<1>5. QED
  BY <1>2, <1>3, <1>4

-----------------------------------------------------------------------------
(* The inductive invariant.  The chain's length tells whether the history  *)
(* moved: a job that is about to append behind the entry it read has read  *)
(* this very history, and its snapshot was not there.                      *)

IsTorn == \E i \in DOMAIN history : history[i] = Torn

ChainKept ==
    /\ HistoryReads
    /\ \A i \in DOMAIN history : Len(history[i].previous) = i - 1
    /\ \A p \in Jobs : step[p] = "append" =>
          /\ Len(seen[p]) <= Len(history)
          /\ Len(seen[p]) = Len(history) => Recorded(report[p].snapshot) = {}

HistoryInv ==
    /\ TypeOK
    /\ raced \/ IsTorn \/ ChainKept

Steps == Drafting \cup {"collected", "md", "filling md", "json", "filling json",
                       "history", "append"}

\* What a job holds at a step, and the hash it has read.
Fits(to, r, k) ==
    /\ to \notin Drafting => r \in Reports
    /\ to \in Drafting \ {"idle"} =>
          /\ r \in Drafts
          /\ r.baseline.contract = r.contract
    /\ to \in {"reloaded", "indexed"} => r.indexed \in DOMAIN Contracts
    /\ to = "indexed" => r.profile \in Profiles
    /\ to = "append" => k \in Chains

Held == Reports \cup Drafts \cup {None}

-----------------------------------------------------------------------------
(* Types.                                                                  *)

(* What freezing writes is a baseline; then one lemma per action.          *)
LEMMA BaselineTyped ==
    ASSUME NEW c \in DOMAIN Contracts, NEW p \in Profiles
    PROVE  BaselineOf(c, p) \in Baselines
  BY DEF Baselines

LEMMA InitTyped == Init => TypeOK
<1> SUFFICES ASSUME Init PROVE TypeOK
  OBVIOUS
<1>1. Frozen.contract \in DOMAIN Contracts /\ Frozen.profile \in Profiles
  BY Inputs
<1>2. /\ profile \in Profiles /\ contract \in DOMAIN Contracts /\ measure \in Measures
      /\ baseline \in Baselines
  BY <1>1, BaselineTyped DEF Init
<1>3. history \in Seq(Entries \cup {Torn}) /\ history = <<>>
  BY DEF Init
<1>4. /\ files \in [{"md", "json"} -> Reports \cup {None, Torn}]
      /\ report \in [Jobs -> Reports \cup Drafts \cup {None}]
      /\ seen \in [Jobs -> Chains \cup {None}]
  BY DEF Init
<1>5. step = [p \in Jobs |-> "idle"]
  BY DEF Init
<1>6. step \in [Jobs -> Steps] /\ \A p \in Jobs : Fits(step[p], report[p], seen[p])
  BY <1>5 DEF Steps, Fits, Drafting
<1>7. raced \in BOOLEAN /\ clock \in Nat /\ edits \in Nat /\ faults \in Nat /\ visits \in Nat
  BY DEF Init
<1>8. QED
  BY <1>2, <1>3, <1>4, <1>6, <1>7 DEF TypeOK, Fits, Steps

(* What is made of a complete draft is a snapshot.                         *)
LEMMA CollectedSnapshot ==
    ASSUME NEW d, NEW m \in Measures, NEW k, Fits("indexed", d, k)
    PROVE  Snapshot(d.contract, d.indexed, d.baseline, d.profile, m) \in Snapshots
<1>1. /\ d \in Drafts /\ d.baseline.contract = d.contract
      /\ d.indexed \in DOMAIN Contracts /\ d.profile \in Profiles
  BY DEF Fits, Drafting
<1>2. d.contract \in DOMAIN Contracts /\ d.baseline \in Baselines
  BY <1>1 DEF Drafts
<1>3. PICK c \in DOMAIN Contracts, q \in Profiles : d.baseline = BaselineOf(c, q)
  BY <1>2 DEF Baselines
<1>4. c = d.contract
  BY <1>1, <1>3 DEF BaselineOf
<1>5. QED
  BY <1>1, <1>2, <1>3, <1>4 DEF Snapshots

(* A run that goes on, with a report, and one that ends.                   *)
LEMMA JobTyped ==
    ASSUME TypeOK, NEW p \in Jobs, NEW to \in Steps,
           step' = [step EXCEPT ![p] = to],
           NEW r \in Held, report' = [report EXCEPT ![p] = r],
           NEW k \in Chains \cup {None}, seen' = [seen EXCEPT ![p] = k],
           Fits(to, r, k)
    PROVE  /\ step' \in [Jobs -> Steps]
           /\ report' \in [Jobs -> Held]
           /\ seen' \in [Jobs -> Chains \cup {None}]
           /\ \A q \in Jobs : Fits(step'[q], report'[q], seen'[q])
<1>1. /\ step \in [Jobs -> Steps] /\ report \in [Jobs -> Held]
      /\ seen \in [Jobs -> Chains \cup {None}]
      /\ \A q \in Jobs : Fits(step[q], report[q], seen[q])
  BY DEF TypeOK, Steps, Held, Fits
<1>2. QED
  BY <1>1

LEMMA EditTyped == TypeOK /\ Edit => TypeOK'
<1> SUFFICES ASSUME TypeOK, Edit PROVE TypeOK'
  OBVIOUS
<1>1. /\ profile' \in Profiles /\ contract' \in DOMAIN Contracts /\ measure' \in Measures
      /\ baseline' \in Baselines
  <2>1. /\ profile \in Profiles /\ contract \in DOMAIN Contracts /\ measure \in Measures
        /\ baseline \in Baselines /\ BaselineOf(contract, profile) \in Baselines
    BY BaselineTyped DEF TypeOK
  <2>2. QED
    BY <2>1 DEF Edit
<1>2. clock' \in Nat /\ edits' \in Nat /\ faults' \in Nat /\ visits' \in Nat
  <2>1. clock \in Nat /\ edits \in Nat /\ faults \in Nat /\ visits \in Nat
    BY DEF TypeOK
  <2>2. edits' = edits + 1 /\ clock' = clock /\ faults' = faults /\ visits' = visits
    BY DEF Edit
  <2>3. QED
    BY <2>1, <2>2
<1>3. UNCHANGED <<files, history, step, report, seen, raced>>
  BY DEF Edit, artifacts, jobs
<1>4. QED
  BY <1>1, <1>2, <1>3 DEF TypeOK

LEMMA TickTyped == TypeOK /\ Tick => TypeOK'
<1> SUFFICES ASSUME TypeOK, Tick PROVE TypeOK'
  OBVIOUS
<1>1. UNCHANGED <<profile, contract, measure, baseline, files, history, step,
                  report, seen, raced>>
  BY DEF Tick, inputs, artifacts, jobs
<1>2. clock' \in Nat /\ edits' \in Nat /\ faults' \in Nat /\ visits' \in Nat
  <2>1. clock \in Nat /\ edits \in Nat /\ faults \in Nat /\ visits \in Nat
    BY DEF TypeOK
  <2>2. clock' = clock + 1 /\ edits' = edits /\ faults' = faults /\ visits' = visits
    BY DEF Tick, inputs
  <2>3. QED
    BY <2>1, <2>2
<1>3. QED
  BY <1>1, <1>2 DEF TypeOK

(* What a step of a job may do besides moving the job.                     *)
Surroundings ==
    /\ UNCHANGED <<profile, contract, measure, baseline>>
    /\ files' \in [{"md", "json"} -> Reports \cup {None, Torn}]
    /\ history' \in Seq(Entries \cup {Torn})
    /\ raced' \in BOOLEAN
    /\ clock' \in Nat /\ edits' \in Nat /\ faults' \in Nat /\ visits' \in Nat

(* What a persist may touch beside its files keeps its type.               *)
LEMMA StepTyped ==
    ASSUME TypeOK, NEW p \in Jobs, NEW to \in Steps,
           step' = [step EXCEPT ![p] = to],
           NEW r \in Held, report' = [report EXCEPT ![p] = r],
           NEW k \in Chains \cup {None}, seen' = [seen EXCEPT ![p] = k],
           Fits(to, r, k), Surroundings
    PROVE  TypeOK'
<1>1. /\ step' \in [Jobs -> Steps]
      /\ report' \in [Jobs -> Held]
      /\ seen' \in [Jobs -> Chains \cup {None}]
      /\ \A q \in Jobs : Fits(step'[q], report'[q], seen'[q])
  BY JobTyped
<1>2. /\ profile' \in Profiles /\ contract' \in DOMAIN Contracts /\ measure' \in Measures
      /\ baseline' \in Baselines
  BY DEF TypeOK, Surroundings
<1>3. QED
  BY <1>1, <1>2 DEF TypeOK, Surroundings, Steps, Held, Fits

(* The fields of a job that a step leaves alone.                           *)
LEMMA Same ==
    ASSUME TypeOK, NEW p \in Jobs
    PROVE  /\ report = [report EXCEPT ![p] = report[p]]
           /\ seen = [seen EXCEPT ![p] = seen[p]]
           /\ report[p] \in Held /\ seen[p] \in Chains \cup {None}
           /\ Fits(step[p], report[p], seen[p])
           /\ step[p] \notin Drafting => report[p] \in Reports
           /\ step[p] = "append" => seen[p] \in Chains /\ report[p] \in Reports
  BY DEF TypeOK, Held, Fits, Drafting

(* Past the drafting, any report fits that is one.                         *)
LEMMA ReportFits ==
    ASSUME NEW to \in Steps \ Drafting, NEW r \in Reports, NEW k,
           to = "append" => k \in Chains
    PROVE  r \in Held /\ Fits(to, r, k)
  BY DEF Fits, Steps, Drafting, Held

LEMMA ExitTyped ==
    ASSUME TypeOK, NEW p \in Jobs, Exit(p), Surroundings
    PROVE  TypeOK'
<1>1. Fits("idle", None, None) /\ "idle" \in Steps /\ None \in Held
  BY DEF Fits, Drafting, Steps, Held
<1>2. QED
  BY <1>1, StepTyped DEF Exit, Goto

LEMMA LoadBaselineTyped ==
    ASSUME TypeOK, NEW p \in Jobs, LoadBaseline(p)
    PROVE  TypeOK'
<1>1. Surroundings
  <2>1. visits' \in Nat
    <3>1. visits \in Nat /\ (visits' = visits \/ visits' = visits + 1)
      BY DEF TypeOK, LoadBaseline
    <3>2. QED
      BY <3>1
  <2>2. QED
    BY <2>1 DEF TypeOK, LoadBaseline, Surroundings, inputs, artifacts
<1>2. Draft \in Held /\ Fits("loaded", Draft, seen[p]) /\ "loaded" \in Steps
  <2>1. Draft \in Drafts
    BY DEF TypeOK, Draft, Drafts
  <2>2. Draft.baseline.contract = Draft.contract
    BY DEF LoadBaseline, BaselineLoads, Draft
  <2>3. QED
    BY <2>1, <2>2 DEF Fits, Drafting, Held, Steps
<1>3. /\ step' = [step EXCEPT ![p] = "loaded"]
      /\ report' = [report EXCEPT ![p] = Draft] /\ seen' = seen
  BY DEF LoadBaseline, Goto
<1> HIDE DEF Draft
<1>4. QED
  BY <1>1, <1>2, <1>3, StepTyped, Same

(* A draft takes in what is read next.                                     *)
LEMMA DraftTakes ==
    ASSUME NEW d, NEW k, NEW c \in DOMAIN Contracts, NEW q \in Profiles
    PROVE  /\ Fits("loaded", d, k) =>
                 /\ [d EXCEPT !.indexed = c] \in Held
                 /\ Fits("reloaded", [d EXCEPT !.indexed = c], k)
           /\ Fits("reloaded", d, k) =>
                 /\ [d EXCEPT !.profile = q] \in Held
                 /\ Fits("indexed", [d EXCEPT !.profile = q], k)
<1>1. ASSUME Fits("loaded", d, k)
      PROVE  /\ [d EXCEPT !.indexed = c] \in Held
             /\ Fits("reloaded", [d EXCEPT !.indexed = c], k)
  <2> DEFINE e == [d EXCEPT !.indexed = c]
  <2>1. d \in Drafts /\ d.baseline.contract = d.contract
    BY <1>1 DEF Fits, Drafting
  <2>2. e \in Drafts /\ e.indexed = c /\ e.baseline = d.baseline
        /\ e.contract = d.contract
    BY <2>1 DEF Drafts
  <2> HIDE DEF e
  <2>3. e \in Held /\ Fits("reloaded", e, k)
    BY <2>1, <2>2 DEF Fits, Drafting, Held
  <2>4. QED
    BY <2>3 DEF e
<1>2. ASSUME Fits("reloaded", d, k)
      PROVE  /\ [d EXCEPT !.profile = q] \in Held
             /\ Fits("indexed", [d EXCEPT !.profile = q], k)
  <2> DEFINE e == [d EXCEPT !.profile = q]
  <2>1. d \in Drafts /\ d.baseline.contract = d.contract /\ d.indexed \in DOMAIN Contracts
    BY <1>2 DEF Fits, Drafting
  <2>2. e \in Drafts /\ e.profile = q /\ e.baseline = d.baseline
        /\ e.contract = d.contract /\ e.indexed = d.indexed
    BY <2>1 DEF Drafts
  <2> HIDE DEF e
  <2>3. e \in Held /\ Fits("indexed", e, k)
    BY <2>1, <2>2 DEF Fits, Drafting, Held
  <2>4. QED
    BY <2>3 DEF e
<1>3. QED
  BY <1>1, <1>2

LEMMA LoadContractTyped ==
    ASSUME TypeOK, NEW p \in Jobs, LoadContract(p)
    PROVE  TypeOK'
<1> DEFINE r == [report[p] EXCEPT !.indexed = contract]
<1>1. Surroundings
  BY DEF TypeOK, LoadContract, Surroundings, inputs, artifacts
<1>2. contract \in DOMAIN Contracts /\ profile \in Profiles
      /\ Fits("loaded", report[p], seen[p])
  BY Same DEF TypeOK, LoadContract
<1>3. r \in Held /\ Fits("reloaded", r, seen[p]) /\ "reloaded" \in Steps
  BY <1>2, DraftTakes DEF Steps, Drafting
<1>4. /\ step' = [step EXCEPT ![p] = "reloaded"]
      /\ report' = [report EXCEPT ![p] = r] /\ seen' = seen
  BY DEF LoadContract, Goto
<1> HIDE DEF r
<1>5. QED
  BY <1>1, <1>3, <1>4, StepTyped, Same

LEMMA ReadIndexTyped ==
    ASSUME TypeOK, NEW p \in Jobs, ReadIndex(p)
    PROVE  TypeOK'
<1> DEFINE r == [report[p] EXCEPT !.profile = profile]
<1>1. Surroundings
  BY DEF TypeOK, ReadIndex, Surroundings, inputs, artifacts
<1>2. contract \in DOMAIN Contracts /\ profile \in Profiles
      /\ Fits("reloaded", report[p], seen[p])
  BY Same DEF TypeOK, ReadIndex
<1>3. r \in Held /\ Fits("indexed", r, seen[p]) /\ "indexed" \in Steps
  BY <1>2, DraftTakes DEF Steps, Drafting
<1>4. /\ step' = [step EXCEPT ![p] = "indexed"]
      /\ report' = [report EXCEPT ![p] = r] /\ seen' = seen
  BY DEF ReadIndex, Goto
<1> HIDE DEF r
<1>5. QED
  BY <1>1, <1>3, <1>4, StepTyped, Same

LEMMA CollectTyped ==
    ASSUME TypeOK, NEW p \in Jobs, Collect(p)
    PROVE  TypeOK'
<1> DEFINE d == report[p]
           snap == Snapshot(d.contract, d.indexed, d.baseline, d.profile, measure)
           r == [snapshot |-> snap, time |-> clock]
<1>1. r \in Reports
  <2>1. Fits("indexed", report[p], seen[p]) /\ measure \in Measures /\ clock \in Nat
    BY Same DEF TypeOK, Collect
  <2>2. snap \in Snapshots
    BY <2>1, CollectedSnapshot
  <2> HIDE DEF snap
  <2>3. QED
    BY <2>1, <2>2 DEF Reports
<1>2. Surroundings
  BY DEF TypeOK, Collect, Surroundings, inputs, artifacts
<1>3. /\ step' = [step EXCEPT ![p] = "collected"]
      /\ report' = [report EXCEPT ![p] = r] /\ seen' = seen
  BY DEF Collect, Goto
<1>4. "collected" \in Steps \ Drafting /\ "collected" # "append"
  BY DEF Steps, Drafting
<1> HIDE DEF r
<1>5. QED
  BY <1>1, <1>2, <1>3, <1>4, StepTyped, Same, ReportFits

LEMMA ReuseTyped ==
    ASSUME TypeOK, NEW p \in Jobs, Reuse(p)
    PROVE  TypeOK'
<1>1. Surroundings
  BY DEF TypeOK, Reuse, Surroundings, inputs, artifacts
<1>2. CASE files["json"] = Torn
  BY <1>1, <1>2, ExitTyped DEF Reuse
<1>3. CASE files["json"] # Torn
  <2> DEFINE kept == files["json"] # None /\ files["json"].snapshot = report[p].snapshot
             t == IF kept THEN files["json"].time ELSE report[p].time
             r == [report[p] EXCEPT !.time = t]
  <2>1. report[p] \in Reports
    BY Same DEF Reuse, Drafting
  <2>2. files["json"] \in Reports \cup {None, Torn}
    BY DEF TypeOK
  <2>3. t \in Nat
    BY <1>3, <2>1, <2>2 DEF Reports
  <2>4. report' = [report EXCEPT ![p] = r] /\ seen' = seen
    BY <1>3 DEF Reuse
  <2> HIDE DEF t
  <2>5. r \in Reports
    BY <2>1, <2>3 DEF Reports
  <2> HIDE DEF r
  <2>6. step' = [step EXCEPT ![p] = "md"]
    BY <1>3 DEF Reuse, Goto
  <2>7. "md" \in Steps \ Drafting /\ "md" # "append"
    BY DEF Steps, Drafting
  <2>8. QED
    BY <1>1, <2>4, <2>5, <2>6, <2>7, StepTyped, Same, ReportFits
<1>4. QED
  BY <1>2, <1>3

LEMMA OpenFileTyped ==
    ASSUME TypeOK, NEW p \in Jobs, NEW f \in {"md", "json"}, OpenFile(p, f)
    PROVE  TypeOK'
<1>1. Surroundings
  BY DEF TypeOK, OpenFile, Surroundings, inputs
<1>2. PICK to \in Steps \ Drafting : step' = [step EXCEPT ![p] = to] /\ to # "append"
  BY DEF OpenFile, Goto, After, Filling, Steps, Drafting
<1>3. report' = report /\ seen' = seen /\ step[p] \notin Drafting
  BY DEF OpenFile, Drafting
<1>4. QED
  BY <1>1, <1>2, <1>3, StepTyped, Same, ReportFits

LEMMA FillFileTyped ==
    ASSUME TypeOK, NEW p \in Jobs, NEW f \in {"md", "json"}, FillFile(p, f)
    PROVE  TypeOK'
<1>1. report' = report /\ seen' = seen /\ step[p] \notin Drafting
  BY DEF FillFile, Filling, Drafting
<1>2. report[p] \in Reports
  BY <1>1, Same
<1>3. PICK text \in {report[p], Torn} : files' = [files EXCEPT ![f] = text]
  BY DEF FillFile
<1>4. Surroundings
  BY <1>2, <1>3 DEF TypeOK, FillFile, Surroundings, inputs
<1>5. PICK to \in Steps \ Drafting : step' = [step EXCEPT ![p] = to] /\ to # "append"
  BY DEF FillFile, Goto, After, Steps, Drafting
<1>6. QED
  BY <1>1, <1>2, <1>4, <1>5, StepTyped, Same, ReportFits

LEMMA TipTyped ==
    ASSUME TypeOK, HistoryReads
    PROVE  Tip \in Chains
<1>1. history \in Seq(Entries \cup {Torn})
  BY DEF TypeOK
<1>2. CASE history = <<>>
  BY <1>2 DEF Tip, Chains
<1>3. CASE history # <<>>
  <2> DEFINE entry == history[Len(history)]
  <2>1. Len(history) \in DOMAIN history
    BY <1>1, <1>3
  <2>2. entry \in Entries
    BY <1>1, <2>1 DEF HistoryReads
  <2>3. entry.previous \in Chains /\ <<entry.snapshot, entry.time>> \in Snapshots \X Nat
    BY <2>2 DEF Entries
  <2>4. Tip = Append(entry.previous, <<entry.snapshot, entry.time>>)
    BY <1>3 DEF Tip, Hash
  <2> HIDE DEF entry
  <2>5. QED
    BY <2>3, <2>4 DEF Chains
<1>4. QED
  BY <1>2, <1>3

LEMMA ReadHistoryTyped ==
    ASSUME TypeOK, NEW p \in Jobs, ReadHistory(p)
    PROVE  TypeOK'
<1>1. Surroundings
  BY DEF TypeOK, ReadHistory, Surroundings, inputs, artifacts
<1>2. CASE HistoryReads /\ Recorded(report[p].snapshot) = {}
  <2>1. /\ step[p] \notin Drafting /\ step' = [step EXCEPT ![p] = "append"]
        /\ seen' = [seen EXCEPT ![p] = Tip] /\ report' = report
    BY <1>2 DEF ReadHistory, Goto, Drafting
  <2>2. Tip \in Chains /\ "append" \in Steps \ Drafting
    BY <1>2, TipTyped DEF Steps, Drafting
  <2>3. QED
    BY <1>1, <2>1, <2>2, StepTyped, Same, ReportFits
<1>3. CASE ~(HistoryReads /\ Recorded(report[p].snapshot) = {})
  BY <1>1, <1>3, ExitTyped DEF ReadHistory
<1>4. QED
  BY <1>2, <1>3

LEMMA AppendHistoryTyped ==
    ASSUME TypeOK, NEW p \in Jobs, AppendHistory(p)
    PROVE  TypeOK'
<1> DEFINE entry == [snapshot |-> report[p].snapshot, time |-> report[p].time,
                     previous |-> seen[p]]
<1>1. entry \in Entries
  BY Same DEF AppendHistory, Entries, Reports
<1>2. history \in Seq(Entries \cup {Torn})
  BY DEF TypeOK
<1>3. history' = history \/ history' = Append(history, entry)
  BY DEF AppendHistory
<1> HIDE DEF entry
<1>4. history' \in Seq(Entries \cup {Torn})
  BY <1>1, <1>2, <1>3
<1>5. raced' \in BOOLEAN
  BY DEF AppendHistory, TypeOK
<1>6. Surroundings
  BY <1>4, <1>5 DEF TypeOK, AppendHistory, Surroundings, inputs
<1>7. QED
  BY <1>6, ExitTyped DEF AppendHistory

LEMMA DieTyped ==
    ASSUME TypeOK, NEW p \in Jobs, Die(p)
    PROVE  TypeOK'
<1>1. history' = history \/ history' = Append(history, Torn)
  BY DEF Die
<1>2. history' \in Seq(Entries \cup {Torn})
  <2>1. history \in Seq(Entries \cup {Torn}) /\ Torn \in Entries \cup {Torn}
    BY DEF TypeOK
  <2> HIDE DEF Entries
  <2>2. QED
    BY <1>1, <2>1
<1>3. Surroundings
  <2>1. faults' \in Nat
    <3>1. faults \in Nat
      BY DEF TypeOK
    <3>2. faults' = faults + 1
      BY DEF Die
    <3>3. QED
      BY <3>1, <3>2
  <2>2. UNCHANGED <<inputs, files, raced, clock, visits>>
    BY DEF Die
  <2>3. QED
    BY <1>2, <2>1, <2>2 DEF TypeOK, Surroundings, inputs
<1>4. QED
  BY <1>3, ExitTyped DEF Die

LEMMA StutterTyped == TypeOK /\ UNCHANGED vars => TypeOK'
  BY DEF TypeOK, vars, inputs, artifacts, jobs, BaselineOf

(* Every step keeps the types.                                             *)
LEMMA TypeKept == TypeOK /\ [Next]_vars => TypeOK'
<1> SUFFICES ASSUME TypeOK, [Next]_vars PROVE TypeOK'
  OBVIOUS
<1>1. ASSUME NEW p \in Jobs, Persist(p) PROVE TypeOK'
  BY <1>1, LoadBaselineTyped, LoadContractTyped, ReadIndexTyped, CollectTyped, ReuseTyped, OpenFileTyped, FillFileTyped,
     ReadHistoryTyped, AppendHistoryTyped DEF Persist
<1>2. ASSUME NEW p \in Jobs, Die(p) PROVE TypeOK'
  BY <1>2, DieTyped
<1>3. QED
  BY <1>1, <1>2, EditTyped, TickTyped, StutterTyped DEF Next

-----------------------------------------------------------------------------
(* The chain.                                                              *)

\* Nothing of a job that appends has changed, and no line was added.
LEMMA ChainFrame ==
    ASSUME ChainKept, history' = history,
           \A q \in Jobs : step'[q] = "append" =>
               step[q] = "append" /\ seen'[q] = seen[q] /\ report'[q] = report[q]
    PROVE  ChainKept'
<1>1. HistoryReads' /\ \A i \in DOMAIN history' : Len(history'[i].previous) = i - 1
  BY DEF ChainKept, HistoryReads, Tip, Hash
<1>2. \A s : Recorded(s)' = Recorded(s)
  BY DEF Recorded
<1>3. ASSUME NEW q \in Jobs, step'[q] = "append"
      PROVE  /\ Len(seen'[q]) <= Len(history')
             /\ Len(seen'[q]) = Len(history') => Recorded(report[q].snapshot)' = {}
  BY <1>2, <1>3 DEF ChainKept
<1>4. QED
  BY <1>1, <1>3 DEF ChainKept, Recorded

(* A torn line of the history is never mended.                             *)
LEMMA TornStays ==
    ASSUME TypeOK, IsTorn,
           history' = history \/ \E e : history' = Append(history, e)
    PROVE  IsTorn'
<1>1. history \in Seq(Entries \cup {Torn})
  BY DEF TypeOK
<1>2. PICK i \in DOMAIN history : history[i] = Torn
  BY DEF IsTorn
<1>3. i \in DOMAIN history' /\ history'[i] = Torn
  BY <1>1, <1>2
<1>4. QED
  BY <1>3 DEF IsTorn

(* The tip of a chain is as long as the history.                           *)
LEMMA TipLength ==
    ASSUME TypeOK, ChainKept
    PROVE  Tip \in Chains /\ Len(Tip) = Len(history)
<1>1. history \in Seq(Entries \cup {Torn}) /\ HistoryReads
  BY DEF TypeOK, ChainKept
<1>2. Tip \in Chains
  BY <1>1, TipTyped
<1>3. CASE history = <<>>
  <2>1. Tip = <<>>
    BY <1>3 DEF Tip
  <2>2. QED
    BY <1>2, <1>3, <2>1
<1>4. CASE history # <<>>
  <2> DEFINE n == Len(history)
             entry == history[n]
  <2>1. n \in DOMAIN history /\ n \in Nat
    BY <1>1, <1>4
  <2>2. Len(entry.previous) = n - 1
    BY <2>1 DEF ChainKept
  <2>3. entry \in Entries
    BY <1>1, <2>1 DEF HistoryReads
  <2>4. entry.previous \in Chains /\ <<entry.snapshot, entry.time>> \in Snapshots \X Nat
    BY <2>3 DEF Entries
  <2>5. Tip = Append(entry.previous, <<entry.snapshot, entry.time>>)
    BY <1>4 DEF Tip, Hash
  <2> HIDE DEF entry, n
  <2>6. Len(Tip) = Len(entry.previous) + 1
    BY <2>4, <2>5 DEF Chains
  <2>7. QED
    BY <1>2, <2>1, <2>2, <2>6 DEF n
<1>5. QED
  BY <1>2, <1>3, <1>4

(* An append that raced with none extends an unbroken chain by an unbroken *)
(* chain: the tip it read is still the tip.                                *)
LEMMA AppendKeepsChain ==
    ASSUME TypeOK, NEW p \in Jobs, AppendHistory(p), ~raced', ChainKept
    PROVE  ChainKept' \/ IsTorn'
<1> DEFINE entry == [snapshot |-> report[p].snapshot, time |-> report[p].time,
                     previous |-> seen[p]]
           n == Len(history)
<1>1. /\ ~Glued /\ seen[p] = Tip /\ history' = Append(history, entry)
      /\ step[p] = "append" /\ step' = [step EXCEPT ![p] = "idle"]
      /\ report' = [report EXCEPT ![p] = None] /\ seen' = [seen EXCEPT ![p] = None]
  BY DEF AppendHistory, Exit, Goto
<1>2. /\ history \in Seq(Entries \cup {Torn}) /\ n \in Nat
      /\ step \in [Jobs -> Steps] /\ DOMAIN seen = Jobs /\ DOMAIN report = Jobs
  <2>1. history \in Seq(Entries \cup {Torn})
    BY DEF TypeOK
  <2>2. n \in Nat
    BY <2>1
  <2>3. QED
    BY <2>1, <2>2 DEF TypeOK, Steps
<1>3. report[p] \in Reports /\ seen[p] \in Chains
  BY <1>1, Same
<1>4. Len(seen[p]) = n /\ Recorded(report[p].snapshot) = {}
  BY <1>1, TipLength DEF ChainKept
<1>5. entry \in Entries /\ entry.snapshot = report[p].snapshot /\ entry.previous = Tip
  BY <1>1, <1>3 DEF Entries, Reports
<1> HIDE DEF entry
<1>6. /\ DOMAIN history = 1 .. n /\ DOMAIN history' = 1 .. n + 1
      /\ Len(history') = n + 1 /\ history'[n + 1] = entry
      /\ \A i \in 1 .. n : history'[i] = history[i]
  BY <1>1, <1>2, <1>5
<1> HIDE DEF n
<1>7. \A i \in 1 .. n : history[i] # Torn /\ history[i].snapshot # entry.snapshot
  BY <1>4, <1>5, <1>6 DEF Recorded, ChainKept, HistoryReads
<1>8. CASE entry = Torn
  <2>1. history'[n + 1] = Torn /\ n + 1 \in DOMAIN history'
    BY <1>2, <1>6, <1>8
  <2>2. QED
    BY <2>1 DEF IsTorn
<1>9. CASE entry # Torn
  <2>1. ASSUME NEW i \in 1 .. n + 1, NEW j \in 1 .. n + 1, i # j
        PROVE  history'[i].snapshot # history'[j].snapshot
    <3>1. CASE i \in 1 .. n /\ j \in 1 .. n
      <4>1. history[i].snapshot # history[j].snapshot
        BY <1>6, <1>7, <2>1, <3>1 DEF ChainKept, HistoryReads
      <4>2. QED
        BY <1>6, <3>1, <4>1
    <3>2. CASE i = n + 1
      <4>1. j \in 1 .. n
        BY <1>2, <2>1, <3>2
      <4>2. QED
        BY <1>6, <1>7, <3>2, <4>1
    <3>3. CASE j = n + 1
      <4>1. i \in 1 .. n
        BY <1>2, <2>1, <3>3
      <4>2. QED
        BY <1>6, <1>7, <3>3, <4>1
    <3>4. QED
      BY <1>2, <3>1, <3>2, <3>3
  <2>2. \A i \in 1 .. n + 1 : history'[i] # Torn
    <3> TAKE i \in 1 .. n + 1
    <3>1. i \in 1 .. n \/ i = n + 1
      BY <1>2
    <3>2. QED
      BY <1>6, <1>7, <1>9, <3>1
  <2>3. ASSUME NEW i \in 1 .. n + 1
        PROVE  /\ history'[i].previous = IF i = 1 THEN <<>> ELSE Hash(history'[i - 1])
               /\ Len(history'[i].previous) = i - 1
    <3>1. CASE i \in 1 .. n
      <4>1. /\ history[i].previous = IF i = 1 THEN <<>> ELSE Hash(history[i - 1])
            /\ Len(history[i].previous) = i - 1
        BY <1>6, <3>1 DEF ChainKept, HistoryReads
      <4>2. i # 1 => i - 1 \in 1 .. n
        BY <1>2, <3>1
      <4>3. QED
        BY <1>6, <3>1, <4>1, <4>2
    <3>2. CASE i = n + 1
      <4>1. history'[i].previous = Tip /\ Len(Tip) = n
        BY <1>1, <1>4, <1>5, <1>6, <3>2
      <4>2. CASE n = 0
        <5>1. Tip = <<>> /\ i = 1
          BY <1>2, <3>2, <4>2 DEF Tip, n
        <5>2. QED
          BY <4>1, <4>2, <5>1
      <4>3. CASE n # 0
        <5>1. n \in 1 .. n /\ i - 1 = n /\ i # 1
          BY <1>2, <3>2, <4>3
        <5>2. Tip = Hash(history[n])
          BY <1>2, <4>3 DEF Tip, n
        <5>3. QED
          BY <1>6, <4>1, <5>1, <5>2
      <4>4. QED
        BY <4>2, <4>3
    <3>3. QED
      BY <1>2, <3>1, <3>2
  <2>4. HistoryReads'
    <3>1. /\ \A i \in DOMAIN history' : history'[i] # Torn
          /\ \A i \in DOMAIN history' : \A j \in DOMAIN history' :
                i # j => history'[i].snapshot # history'[j].snapshot
          /\ \A i \in DOMAIN history' :
                history'[i].previous = IF i = 1 THEN <<>> ELSE Hash(history'[i - 1])
      BY <1>6, <2>1, <2>2, <2>3
    <3>2. QED
      BY <3>1 DEF HistoryReads, Hash
  <2>5. ASSUME NEW q \in Jobs, step'[q] = "append"
        PROVE  Len(seen'[q]) <= Len(history') /\ Len(seen'[q]) # Len(history')
    <3>1. q # p /\ step[q] = "append" /\ seen'[q] = seen[q]
      BY <1>1, <1>2, <2>5
    <3>2. Len(seen[q]) <= n /\ seen[q] \in Chains
      BY <3>1, Same DEF ChainKept, n
    <3>3. Len(seen[q]) \in Nat
      BY <3>2 DEF Chains
    <3>4. QED
      BY <1>2, <1>6, <3>1, <3>2, <3>3
  <2>6. ChainKept'
    <3>1. \A i \in DOMAIN history' : Len(history'[i].previous) = i - 1
      BY <1>6, <2>3
    <3>2. QED
      BY <2>4, <2>5, <3>1 DEF ChainKept
  <2>7. QED
    BY <2>6
<1>10. QED
  BY <1>8, <1>9

(* Every other step of a job leaves the history alone.                     *)
LEMMA PersistKeepsChain ==
    ASSUME TypeOK, NEW p \in Jobs, Persist(p), ~AppendHistory(p), ChainKept
    PROVE  ChainKept'
<1>1. history' = history
  BY DEF Persist, LoadBaseline, LoadContract, ReadIndex, Collect, Reuse, OpenFile,
         FillFile, ReadHistory, artifacts
<1>2. step \in [Jobs -> Steps] /\ DOMAIN seen = Jobs /\ DOMAIN report = Jobs
  BY DEF TypeOK, Steps
<1>3. CASE ReadHistory(p) /\ step'[p] = "append"
  <2>1. /\ seen' = [seen EXCEPT ![p] = Tip] /\ report' = report
        /\ step' = [step EXCEPT ![p] = "append"]
        /\ Recorded(report[p].snapshot) = {}
    BY <1>2, <1>3 DEF ReadHistory, Exit, Goto
  <2>2. HistoryReads' /\ \A i \in DOMAIN history' : Len(history'[i].previous) = i - 1
    BY <1>1 DEF ChainKept, HistoryReads, Hash
  <2>3. \A s : Recorded(s)' = Recorded(s)
    BY <1>1 DEF Recorded
  <2>4. Len(Tip) = Len(history) /\ history \in Seq(Entries \cup {Torn})
    BY TipLength DEF TypeOK
  <2>5. ASSUME NEW q \in Jobs, step'[q] = "append"
        PROVE  /\ Len(seen'[q]) <= Len(history')
               /\ Len(seen'[q]) = Len(history') => Recorded(report[q].snapshot)' = {}
    <3>1. CASE q = p
      <4>1. Len(history) \in Nat /\ seen'[q] = Tip
        BY <1>2, <2>1, <2>4, <3>1
      <4>2. Recorded(report'[q].snapshot) = {}
        BY <2>1, <3>1
      <4>3. QED
        BY <1>1, <2>1, <2>3, <2>4, <3>1, <4>1, <4>2
    <3>2. CASE q # p
      <4>1. step[q] = "append" /\ seen'[q] = seen[q]
        BY <1>2, <2>1, <2>5, <3>2
      <4>2. QED
        BY <1>1, <2>1, <2>3, <4>1 DEF ChainKept
    <3>3. QED
      BY <3>1, <3>2
  <2>6. QED
    BY <2>2, <2>5 DEF ChainKept, Recorded
<1>4. CASE ~(ReadHistory(p) /\ step'[p] = "append")
  <2> DEFINE Moved ==
             /\ step'[p] # "append"
             /\ \A q \in Jobs \ {p} : /\ step'[q] = step[q] /\ seen'[q] = seen[q]
                                      /\ report'[q] = report[q]
  <2>1. ASSUME Collect(p) PROVE Moved
    BY <1>2, <2>1 DEF Collect, Goto
  <2>2. ASSUME Reuse(p) PROVE Moved
    BY <1>2, <2>2 DEF Reuse, Goto, Exit
  <2>3. ASSUME NEW f \in {"md", "json"}, OpenFile(p, f) PROVE Moved
    BY <1>2, <2>3 DEF OpenFile, Goto, After, Filling
  <2>4. ASSUME NEW f \in {"md", "json"}, FillFile(p, f) PROVE Moved
    BY <1>2, <2>4 DEF FillFile, Goto, After
  <2>5. ASSUME ReadHistory(p) PROVE Moved
    BY <1>2, <1>4, <2>5 DEF ReadHistory, Goto, Exit
  <2>6. ASSUME LoadBaseline(p) \/ LoadContract(p) \/ ReadIndex(p) PROVE Moved
    BY <1>2, <2>6 DEF LoadBaseline, LoadContract, ReadIndex, Goto
  <2>7. Moved
    BY <2>1, <2>2, <2>3, <2>4, <2>5, <2>6 DEF Persist
  <2>8. QED
    BY <1>1, <2>7, ChainFrame
<1>5. QED
  BY <1>3, <1>4

(* A death leaves the chain as it was, or torn.                            *)
LEMMA DieKeepsChain ==
    ASSUME TypeOK, NEW p \in Jobs, Die(p), ChainKept
    PROVE  ChainKept' \/ IsTorn'
<1>1. CASE history' = Append(history, Torn)
  <2>1. history \in Seq(Entries \cup {Torn})
    BY DEF TypeOK
  <2>2. Len(history) + 1 \in DOMAIN history' /\ history'[Len(history) + 1] = Torn
    BY <1>1, <2>1
  <2>3. QED
    BY <2>2 DEF IsTorn
<1>2. CASE history' = history
  <2>1. step \in [Jobs -> Steps] /\ DOMAIN seen = Jobs /\ DOMAIN report = Jobs
    BY DEF TypeOK, Steps
  <2>2. /\ step'[p] # "append"
        /\ \A q \in Jobs \ {p} : /\ step'[q] = step[q] /\ seen'[q] = seen[q]
                                 /\ report'[q] = report[q]
    BY <2>1 DEF Die, Exit, Goto
  <2>3. QED
    BY <1>2, <2>2, ChainFrame
<1>3. QED
  BY <1>1, <1>2 DEF Die

(* The invariant of the history is inductive.                              *)
THEOREM HistoryInvariance == Spec => []HistoryInv
<1>1. Init => HistoryInv
  <2> SUFFICES ASSUME Init PROVE HistoryInv
    OBVIOUS
  <2>1. history = <<>> /\ \A p \in Jobs : step[p] # "append"
    BY DEF Init
  <2>2. ChainKept
    BY <2>1 DEF ChainKept, HistoryReads
  <2>3. QED
    BY <2>2, InitTyped DEF HistoryInv
<1>2. HistoryInv /\ [Next]_vars => HistoryInv'
  <2> SUFFICES ASSUME HistoryInv, [Next]_vars PROVE HistoryInv'
    OBVIOUS
  <2>0. TypeOK /\ TypeOK'
    BY TypeKept DEF HistoryInv
  <2>1. CASE raced
    <3>1. raced'
      BY <2>1 DEF Next, Edit, Tick, Persist, LoadBaseline, LoadContract,
                  ReadIndex, Collect, Reuse, OpenFile, FillFile,
                  ReadHistory, AppendHistory, Die, vars
    <3>2. QED
      BY <2>0, <3>1 DEF HistoryInv
  <2>2. CASE IsTorn
    <3>1. history' = history \/ \E e : history' = Append(history, e)
      BY DEF Next, Edit, Tick, Persist, LoadBaseline, LoadContract,
                  ReadIndex, Collect, Reuse, OpenFile, FillFile,
             ReadHistory, AppendHistory, Die, vars, artifacts
    <3>2. QED
      BY <2>0, <2>2, <3>1, TornStays DEF HistoryInv
  <2>3. CASE ChainKept
    <3>1. CASE Edit \/ Tick \/ UNCHANGED vars
      <4>1. history' = history /\ step' = step /\ seen' = seen /\ report' = report
        BY <3>1 DEF Edit, Tick, vars, artifacts, jobs
      <4>2. ChainKept'
        BY <2>3, <4>1, ChainFrame
      <4>3. QED
        BY <2>0, <4>2 DEF HistoryInv
    <3>2. ASSUME NEW p \in Jobs, Persist(p) PROVE HistoryInv'
      <4>1. CASE AppendHistory(p)
        BY <2>0, <2>3, <4>1, AppendKeepsChain DEF HistoryInv
      <4>2. CASE ~AppendHistory(p)
        BY <2>0, <2>3, <3>2, <4>2, PersistKeepsChain DEF HistoryInv
      <4>3. QED
        BY <4>1, <4>2
    <3>3. ASSUME NEW p \in Jobs, Die(p) PROVE HistoryInv'
      BY <2>0, <2>3, <3>3, DieKeepsChain DEF HistoryInv
    <3>4. QED
      BY <3>1, <3>2, <3>3 DEF Next
  <2>4. QED
    BY <2>1, <2>2, <2>3 DEF HistoryInv
<1>3. QED
  BY <1>1, <1>2, PTL DEF Spec

-----------------------------------------------------------------------------
(* What follows for any number of jobs and deaths.                         *)

\* Files, history and the locals of the jobs have the shapes of the program.
THEOREM HistoryTypeCorrect == Spec => []TypeOK
<1>1. HistoryInv => TypeOK
  BY DEF HistoryInv
<1>2. QED
  BY <1>1, HistoryInvariance, PTL

\* While no two runs raced to append and none died appending, every line of
\* the history names the one before it and no evidence stands there twice.
THEOREM HistoryStaysIntact == Spec => []HistoryIntact
<1>1. HistoryInv => HistoryIntact
  BY DEF HistoryInv, ChainKept, IsTorn, HistoryIntact
<1>2. QED
  BY <1>1, HistoryInvariance, PTL

\* A recorded change of the score is against a baseline of the contract the
\* report names, and unless the contract changed between the run's two reads
\* of it one of the taxonomy: no gain without a decision that matured, no loss
\* without one that fell back.
THEOREM DeltaIsHonest == Spec => []DeltaHonest
<1>1. TypeOK => DeltaHonest
  <2> SUFFICES ASSUME TypeOK, NEW i \in DOMAIN history, history[i] # Torn
               PROVE  LET s == history[i].snapshot
                      IN  /\ s.baseline.contract = s.contract
                          /\ s.indexed = s.contract =>
                                /\ Matured(s.baseline.profile, s.profile) => s.delta[1] >= 0
                                /\ Matured(s.profile, s.baseline.profile) => s.delta[1] <= 0
    BY DEF DeltaHonest
  <2>1. history \in Seq(Entries \cup {Torn})
    BY DEF TypeOK
  <2>2. history[i] \in Entries
    BY <2>1
  <2>3. history[i].snapshot \in Snapshots
    BY <2>2 DEF Entries
  <2>4. QED
    BY <2>3, DeltaOfSnapshot
<1>2. QED
  BY <1>1, HistoryTypeCorrect, PTL
=============================================================================
