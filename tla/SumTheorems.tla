----------------------------- MODULE SumTheorems -----------------------------
(***************************************************************************)
(* Facts about the sums of the community modules over finite sets, which    *)
(* those modules state without proof, and two induction principles in the   *)
(* form of sets, from the well-foundedness of the naturals.                 *)
(***************************************************************************)
EXTENDS Functions, FiniteSetTheorems, TLAPS

-----------------------------------------------------------------------------
(* Induction.  A least counterexample is one of a well-founded order.      *)

(* Induction over the naturals, for a set: the least number outside it is  *)
(* neither 0 nor the next of one inside.                                   *)
LEMMA SetInduction ==
    ASSUME NEW T \in SUBSET Nat, 0 \in T, \A n \in T : n + 1 \in T
    PROVE  T = Nat
<1> DEFINE R == OpToRel(<, Nat)
           C == Nat \ T
<1> SUFFICES ASSUME C # {} PROVE FALSE
  OBVIOUS
<1>1. IsWellFoundedOn(R, Nat)
  BY NatLessThanWellFounded
<1>2. PICK x \in C : \A y \in C : <<y, x>> \notin R
  BY <1>1, WFMin
<1>3. \A y \in C : ~(y < x)
  BY <1>2 DEF OpToRel
<1>4. x - 1 \in Nat /\ x - 1 < x
  BY 0 \in T
<1>5. x - 1 \in T
  BY <1>3, <1>4
<1>6. x \in T
  BY <1>4, <1>5
<1>7. QED
  BY <1>6

(* A family of subsets of a finite set that holds every set whose proper   *)
(* subsets it holds is the family of all of them.                          *)
LEMMA SubsetInduction ==
    ASSUME NEW S, IsFiniteSet(S), NEW T \in SUBSET SUBSET S,
           \A A \in SUBSET S : (\A x \in A : A \ {x} \in T) => A \in T
    PROVE  T = SUBSET S
<1> DEFINE R == StrictSubsetOrdering(S)
           C == (SUBSET S) \ T
<1> SUFFICES ASSUME C # {} PROVE FALSE
  OBVIOUS
<1>1. IsWellFoundedOn(R, SUBSET S)
  <2>1. FiniteSubsetsOf(S) = SUBSET S
    BY FS_FiniteSubsetsOfFinite
  <2>2. IsWellFoundedOn(R, FiniteSubsetsOf(S))
    BY FS_StrictSubsetOrderingWellFounded
  <2>3. QED
    BY <2>1, <2>2
<1>2. PICK A \in C : \A B \in C : <<B, A>> \notin R
  BY <1>1, WFMin
<1>3. ASSUME NEW x \in A PROVE A \ {x} \in T
  <2>1. A \ {x} \in SUBSET S /\ A \ {x} \subseteq A /\ A \ {x} # A
    OBVIOUS
  <2>2. <<A \ {x}, A>> \in R
    BY <2>1 DEF StrictSubsetOrdering
  <2>3. QED
    BY <1>2, <2>1, <2>2
<1>4. QED
  BY <1>3

-----------------------------------------------------------------------------
(* What the recursive function under a sum computes.                       *)

Chosen(A) == CHOOSE x \in A : TRUE

SumBody(f, g, A) ==
    IF A = {} THEN 0 ELSE f[Chosen(A)] + g[A \ {Chosen(A)}]

IsSum(g, f, S) == g = [A \in SUBSET S |-> SumBody(f, g, A)]

(* The member a fold takes out next is one of the set.                     *)
LEMMA ChosenIn == ASSUME NEW A, A # {} PROVE Chosen(A) \in A
  BY DEF Chosen

(* The recursive function a sum is defined by exists: by induction on the  *)
(* size of the sets it is defined up to.                                   *)
LEMMA SumExists ==
    ASSUME NEW S, IsFiniteSet(S), NEW f
    PROVE  \E g : IsSum(g, f, S)
<1> DEFINE Small(n) == {A \in SUBSET S : Cardinality(A) <= n}
           T == {n \in Nat : \E g : g = [A \in Small(n) |-> SumBody(f, g, A)]}
<1>0. \A A \in SUBSET S : IsFiniteSet(A) /\ Cardinality(A) \in Nat
  BY FS_Subset, FS_CardinalityType
<1>1. 0 \in T
  <2>1. Small(0) = {{}}
    BY <1>0, FS_EmptySet
  <2> DEFINE g == [A \in Small(0) |-> 0]
  <2>2. g = [A \in Small(0) |-> SumBody(f, g, A)]
    BY <2>1 DEF SumBody
  <2>3. QED
    BY <2>2
<1>2. ASSUME NEW n \in T PROVE n + 1 \in T
  <2>1. PICK g : g = [A \in Small(n) |-> SumBody(f, g, A)]
    OBVIOUS
  <2> DEFINE h == [A \in Small(n + 1) |-> SumBody(f, g, A)]
  <2>2. ASSUME NEW A \in Small(n + 1)
        PROVE  SumBody(f, h, A) = SumBody(f, g, A)
    <3>1. CASE A = {}
      BY <3>1 DEF SumBody
    <3>2. CASE A # {}
      <4> DEFINE B == A \ {Chosen(A)}
      <4>1. B \in Small(n)
        BY <1>0, <2>2, <3>2, ChosenIn, FS_RemoveElement
      <4>2. B \in Small(n + 1)
        BY <1>0, <4>1
      <4>3. h[B] = g[B]
        BY <2>1, <4>1, <4>2
      <4>4. QED
        BY <3>2, <4>3 DEF SumBody
    <3>3. QED
      BY <3>1, <3>2
  <2>3. h = [A \in Small(n + 1) |-> SumBody(f, h, A)]
    BY <2>2
  <2> HIDE DEF h
  <2>4. \E k : k = [A \in Small(n + 1) |-> SumBody(f, k, A)]
    BY <2>3
  <2>5. n + 1 \in Nat
    OBVIOUS
  <2>6. QED
    BY <2>4, <2>5
<1>3. T = Nat
  BY <1>1, <1>2, SetInduction
<1>4. Cardinality(S) \in T /\ Small(Cardinality(S)) = SUBSET S
  BY <1>3, FS_Subset, FS_CardinalityType
<1>5. QED
  BY <1>4 DEF IsSum

(* The sum of the community modules is that function.                      *)
LEMMA SumUnfolds ==
    ASSUME NEW S, IsFiniteSet(S), NEW f
    PROVE  \E g : IsSum(g, f, S) /\ SumFunctionOnSet(f, S) = g[S]
<1> DEFINE g == CHOOSE g : g = [A \in SUBSET S |->
                   IF A = {} THEN 0
                   ELSE f[CHOOSE x \in A : TRUE] + g[A \ {CHOOSE x \in A : TRUE}]]
<1>1. IsSum(g, f, S)
  <2>1. \E k : k = [A \in SUBSET S |->
                   IF A = {} THEN 0
                   ELSE f[CHOOSE x \in A : TRUE] + k[A \ {CHOOSE x \in A : TRUE}]]
    <3>1. PICK k : IsSum(k, f, S)
      BY SumExists
    <3>2. k = [A \in SUBSET S |->
                   IF A = {} THEN 0
                   ELSE f[CHOOSE x \in A : TRUE] + k[A \ {CHOOSE x \in A : TRUE}]]
      BY <3>1 DEF IsSum, SumBody, Chosen
    <3>3. QED
      BY <3>2
  <2>2. g = [A \in SUBSET S |->
                   IF A = {} THEN 0
                   ELSE f[CHOOSE x \in A : TRUE] + g[A \ {CHOOSE x \in A : TRUE}]]
    BY <2>1
  <2>3. QED
    BY <2>2 DEF IsSum, SumBody, Chosen
<1>2. SumFunctionOnSet(f, S) = g[S]
  BY DEF SumFunctionOnSet, FoldFunctionOnSet, MapThenFoldSet
<1>3. QED
  BY <1>1, <1>2

-----------------------------------------------------------------------------
(* The sum of a function over a finite set, by any order of its elements.  *)

(* What the function says of the empty set and of taking one member out.   *)
LEMMA SumStep ==
    ASSUME NEW S, NEW f, NEW g, IsSum(g, f, S)
    PROVE  /\ g[{}] = 0
           /\ \A A \in SUBSET S : A # {} =>
                 Chosen(A) \in A /\ g[A] = f[Chosen(A)] + g[A \ {Chosen(A)}]
<1>1. g[{}] = 0
  BY DEF IsSum, SumBody
<1>2. ASSUME NEW A \in SUBSET S, A # {}
      PROVE  Chosen(A) \in A /\ g[A] = f[Chosen(A)] + g[A \ {Chosen(A)}]
  BY <1>2, ChosenIn DEF IsSum, SumBody
<1>3. QED
  BY <1>1, <1>2

(* Sums of integers are integers.                                          *)
LEMMA SumType ==
    ASSUME NEW S, IsFiniteSet(S), NEW f, \A x \in S : f[x] \in Int,
           NEW g, IsSum(g, f, S)
    PROVE  \A A \in SUBSET S : g[A] \in Int
<1> DEFINE T == {A \in SUBSET S : g[A] \in Int}
<1>1. ASSUME NEW A \in SUBSET S, \A x \in A : A \ {x} \in T PROVE A \in T
  <2>1. CASE A = {}
    BY <2>1, SumStep
  <2>2. CASE A # {}
    <3>1. Chosen(A) \in A /\ g[A] = f[Chosen(A)] + g[A \ {Chosen(A)}]
      BY <2>2, SumStep
    <3>2. f[Chosen(A)] \in Int /\ g[A \ {Chosen(A)}] \in Int
      BY <1>1, <3>1
    <3>3. QED
      BY <3>1, <3>2
  <2>3. QED
    BY <2>1, <2>2
<1>2. T \in SUBSET SUBSET S
  OBVIOUS
<1> HIDE DEF T
<1>3. T = SUBSET S
  BY <1>1, <1>2, SubsetInduction
<1>4. QED
  BY <1>3 DEF T

(* Whichever member is taken out first, the sum is the same.               *)
LEMMA SumAnyOrder ==
    ASSUME NEW S, IsFiniteSet(S), NEW f, \A x \in S : f[x] \in Int,
           NEW g, IsSum(g, f, S)
    PROVE  \A A \in SUBSET S : \A r \in A : g[A] = f[r] + g[A \ {r}]
<1> DEFINE T == {A \in SUBSET S : \A r \in A : g[A] = f[r] + g[A \ {r}]}
<1>1. ASSUME NEW A \in SUBSET S, \A x \in A : A \ {x} \in T,
             NEW r \in A
      PROVE  g[A] = f[r] + g[A \ {r}]
  <2>1. PICK y \in A : g[A] = f[y] + g[A \ {y}]
    <3>1. Chosen(A) \in A /\ g[A] = f[Chosen(A)] + g[A \ {Chosen(A)}]
      BY <1>1, SumStep
    <3>2. QED
      BY <3>1
  <2>2. CASE r = y
    BY <2>1, <2>2
  <2>3. CASE r # y
    <3>1. PICK B \in SUBSET S : B = (A \ {y}) \ {r} /\ B = (A \ {r}) \ {y}
      OBVIOUS
    <3>2. g[A \ {y}] = f[r] + g[B]
      BY <1>1, <2>3, <3>1
    <3>3. g[A \ {r}] = f[y] + g[B]
      BY <1>1, <2>3, <3>1
    <3>4. f[r] \in Int /\ f[y] \in Int /\ g[B] \in Int
      BY SumType
    <3>5. g[A] = f[y] + (f[r] + g[B])
      BY <2>1, <3>2
    <3>6. QED
      BY <3>3, <3>4, <3>5
  <2>4. QED
    BY <2>2, <2>3
<1>2. T \in SUBSET SUBSET S
  OBVIOUS
<1>3. \A A \in SUBSET S : (\A x \in A : A \ {x} \in T) => A \in T
  BY <1>1
<1> HIDE DEF T
<1>4. T = SUBSET S
  BY <1>2, <1>3, SubsetInduction
<1>5. QED
  BY <1>4 DEF T

(* A sum depends on nothing but the members added up.                      *)
LEMMA SumUnique ==
    ASSUME NEW S, NEW f, NEW g, IsSum(g, f, S),
           NEW R \in SUBSET S, IsFiniteSet(R), NEW e, NEW h, IsSum(h, e, R),
           \A x \in R : e[x] = f[x]
    PROVE  \A A \in SUBSET R : h[A] = g[A]
<1> DEFINE T == {A \in SUBSET R : h[A] = g[A]}
<1>1. ASSUME NEW A \in SUBSET R, \A x \in A : A \ {x} \in T PROVE A \in T
  <2>1. CASE A = {}
    BY <2>1, SumStep
  <2>2. CASE A # {}
    <3>1. Chosen(A) \in A
      BY <2>2, ChosenIn
    <3>2. h[A] = SumBody(e, h, A) /\ g[A] = SumBody(f, g, A)
      BY DEF IsSum
    <3>3. h[A \ {Chosen(A)}] = g[A \ {Chosen(A)}] /\ e[Chosen(A)] = f[Chosen(A)]
      BY <1>1, <3>1
    <3>4. SumBody(e, h, A) = SumBody(f, g, A)
      BY <2>2, <3>3 DEF SumBody
    <3>5. QED
      BY <3>2, <3>4
  <2>3. QED
    BY <2>1, <2>2
<1>2. T \in SUBSET SUBSET R
  OBVIOUS
<1> HIDE DEF T
<1>3. T = SUBSET R
  BY <1>1, <1>2, SubsetInduction
<1>4. QED
  BY <1>3 DEF T

(* The sum of a function is the function's only: what it is outside of the *)
(* set does not matter.                                                    *)
THEOREM SumAgrees ==
    ASSUME NEW S, IsFiniteSet(S), NEW f, NEW e, \A x \in S : e[x] = f[x]
    PROVE  SumFunctionOnSet(e, S) = SumFunctionOnSet(f, S)
<1>1. PICK g : IsSum(g, f, S) /\ SumFunctionOnSet(f, S) = g[S]
  BY SumUnfolds
<1>2. PICK h : IsSum(h, e, S) /\ SumFunctionOnSet(e, S) = h[S]
  BY SumUnfolds
<1>3. h[S] = g[S]
  BY <1>1, <1>2, SumUnique
<1>4. QED
  BY <1>1, <1>2, <1>3

(* A sum is an integer, and any element may be taken out of it.            *)
THEOREM SumTakesOut ==
    ASSUME NEW S, IsFiniteSet(S), NEW f, \A x \in S : f[x] \in Int
    PROVE  /\ SumFunctionOnSet(f, S) \in Int
           /\ S = {} => SumFunctionOnSet(f, S) = 0
           /\ \A r \in S : SumFunctionOnSet(f, S)
                             = f[r] + SumFunctionOnSet(f, S \ {r})
<1>1. PICK g : IsSum(g, f, S) /\ SumFunctionOnSet(f, S) = g[S]
  BY SumUnfolds
<1>2. SumFunctionOnSet(f, S) \in Int
  BY <1>1, SumType
<1>3. S = {} => SumFunctionOnSet(f, S) = 0
  BY <1>1, SumStep
<1>4. ASSUME NEW r \in S
      PROVE  SumFunctionOnSet(f, S) = f[r] + SumFunctionOnSet(f, S \ {r})
  <2>1. IsFiniteSet(S \ {r})
    BY FS_RemoveElement
  <2>2. PICK h : IsSum(h, f, S \ {r}) /\ SumFunctionOnSet(f, S \ {r}) = h[S \ {r}]
    BY <2>1, SumUnfolds
  <2>3. h[S \ {r}] = g[S \ {r}]
    BY <1>1, <2>1, <2>2, SumUnique
  <2>4. g[S] = f[r] + g[S \ {r}]
    BY <1>1, SumAnyOrder
  <2>5. QED
    BY <1>1, <2>2, <2>3, <2>4
<1>5. QED
  BY <1>2, <1>3, <1>4

(* A sum whose summands are no greater is no greater.                      *)
THEOREM SumMonotone ==
    ASSUME NEW S, IsFiniteSet(S), NEW f, NEW e,
           \A x \in S : f[x] \in Int /\ e[x] \in Int /\ f[x] <= e[x]
    PROVE  SumFunctionOnSet(f, S) <= SumFunctionOnSet(e, S)
<1> DEFINE T == {A \in SUBSET S : SumFunctionOnSet(f, A) <= SumFunctionOnSet(e, A)}
<1>1. ASSUME NEW A \in SUBSET S, \A x \in A : A \ {x} \in T PROVE A \in T
  <2>0. IsFiniteSet(A)
    BY FS_Subset
  <2>1. CASE A = {}
    BY <2>0, <2>1, SumTakesOut
  <2>2. CASE A # {}
    <3>1. PICK r \in A : TRUE
      BY <2>2
    <3>2. /\ SumFunctionOnSet(f, A) = f[r] + SumFunctionOnSet(f, A \ {r})
          /\ SumFunctionOnSet(e, A) = e[r] + SumFunctionOnSet(e, A \ {r})
      BY <2>0, SumTakesOut
    <3>3. IsFiniteSet(A \ {r})
      BY <2>0, FS_RemoveElement
    <3>4. SumFunctionOnSet(f, A \ {r}) \in Int /\ SumFunctionOnSet(e, A \ {r}) \in Int
      BY <3>3, SumTakesOut
    <3>5. SumFunctionOnSet(f, A \ {r}) <= SumFunctionOnSet(e, A \ {r})
      BY <1>1
    <3>6. f[r] \in Int /\ e[r] \in Int /\ f[r] <= e[r]
      OBVIOUS
    <3>7. QED
      BY <3>2, <3>4, <3>5, <3>6
  <2>3. QED
    BY <2>1, <2>2
<1>2. T \in SUBSET SUBSET S
  OBVIOUS
<1> HIDE DEF T
<1>3. T = SUBSET S
  BY <1>1, <1>2, SubsetInduction
<1>4. S \in T
  BY <1>3
<1>5. QED
  BY <1>4 DEF T

(* Summands that are naturals have a sum that is one, and none exceeds it.  *)
THEOREM SumNatural ==
    ASSUME NEW S, IsFiniteSet(S), NEW f, \A x \in S : f[x] \in Nat
    PROVE  /\ SumFunctionOnSet(f, S) \in Nat
           /\ \A x \in S : f[x] <= SumFunctionOnSet(f, S)
<1> DEFINE T == {A \in SUBSET S : SumFunctionOnSet(f, A) \in Nat}
<1>1. ASSUME NEW A \in SUBSET S, \A x \in A : A \ {x} \in T PROVE A \in T
  <2>0. IsFiniteSet(A) /\ \A x \in A : f[x] \in Int
    BY FS_Subset
  <2>1. CASE A = {}
    <3>1. SumFunctionOnSet(f, A) = 0
      BY <2>0, <2>1, SumTakesOut
    <3>2. QED
      BY <3>1
  <2>2. CASE A # {}
    <3>1. PICK r \in A : TRUE
      BY <2>2
    <3>2. SumFunctionOnSet(f, A) = f[r] + SumFunctionOnSet(f, A \ {r})
      BY <2>0, SumTakesOut
    <3>3. SumFunctionOnSet(f, A \ {r}) \in Nat /\ f[r] \in Nat
      BY <1>1
    <3>4. SumFunctionOnSet(f, A) \in Nat
      BY <3>2, <3>3
    <3>5. QED
      BY <3>4
  <2>3. QED
    BY <2>1, <2>2
<1>2. T \in SUBSET SUBSET S
  OBVIOUS
<1> HIDE DEF T
<1>3. T = SUBSET S
  BY <1>1, <1>2, SubsetInduction
<1>4. \A A \in SUBSET S : SumFunctionOnSet(f, A) \in Nat
  BY <1>3 DEF T
<1>5. ASSUME NEW x \in S PROVE f[x] <= SumFunctionOnSet(f, S)
  <2>1. SumFunctionOnSet(f, S) = f[x] + SumFunctionOnSet(f, S \ {x})
    <3>1. \A y \in S : f[y] \in Int
      OBVIOUS
    <3>2. QED
      BY <3>1, SumTakesOut
  <2>2. SumFunctionOnSet(f, S \ {x}) \in Nat /\ f[x] \in Nat
    BY <1>4
  <2>3. QED
    BY <2>1, <2>2
<1>6. QED
  BY <1>4, <1>5

(* n times b is b more than n - 1 times b.                                 *)
LEMMA OneMore ==
    ASSUME NEW n \in Int, NEW b \in Int
    PROVE  n * b = b + (n - 1) * b /\ n * b \in Int
  OBVIOUS

(* n summands of at most b add up to at most n * b.                        *)
THEOREM SumBounded ==
    ASSUME NEW S, IsFiniteSet(S), NEW f, NEW b \in Int,
           \A x \in S : f[x] \in Int /\ f[x] <= b
    PROVE  SumFunctionOnSet(f, S) <= Cardinality(S) * b
<1> DEFINE T == {A \in SUBSET S : SumFunctionOnSet(f, A) <= Cardinality(A) * b}
<1>1. ASSUME NEW A \in SUBSET S, \A x \in A : A \ {x} \in T PROVE A \in T
  <2>0. IsFiniteSet(A) /\ Cardinality(A) \in Nat
    BY FS_Subset, FS_CardinalityType
  <2>1. CASE A = {}
    <3>1. SumFunctionOnSet(f, A) = 0 /\ Cardinality(A) = 0
      BY <2>0, <2>1, SumTakesOut, FS_EmptySet
    <3>2. QED
      BY <3>1, OneMore
  <2>2. CASE A # {}
    <3>1. PICK r \in A : TRUE
      BY <2>2
    <3>2. SumFunctionOnSet(f, A) = f[r] + SumFunctionOnSet(f, A \ {r})
      BY <2>0, SumTakesOut
    <3>3. IsFiniteSet(A \ {r}) /\ Cardinality(A \ {r}) = Cardinality(A) - 1
      BY <2>0, FS_RemoveElement
    <3>4. SumFunctionOnSet(f, A \ {r}) \in Int
      BY <3>3, SumTakesOut
    <3>5. SumFunctionOnSet(f, A \ {r}) <= (Cardinality(A) - 1) * b
      BY <1>1, <3>3
    <3>6. f[r] \in Int /\ f[r] <= b
      OBVIOUS
    <3>7. /\ Cardinality(A) * b = b + (Cardinality(A) - 1) * b
          /\ (Cardinality(A) - 1) * b \in Int
      BY <2>0, OneMore
    <3>8. SumFunctionOnSet(f, A) <= Cardinality(A) * b
      BY <3>2, <3>4, <3>5, <3>6, <3>7
    <3>9. QED
      BY <3>8
  <2>3. QED
    BY <2>1, <2>2
<1>2. T \in SUBSET SUBSET S
  OBVIOUS
<1> HIDE DEF T
<1>3. T = SUBSET S
  BY <1>1, <1>2, SubsetInduction
<1>4. S \in T
  BY <1>3
<1>5. QED
  BY <1>4 DEF T

(* One summand is replaced.                                                *)
THEOREM SumUpdate ==
    ASSUME NEW S, IsFiniteSet(S), NEW f, NEW e, NEW r \in S,
           \A x \in S : f[x] \in Int /\ e[x] \in Int,
           \A x \in S \ {r} : e[x] = f[x]
    PROVE  SumFunctionOnSet(e, S) = SumFunctionOnSet(f, S) - f[r] + e[r]
<1>1. IsFiniteSet(S \ {r})
  BY FS_RemoveElement
<1>2. SumFunctionOnSet(e, S \ {r}) = SumFunctionOnSet(f, S \ {r})
  BY <1>1, SumAgrees
<1>3. SumFunctionOnSet(f, S \ {r}) \in Int
  BY <1>1, SumTakesOut
<1>4. /\ SumFunctionOnSet(f, S) = f[r] + SumFunctionOnSet(f, S \ {r})
      /\ SumFunctionOnSet(e, S) = e[r] + SumFunctionOnSet(e, S \ {r})
  BY SumTakesOut
<1>5. QED
  BY <1>2, <1>3, <1>4
=============================================================================
