--------------------------- MODULE CountingLemmas ---------------------------
(***************************************************************************)
(* What SumFunctionOnSet of the community modules computes, for every      *)
(* finite set: the equations of its recursion, and from them the laws the  *)
(* proofs about totals and lengths use.  Induction is by a smallest        *)
(* counterexample: the subsets of a finite set are well-founded, which is  *)
(* a fact about sets and needs no predicate as a parameter.                *)
(***************************************************************************)
EXTENDS Functions, FiniteSetTheorems, TLAPS

(* Every set of subsets that is not empty has a smallest member. *)
LEMMA SmallestSubset ==
  ASSUME NEW S, IsFiniteSet(S), NEW B, B \subseteq SUBSET S, B # {}
  PROVE  \E T \in B : \A U \in SUBSET T : U # T => U \notin B
<1>1. IsWellFoundedOn(StrictSubsetOrdering(S), SUBSET S)
  BY FS_StrictSubsetOrderingWellFounded, FS_FiniteSubsetsOfFinite
<1>2. PICK T \in B : \A U \in B : ~ (<<U, T>> \in StrictSubsetOrdering(S))
  BY <1>1, WFMin
<1>3. ASSUME NEW U \in SUBSET T, U # T, U \in B PROVE FALSE
  BY <1>2, <1>3 DEF StrictSubsetOrdering
<1> QED BY <1>2, <1>3

-----------------------------------------------------------------------------
(* The recursion is well defined                                           *)

Picked(T) == CHOOSE x \in T : TRUE

(* g adds up f over every subset of S, one chosen element after another. *)
Adds(g, f, S) ==
  g = [T \in SUBSET S |-> IF T = {} THEN 0
                          ELSE f[Picked(T)] + g[T \ {Picked(T)}]]

LEMMA SumUnfolds ==
  ASSUME NEW f, NEW S
  PROVE  SumFunctionOnSet(f, S) = (CHOOSE g : Adds(g, f, S))[S]
BY DEF SumFunctionOnSet, FoldFunctionOnSet, MapThenFoldSet, Adds, Picked

LEMMA PickedIsMember ==
  ASSUME NEW T, T # {}
  PROVE  Picked(T) \in T /\ T \ {Picked(T)} \in SUBSET T /\ T \ {Picked(T)} # T
BY DEF Picked

(* Two such functions agree wherever both are defined. *)
LEMMA AddsAgree ==
  ASSUME NEW f, NEW S, IsFiniteSet(S), NEW R, NEW g, Adds(g, f, S),
         NEW h, Adds(h, f, R), S \subseteq R
  PROVE  g[S] = h[S]
<1> DEFINE B == {T \in SUBSET S : g[T] # h[T]}
<1>1. ASSUME B # {} PROVE FALSE
  <2>1. PICK T \in B : \A U \in SUBSET T : U # T => U \notin B
    <3>1. B \subseteq SUBSET S
      OBVIOUS
    <3> HIDE DEF B
    <3> QED BY <1>1, <3>1, SmallestSubset
  <2>2. T # {}
    BY <2>1 DEF Adds
  <2>3. g[T \ {Picked(T)}] = h[T \ {Picked(T)}]
    BY <2>1, <2>2, PickedIsMember
  <2>4. g[T] = f[Picked(T)] + g[T \ {Picked(T)}]
    BY <2>1, <2>2 DEF Adds
  <2>5. h[T] = f[Picked(T)] + h[T \ {Picked(T)}]
    BY <2>1, <2>2 DEF Adds
  <2> QED BY <2>1, <2>3, <2>4, <2>5
<1> QED BY <1>1

(* Such a function exists. *)
LEMMA AddsExists ==
  ASSUME NEW f, NEW S, IsFiniteSet(S)
  PROVE  \E g : Adds(g, f, S)
<1> DEFINE B == {T \in SUBSET S : ~ \E g : Adds(g, f, T)}
<1>1. ASSUME B # {} PROVE FALSE
  <2>1. PICK T \in B : \A U \in SUBSET T : U # T => U \notin B
    <3>1. B \subseteq SUBSET S
      OBVIOUS
    <3> HIDE DEF B
    <3> QED BY <1>1, <3>1, SmallestSubset
  <2> DEFINE Known(U) == CHOOSE g : Adds(g, f, U)
             At(U) == IF U = {} THEN 0
                      ELSE f[Picked(U)] + Known(U \ {Picked(U)})[U \ {Picked(U)}]
  <2>2. ASSUME NEW U \in SUBSET T, U # T PROVE Adds(Known(U), f, U)
    <3>1. \E g : Adds(g, f, U)
      BY <2>1, <2>2
    <3> QED BY <3>1
  <2>3. ASSUME NEW U \in SUBSET T, U # T PROVE Known(U)[U] = At(U)
    <3>1. CASE U = {}
      <4>1. Adds(Known(U), f, U)
        BY <2>2, <2>3
      <4> HIDE DEF Known
      <4> QED BY <3>1, <4>1 DEF Adds
    <3>2. CASE U # {}
      <4> DEFINE V == U \ {Picked(U)}
      <4>1. V \in SUBSET U /\ V \in SUBSET T /\ V # T
        BY <2>3, <3>2, PickedIsMember
      <4>2. Adds(Known(V), f, V) /\ Adds(Known(U), f, U)
        BY <2>2, <2>3, <4>1
      <4>3. IsFiniteSet(V)
        BY <2>1, <4>1, FS_Subset
      <4>4. Known(V)[V] = Known(U)[V]
        BY <4>1, <4>2, <4>3, AddsAgree
      <4>5. Known(U)[U] = f[Picked(U)] + Known(U)[V]
        BY <3>2, <4>2 DEF Adds
      <4> QED BY <3>2, <4>4, <4>5
    <3> QED BY <3>1, <3>2
  <2>4. PICK h : h = [U \in SUBSET T |-> At(U)]
    OBVIOUS
  <2>5. Adds(h, f, T)
    <3>1. ASSUME NEW U \in SUBSET T, U # {}
          PROVE  h[U] = f[Picked(U)] + h[U \ {Picked(U)}]
      <4> DEFINE V == U \ {Picked(U)}
      <4>1. V \in SUBSET T /\ V # T
        BY <3>1, PickedIsMember
      <4>2. Known(V)[V] = At(V)
        BY <2>3, <4>1
      <4> QED BY <2>4, <3>1, <4>1, <4>2
    <3>2. {} \in SUBSET T => h[{}] = 0
      BY <2>4
    <3>3. \A U \in SUBSET T : h[U] = IF U = {} THEN 0
                                ELSE f[Picked(U)] + h[U \ {Picked(U)}]
      BY <3>1, <3>2
    <3>4. h = [U \in SUBSET T |-> h[U]]
      <4> HIDE DEF At
      <4> QED BY <2>4
    <3> QED BY <3>3, <3>4 DEF Adds
  <2> QED BY <2>1, <2>5
<1> QED BY <1>1

(* The equations of the sum. *)
LEMMA SumEquations ==
  ASSUME NEW f, NEW S, IsFiniteSet(S)
  PROVE  SumFunctionOnSet(f, S) =
           IF S = {} THEN 0
           ELSE f[Picked(S)] + SumFunctionOnSet(f, S \ {Picked(S)})
<1> DEFINE g == CHOOSE g : Adds(g, f, S)
           R == S \ {Picked(S)}
           h == CHOOSE h : Adds(h, f, R)
<1>1. Adds(g, f, S)
  BY AddsExists
<1>2. SumFunctionOnSet(f, S) = g[S]
  BY SumUnfolds
<1>3. CASE S = {}
  BY <1>1, <1>2, <1>3 DEF Adds
<1>4. CASE S # {}
  <2>1. R \in SUBSET S /\ IsFiniteSet(R)
    BY <1>4, PickedIsMember, FS_Subset
  <2>2. Adds(h, f, R)
    BY <2>1, AddsExists
  <2>3. h[R] = g[R]
    BY <1>1, <2>1, <2>2, AddsAgree
  <2>4. SumFunctionOnSet(f, R) = h[R]
    BY SumUnfolds
  <2>5. g[S] = f[Picked(S)] + g[R]
    BY <1>1, <1>4 DEF Adds
  <2> QED BY <1>2, <1>4, <2>3, <2>4, <2>5
<1> QED BY <1>3, <1>4

-----------------------------------------------------------------------------
(* Laws of the sum                                                         *)

(* A sum of integers is an integer, and one of naturals a natural. *)
LEMMA SumType ==
  ASSUME NEW f, NEW S, IsFiniteSet(S), \A x \in S : f[x] \in Int
  PROVE  /\ SumFunctionOnSet(f, S) \in Int
         /\ (\A x \in S : f[x] \in Nat) => SumFunctionOnSet(f, S) \in Nat
<1> DEFINE Sum(T) == SumFunctionOnSet(f, T)
           Holds(T) == /\ Sum(T) \in Int
                       /\ (\A x \in S : f[x] \in Nat) => Sum(T) \in Nat
           B == {T \in SUBSET S : ~Holds(T)}
<1>1. ASSUME B # {} PROVE FALSE
  <2>1. PICK T \in B : \A U \in SUBSET T : U # T => U \notin B
    <3>1. B \subseteq SUBSET S
      OBVIOUS
    <3> HIDE DEF B
    <3> QED BY <1>1, <3>1, SmallestSubset
  <2>2. T \in SUBSET S /\ IsFiniteSet(T) /\ ~Holds(T)
    BY <2>1, FS_Subset
  <2>3. Sum(T) = IF T = {} THEN 0 ELSE f[Picked(T)] + Sum(T \ {Picked(T)})
    BY <2>2, SumEquations
  <2>4. T # {}
    <3> HIDE DEF Sum
    <3> QED BY <2>2, <2>3
  <2>5. Picked(T) \in S /\ Holds(T \ {Picked(T)})
    BY <2>1, <2>2, <2>4, PickedIsMember
  <2> HIDE DEF Sum
  <2> QED BY <2>2, <2>3, <2>4, <2>5
<1>2. Holds(S)
  BY <1>1
<1> QED BY <1>2

LEMMA Distributes ==
  ASSUME NEW a \in Int, NEW x \in Int, NEW y \in Int
  PROVE  a * (x + y) = a * x + a * y
OBVIOUS

(* A sum whose parts are off by b at most is off by b for each part. *)
LEMMA SumWithin ==
  ASSUME NEW f, NEW g, NEW S, IsFiniteSet(S), NEW a \in Nat, NEW b \in Nat,
         \A x \in S : /\ f[x] \in Int /\ g[x] \in Int
                      /\ f[x] - b <= a * g[x] /\ a * g[x] <= f[x] + b
  PROVE  LET e == b * Cardinality(S)
         IN /\ SumFunctionOnSet(f, S) - e <= a * SumFunctionOnSet(g, S)
            /\ a * SumFunctionOnSet(g, S) <= SumFunctionOnSet(f, S) + e
<1> DEFINE F(T) == SumFunctionOnSet(f, T)
           G(T) == SumFunctionOnSet(g, T)
           N(T) == Cardinality(T)
           Holds(T) == /\ F(T) - b * N(T) <= a * G(T)
                       /\ a * G(T) <= F(T) + b * N(T)
           B == {T \in SUBSET S : ~Holds(T)}
<1>1. ASSUME B # {} PROVE FALSE
  <2>1. PICK T \in B : \A U \in SUBSET T : U # T => U \notin B
    <3>1. B \subseteq SUBSET S
      OBVIOUS
    <3> HIDE DEF B
    <3> QED BY <1>1, <3>1, SmallestSubset
  <2> DEFINE x == Picked(T)
             R == T \ {Picked(T)}
  <2>2. T \in SUBSET S /\ IsFiniteSet(T) /\ ~Holds(T)
    BY <2>1, FS_Subset
  <2>3. /\ F(T) = IF T = {} THEN 0 ELSE f[x] + F(R)
        /\ G(T) = IF T = {} THEN 0 ELSE g[x] + G(R)
    BY <2>2, SumEquations
  <2>4. T # {}
    <3> SUFFICES ASSUME T = {} PROVE FALSE
      OBVIOUS
    <3>1. N(T) = 0
      BY FS_EmptySet
    <3>2. F(T) = 0 /\ G(T) = 0
      BY <2>3
    <3>3. a * 0 = 0 /\ b * 0 = 0
      OBVIOUS
    <3>4. a * G(T) = 0 /\ b * N(T) = 0
      BY <3>1, <3>2, <3>3
    <3> HIDE DEF F, G, N
    <3> QED BY <2>2, <3>2, <3>4
  <2>5. x \in T /\ R \in SUBSET T /\ R # T
    BY <2>4, PickedIsMember
  <2>6. x \in S /\ R \in SUBSET S /\ IsFiniteSet(R)
    BY <2>2, <2>5, FS_Subset
  <2>7. Holds(R)
    BY <2>1, <2>5, <2>6
  <2>8. N(T) = N(R) + 1 /\ N(R) \in Nat
    <3>1. /\ IsFiniteSet(T \ {x})
          /\ Cardinality(T \ {x}) = Cardinality(T) - 1
      BY <2>2, <2>5, FS_RemoveElement
    <3>2. N(T) \in Nat /\ N(R) \in Nat
      BY <2>2, <2>6, FS_CardinalityType
    <3> QED BY <3>1, <3>2
  <2>9. F(R) \in Int /\ G(R) \in Int
    BY <2>6, SumType
  <2>10. f[x] \in Int /\ g[x] \in Int /\ f[x] - b <= a * g[x] /\ a * g[x] <= f[x] + b
    BY <2>6
  <2> HIDE DEF F, G, N, x, R
  <2>11. a * (g[x] + G(R)) = a * g[x] + a * G(R) /\ b * (N(R) + 1) = b * N(R) + b
    <3>1. a * (g[x] + G(R)) = a * g[x] + a * G(R)
      BY <2>9, <2>10, Distributes
    <3>2. b * (N(R) + 1) = b * N(R) + b * 1
      BY <2>8, Distributes
    <3> QED BY <3>1, <3>2
  <2>12. /\ F(T) = f[x] + F(R) /\ a * G(T) = a * g[x] + a * G(R)
         /\ b * N(T) = b * N(R) + b
    BY <2>3, <2>4, <2>8, <2>11
  <2> DEFINE ag == a * g[x]
             aG == a * G(R)
             bN == b * N(R)
             aT == a * G(T)
             bT == b * N(T)
  <2>13. ag \in Int /\ aG \in Int /\ bN \in Int
    BY <2>8, <2>9, <2>10
  <2>14. /\ F(R) - bN <= aG /\ aG <= F(R) + bN
         /\ f[x] - b <= ag /\ ag <= f[x] + b
         /\ F(T) = f[x] + F(R) /\ aT = ag + aG /\ bT = bN + b
         /\ ~(F(T) - bT <= aT /\ aT <= F(T) + bT)
    BY <2>2, <2>7, <2>10, <2>12
  <2> HIDE DEF ag, aG, bN, aT, bT
  <2> QED BY <2>9, <2>10, <2>13, <2>14
<1>2. Holds(S)
  BY <1>1
<1> QED BY <1>2

(* A sum grows by what one of its parts grows by. *)
LEMMA SumGrows ==
  ASSUME NEW f, NEW g, NEW S, IsFiniteSet(S), NEW y, NEW k \in Int,
         \A x \in S : f[x] \in Int /\ g[x] = IF x = y THEN f[x] + k ELSE f[x]
  PROVE  SumFunctionOnSet(g, S) =
           IF y \in S THEN SumFunctionOnSet(f, S) + k ELSE SumFunctionOnSet(f, S)
<1> DEFINE F(T) == SumFunctionOnSet(f, T)
           G(T) == SumFunctionOnSet(g, T)
           Holds(T) == G(T) = IF y \in T THEN F(T) + k ELSE F(T)
           B == {T \in SUBSET S : ~Holds(T)}
<1>1. ASSUME B # {} PROVE FALSE
  <2>1. PICK T \in B : \A U \in SUBSET T : U # T => U \notin B
    <3>1. B \subseteq SUBSET S
      OBVIOUS
    <3> HIDE DEF B
    <3> QED BY <1>1, <3>1, SmallestSubset
  <2> DEFINE x == Picked(T)
             R == T \ {Picked(T)}
  <2>2. T \in SUBSET S /\ IsFiniteSet(T) /\ ~Holds(T)
    BY <2>1, FS_Subset
  <2>3. /\ F(T) = IF T = {} THEN 0 ELSE f[x] + F(R)
        /\ G(T) = IF T = {} THEN 0 ELSE g[x] + G(R)
    BY <2>2, SumEquations
  <2>4. T # {}
    <3> HIDE DEF F, G
    <3> QED BY <2>2, <2>3
  <2>5. x \in T /\ R \in SUBSET T /\ R # T
    BY <2>4, PickedIsMember
  <2>6. x \in S /\ R \in SUBSET S /\ IsFiniteSet(R) /\ Holds(R)
    BY <2>1, <2>2, <2>5, FS_Subset
  <2>7. F(R) \in Int
    BY <2>6, SumType
  <2>8. y \in T <=> y \in R \/ x = y
    BY <2>5
  <2>9. x \notin R
    OBVIOUS
  <2>10. f[x] \in Int /\ g[x] = IF x = y THEN f[x] + k ELSE f[x]
    BY <2>6
  <2>11. F(T) = f[x] + F(R) /\ G(T) = g[x] + G(R)
    BY <2>3, <2>4
  <2> HIDE DEF F, G, x, R
  <2> QED BY <2>2, <2>6, <2>7, <2>8, <2>9, <2>10, <2>11
<1>2. Holds(S)
  BY <1>1
<1> QED BY <1>2

(* Nothing adds up to nothing. *)
LEMMA SumOfNothing ==
  ASSUME NEW f, NEW S, IsFiniteSet(S), \A x \in S : f[x] = 0
  PROVE  SumFunctionOnSet(f, S) = 0
<1> DEFINE F(T) == SumFunctionOnSet(f, T)
           B == {T \in SUBSET S : F(T) # 0}
<1>1. ASSUME B # {} PROVE FALSE
  <2>1. PICK T \in B : \A U \in SUBSET T : U # T => U \notin B
    <3>1. B \subseteq SUBSET S
      OBVIOUS
    <3> HIDE DEF B
    <3> QED BY <1>1, <3>1, SmallestSubset
  <2>2. T \in SUBSET S /\ IsFiniteSet(T) /\ F(T) # 0
    BY <2>1, FS_Subset
  <2>3. F(T) = IF T = {} THEN 0 ELSE f[Picked(T)] + F(T \ {Picked(T)})
    BY <2>2, SumEquations
  <2>4. T # {}
    BY <2>2, <2>3
  <2>5. f[Picked(T)] = 0 /\ F(T \ {Picked(T)}) = 0
    BY <2>1, <2>2, <2>4, PickedIsMember
  <2> QED BY <2>2, <2>3, <2>4, <2>5
<1>2. F(S) = 0
  BY <1>1
<1> QED BY <1>2

-----------------------------------------------------------------------------
(* Ranks                                                                   *)

(* R says of two members of D which comes first. *)
Orders(R, D) ==
  /\ \A x \in D : <<x, x>> \notin R
  /\ \A x, y, z \in D : <<x, y>> \in R /\ <<y, z>> \in R => <<x, z>> \in R
  /\ \A x, y \in D : x = y \/ <<x, y>> \in R \/ <<y, x>> \in R

Below(R, D, x) == {y \in D : <<y, x>> \in R}

(* Counting those that come first ranks a finite set from 1 up, without a  *)
(* gap or a tie, and in the order.                                         *)
LEMMA Ranks ==
  ASSUME NEW D, IsFiniteSet(D), NEW R, Orders(R, D)
  PROVE  /\ \A x \in D : 1 + Cardinality(Below(R, D, x)) \in 1..Cardinality(D)
         /\ \A x, y \in D :
              <<x, y>> \in R
                => Cardinality(Below(R, D, x)) < Cardinality(Below(R, D, y))
         /\ [x \in D |-> 1 + Cardinality(Below(R, D, x))]
              \in Bijection(D, 1..Cardinality(D))
<1> DEFINE n == Cardinality(D)
           C(x) == Cardinality(Below(R, D, x))
<1>1. n \in Nat
  BY FS_CardinalityType
<1>2. \A x \in D : /\ Below(R, D, x) \in SUBSET D /\ IsFiniteSet(Below(R, D, x))
                   /\ C(x) \in Nat
  <2> SUFFICES ASSUME NEW x \in D
               PROVE  /\ Below(R, D, x) \in SUBSET D /\ IsFiniteSet(Below(R, D, x))
                      /\ C(x) \in Nat
    OBVIOUS
  <2>1. Below(R, D, x) \in SUBSET D
    BY DEF Below
  <2>2. IsFiniteSet(Below(R, D, x))
    BY <2>1, FS_Subset
  <2> QED BY <2>1, <2>2, FS_CardinalityType
<1>3. ASSUME NEW x \in D PROVE 1 + C(x) \in 1..n
  <2>1. Below(R, D, x) \in SUBSET D /\ Below(R, D, x) # D
    BY DEF Below, Orders
  <2>2. C(x) <= n /\ C(x) # n
    BY <2>1, FS_Subset
  <2> HIDE DEF n, C
  <2> QED BY <1>1, <1>2, <2>2
<1>4. ASSUME NEW x \in D, NEW y \in D, <<x, y>> \in R PROVE C(x) < C(y)
  <2>1. Below(R, D, x) \in SUBSET Below(R, D, y)
    BY <1>4 DEF Below, Orders
  <2>2. x \in Below(R, D, y) /\ x \notin Below(R, D, x)
    BY <1>4 DEF Below, Orders
  <2>3. C(x) <= C(y) /\ C(x) # C(y)
    BY <1>2, <2>1, <2>2, FS_Subset
  <2> HIDE DEF n, C
  <2> QED BY <1>2, <2>3
<1> DEFINE rank == [x \in D |-> 1 + C(x)]
<1>5. rank \in Injection(D, 1..n)
  <2>1. rank \in [D -> 1..n]
    BY <1>3
  <2>2. ASSUME NEW x \in D, NEW y \in D, rank[x] = rank[y] PROVE x = y
    <3>1. 1 + C(x) = 1 + C(y)
      BY <2>2
    <3>2. C(x) \in Nat /\ C(y) \in Nat
      BY <1>2
    <3>3. x = y \/ <<x, y>> \in R \/ <<y, x>> \in R
      BY DEF Orders
    <3>4. (<<x, y>> \in R => C(x) < C(y)) /\ (<<y, x>> \in R => C(y) < C(x))
      BY <1>4
    <3> HIDE DEF C, rank
    <3> QED BY <3>1, <3>2, <3>3, <3>4
  <2>3. DOMAIN rank = D
    OBVIOUS
  <2> HIDE DEF rank
  <2> QED BY <2>1, <2>2, <2>3 DEF Injection, IsInjective
<1>6. IsFiniteSet(1..n) /\ Cardinality(1..n) = n
  <2> HIDE DEF n
  <2>1. IsFiniteSet(1..n) /\ Cardinality(1..n) = IF 1 > n THEN 0 ELSE n - 1 + 1
    BY <1>1, FS_Interval
  <2> QED BY <1>1, <2>1
<1>7. rank \in Surjection(D, 1..n)
  <2> HIDE DEF rank
  <2> QED BY <1>5, <1>6, FS_Injection
<1>8. rank \in Bijection(D, 1..n)
  BY <1>5, <1>7 DEF Bijection
<1> QED BY <1>3, <1>4, <1>8

(* Every set of numbers that is not empty has a least member. *)
LEMMA LeastNumber ==
  ASSUME NEW n \in Nat, NEW S \in SUBSET (1..n), S # {}
  PROVE  \E k \in S : \A l \in S : k <= l
<1> DEFINE B == {1..k : k \in S}
<1>1. IsFiniteSet(1..n)
  BY FS_Interval
<1>2. B \subseteq SUBSET (1..n) /\ B # {}
  <2>1. \A k \in S : 1..k \subseteq 1..n
    OBVIOUS
  <2> QED BY <2>1, Zenon
<1>3. PICK T \in B : \A U \in SUBSET T : U # T => U \notin B
  <2> HIDE DEF B
  <2> QED BY <1>1, <1>2, SmallestSubset
<1>4. PICK k \in S : T = 1..k
  BY <1>3
<1>5. ASSUME NEW l \in S, ~(k <= l) PROVE FALSE
  <2>1. k \in 1..n /\ l \in 1..n
    OBVIOUS
  <2>2. 1..l \in SUBSET (1..k) /\ k \in 1..k /\ k \notin 1..l
    BY <1>5, <2>1
  <2>3. 1..l # 1..k
    BY <2>2
  <2>4. 1..l \in B
    BY <1>5, Zenon
  <2> HIDE DEF B
  <2> QED BY <1>3, <1>4, <2>2, <2>3, <2>4
<1> QED BY <1>5
=============================================================================
