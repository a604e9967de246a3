----------------------------- MODULE SumLemmas ------------------------------
(***************************************************************************)
(* The sum of a function over a finite set: what SumFunctionOnSet of the   *)
(* module Functions computes, proved once for the components whose         *)
(* properties speak of totals; then, the ranks of the elements of a finite *)
(* ordered set.                                                            *)
(*                                                                         *)
(* SumFunctionOnSet is a fold: it takes one arbitrary element after the    *)
(* other.  That the fold exists (IterExists), that it is one function      *)
(* (IterUnique) and that any element can be taken out first (SumAny) are   *)
(* each shown on a smallest set for which it would fail: the strict subset *)
(* ordering of a finite set is well founded, and the library states that   *)
(* without an operator parameter.                                          *)
(***************************************************************************)
EXTENDS Integers, FiniteSets, Functions, FiniteSetTheorems, WellFoundedInduction, TLAPS

\* The element that the fold takes out of a set first.
Taken(s) == CHOOSE x \in s : TRUE

\* g is a table of the partial sums of f over the subsets of S.
IsIter(g, f, S) ==
    g = [s \in SUBSET S |->
            IF s = {} THEN 0 ELSE f[Taken(s)] + g[s \ {Taken(s)}]]

LEMMA TakenIn == ASSUME NEW s, s # {} PROVE Taken(s) \in s
BY DEF Taken

LEMMA SumIsIter ==
    ASSUME NEW f, NEW S
    PROVE  SumFunctionOnSet(f, S) = (CHOOSE g : IsIter(g, f, S))[S]
BY DEF SumFunctionOnSet, FoldFunctionOnSet, MapThenFoldSet, IsIter, Taken

-----------------------------------------------------------------------------
\* A nonempty family of subsets of a finite set has a member none of whose strict
\* subsets is in the family.
LEMMA SmallestSubset ==
    ASSUME NEW S, IsFiniteSet(S), NEW T \in SUBSET (SUBSET S), T # {}
    PROVE  \E U \in T : \A V \in T : V \subseteq U => V = U
<1>1. IsWellFoundedOn(StrictSubsetOrdering(S), SUBSET S)
  BY FS_StrictSubsetOrderingWellFounded, FS_FiniteSubsetsOfFinite
<1>2. PICK U \in T : \A V \in T : ~ (<<V, U>> \in StrictSubsetOrdering(S))
  BY <1>1, WFMin
<1>3. ASSUME NEW V \in T, V \subseteq U, V # U PROVE FALSE
  BY <1>2, <1>3 DEF StrictSubsetOrdering
<1> QED BY <1>3

LEMMA IterAt ==
    ASSUME NEW f, NEW S, NEW g, IsIter(g, f, S), NEW s \in SUBSET S
    PROVE  /\ s = {} => g[s] = 0
           /\ s # {} => g[s] = f[Taken(s)] + g[s \ {Taken(s)}]
BY DEF IsIter

LEMMA IterUnique ==
    ASSUME NEW f, NEW S, IsFiniteSet(S), NEW g, NEW h,
           IsIter(g, f, S), IsIter(h, f, S), NEW s \in SUBSET S
    PROVE  g[s] = h[s]
<1> DEFINE T == {u \in SUBSET S : g[u] # h[u]}
<1> SUFFICES ASSUME T # {} PROVE FALSE
  OBVIOUS
<1>1. PICK U \in T : \A V \in T : V \subseteq U => V = U
  <2> HIDE DEF T
  <2>1. T \in SUBSET (SUBSET S)
    BY DEF T
  <2> QED BY <2>1, SmallestSubset
<1>2. U \in SUBSET S /\ g[U] # h[U]
  OBVIOUS
<1>3. U # {}
  BY <1>2, IterAt
<1>4. Taken(U) \in U
  BY <1>3, TakenIn
<1>5. U \ {Taken(U)} \in SUBSET S /\ U \ {Taken(U)} # U
  BY <1>2, <1>4
<1>6. g[U \ {Taken(U)}] = h[U \ {Taken(U)}]
  BY <1>1, <1>5
<1>7. /\ g[U] = f[Taken(U)] + g[U \ {Taken(U)}]
      /\ h[U] = f[Taken(U)] + h[U \ {Taken(U)}]
  BY <1>2, <1>3, IterAt
<1> QED BY <1>2, <1>6, <1>7

\* The table of the sums themselves, continued by one set, U, whose strict subsets have their sums in it.
Continued(f, U) ==
    [s \in SUBSET U |-> IF s = {} THEN 0
                        ELSE IF s = U
                             THEN f[Taken(U)] + SumFunctionOnSet(f, U \ {Taken(U)})
                             ELSE SumFunctionOnSet(f, s)]

\* What a table of sums says at its own set.
SumStep(f, s) ==
    SumFunctionOnSet(f, s) =
        IF s = {} THEN 0 ELSE f[Taken(s)] + SumFunctionOnSet(f, s \ {Taken(s)})

\* The fold exists: its equation holds of every set whose strict subsets satisfy it.
LEMMA IterExists ==
    ASSUME NEW f, NEW U, IsFiniteSet(U),
           \A V \in SUBSET U : V # U => SumStep(f, V)
    PROVE  SumStep(f, U)
<1> DEFINE h == Continued(f, U)
<1>1. IsIter(h, f, U)
  <2>1. ASSUME NEW s \in SUBSET U
        PROVE  h[s] = IF s = {} THEN 0 ELSE f[Taken(s)] + h[s \ {Taken(s)}]
    <3>1. CASE s = {}
      BY <3>1 DEF Continued
    <3>2. CASE s # {}
      <4>1. Taken(s) \in s /\ s \ {Taken(s)} \in SUBSET U /\ s \ {Taken(s)} # U
        BY <3>2, TakenIn
      <4>2. h[s \ {Taken(s)}] = SumFunctionOnSet(f, s \ {Taken(s)})
        <5>1. SumStep(f, s \ {Taken(s)})
          BY <4>1
        <5> QED BY <4>1, <5>1 DEF Continued, SumStep
      <4>3. CASE s = U
        BY <3>2, <4>2, <4>3 DEF Continued
      <4>4. CASE s # U
        <5>1. h[s] = SumFunctionOnSet(f, s)
          BY <3>2, <4>4 DEF Continued
        <5>2. SumStep(f, s)
          BY <4>4
        <5> QED BY <3>2, <4>2, <5>1, <5>2 DEF SumStep
      <4> QED BY <4>3, <4>4
    <3> QED BY <3>1, <3>2
  <2>2. h = [s \in SUBSET U |-> h[s]]
    BY DEF Continued
  <2> HIDE DEF h
  <2>3. [s \in SUBSET U |-> h[s]] =
        [s \in SUBSET U |-> IF s = {} THEN 0 ELSE f[Taken(s)] + h[s \ {Taken(s)}]]
    BY <2>1
  <2> QED BY <2>2, <2>3 DEF IsIter
<1> HIDE DEF h
<1> DEFINE g == CHOOSE k : IsIter(k, f, U)
<1>2. IsIter(g, f, U)
  BY <1>1
<1> HIDE DEF g
<1>3. SumFunctionOnSet(f, U) = g[U]
  BY SumIsIter DEF g
<1>4. g[U] = h[U]
  BY <1>1, <1>2, IterUnique
<1>5. h[U] = IF U = {} THEN 0 ELSE f[Taken(U)] + SumFunctionOnSet(f, U \ {Taken(U)})
  BY DEF h, Continued
<1> QED BY <1>3, <1>4, <1>5 DEF SumStep

\* The equation of the fold, for every finite set.
LEMMA SumStepHolds ==
    ASSUME NEW f, NEW S, IsFiniteSet(S)
    PROVE  SumStep(f, S)
<1> DEFINE T == {u \in SUBSET S : ~ SumStep(f, u)}
<1> SUFFICES ASSUME T # {} PROVE FALSE
  OBVIOUS
<1>1. PICK U \in T : \A V \in T : V \subseteq U => V = U
  <2> HIDE DEF T
  <2>1. T \in SUBSET (SUBSET S)
    BY DEF T
  <2> QED BY <2>1, SmallestSubset
<1>2. U \in SUBSET S /\ ~ SumStep(f, U)
  OBVIOUS
<1>3. IsFiniteSet(U)
  BY <1>2, FS_Subset
<1>4. \A V \in SUBSET U : V # U => SumStep(f, V)
  BY <1>1, <1>2
<1> QED BY <1>2, <1>3, <1>4, IterExists

-----------------------------------------------------------------------------
LEMMA SumEmpty == \A f : SumFunctionOnSet(f, {}) = 0
BY SumStepHolds, FS_EmptySet DEF SumStep

LEMMA SumTaken ==
    ASSUME NEW f, NEW S, IsFiniteSet(S), S # {}
    PROVE  /\ Taken(S) \in S
           /\ SumFunctionOnSet(f, S) = f[Taken(S)] + SumFunctionOnSet(f, S \ {Taken(S)})
BY SumStepHolds, TakenIn DEF SumStep

\* The sum of numbers is a number.
LEMMA SumType ==
    ASSUME NEW f, NEW S, IsFiniteSet(S), NEW N \in {Int, Nat}, \A x \in S : f[x] \in N
    PROVE  SumFunctionOnSet(f, S) \in N
<1> DEFINE T == {u \in SUBSET S : SumFunctionOnSet(f, u) \notin N}
<1> SUFFICES ASSUME T # {} PROVE FALSE
  OBVIOUS
<1>1. PICK U \in T : \A V \in T : V \subseteq U => V = U
  <2> HIDE DEF T
  <2>1. T \in SUBSET (SUBSET S)
    BY DEF T
  <2> QED BY <2>1, SmallestSubset
<1>2. U \in SUBSET S /\ SumFunctionOnSet(f, U) \notin N
  OBVIOUS
<1>3. IsFiniteSet(U)
  BY <1>2, FS_Subset
<1>4. U # {}
  BY <1>2, SumEmpty
<1>5. /\ Taken(U) \in U
      /\ SumFunctionOnSet(f, U) = f[Taken(U)] + SumFunctionOnSet(f, U \ {Taken(U)})
  BY <1>3, <1>4, SumTaken
<1>6. SumFunctionOnSet(f, U \ {Taken(U)}) \in N
  BY <1>1, <1>2, <1>5
<1> QED BY <1>2, <1>5, <1>6

\* Any element may be taken out of the sum.
LEMMA SumAny ==
    ASSUME NEW f, NEW S, IsFiniteSet(S), \A x \in S : f[x] \in Int, NEW y \in S
    PROVE  SumFunctionOnSet(f, S) = f[y] + SumFunctionOnSet(f, S \ {y})
<1> DEFINE OK(u) == \A z \in u : SumFunctionOnSet(f, u) = f[z] + SumFunctionOnSet(f, u \ {z})
<1> DEFINE T == {u \in SUBSET S : ~ OK(u)}
<1> SUFFICES ASSUME T # {} PROVE FALSE
  OBVIOUS
<1>1. PICK U \in T : \A V \in T : V \subseteq U => V = U
  <2> HIDE DEF T
  <2>1. T \in SUBSET (SUBSET S)
    BY DEF T
  <2> QED BY <2>1, SmallestSubset
<1>2. U \in SUBSET S /\ ~ OK(U)
  OBVIOUS
<1>3. \A V \in SUBSET S : IsFiniteSet(V) /\ SumFunctionOnSet(f, V) \in Int
  BY FS_Subset, SumType
<1>4. PICK z \in U : SumFunctionOnSet(f, U) # f[z] + SumFunctionOnSet(f, U \ {z})
  BY <1>2
<1> DEFINE x == Taken(U)
<1>5. x \in U /\ SumFunctionOnSet(f, U) = f[x] + SumFunctionOnSet(f, U \ {x})
  BY <1>2, <1>3, <1>4, SumTaken
<1> HIDE DEF x
<1>6. x # z
  BY <1>4, <1>5
<1>7. OK(U \ {x}) /\ OK(U \ {z})
  BY <1>1, <1>2, <1>4, <1>5
<1> DEFINE W == (U \ {x}) \ {z}
<1>8. SumFunctionOnSet(f, U \ {x}) = f[z] + SumFunctionOnSet(f, W)
  BY <1>4, <1>6, <1>7
<1>9. SumFunctionOnSet(f, U \ {z}) = f[x] + SumFunctionOnSet(f, W)
  <2>1. (U \ {z}) \ {x} = W
    OBVIOUS
  <2>2. x \in U \ {z}
    BY <1>5, <1>6
  <2> QED BY <1>7, <2>1, <2>2
<1>10. f[x] \in Int /\ f[z] \in Int /\ SumFunctionOnSet(f, W) \in Int
  BY <1>2, <1>3, <1>4, <1>5
<1> HIDE DEF W
<1> QED BY <1>4, <1>5, <1>8, <1>9, <1>10

\* The sum only depends on the function's values on the set.
LEMMA SumSame ==
    ASSUME NEW f, NEW g, NEW S, IsFiniteSet(S), \A x \in S : f[x] = g[x]
    PROVE  SumFunctionOnSet(f, S) = SumFunctionOnSet(g, S)
<1> DEFINE T == {u \in SUBSET S : SumFunctionOnSet(f, u) # SumFunctionOnSet(g, u)}
<1> SUFFICES ASSUME T # {} PROVE FALSE
  OBVIOUS
<1>1. PICK U \in T : \A V \in T : V \subseteq U => V = U
  <2> HIDE DEF T
  <2>1. T \in SUBSET (SUBSET S)
    BY DEF T
  <2> QED BY <2>1, SmallestSubset
<1>2. U \in SUBSET S /\ SumFunctionOnSet(f, U) # SumFunctionOnSet(g, U)
  OBVIOUS
<1>3. IsFiniteSet(U)
  BY <1>2, FS_Subset
<1>4. U # {}
  BY <1>2, SumEmpty
<1>5. /\ Taken(U) \in U
      /\ SumFunctionOnSet(f, U) = f[Taken(U)] + SumFunctionOnSet(f, U \ {Taken(U)})
      /\ SumFunctionOnSet(g, U) = g[Taken(U)] + SumFunctionOnSet(g, U \ {Taken(U)})
  BY <1>3, <1>4, SumTaken
<1>6. SumFunctionOnSet(f, U \ {Taken(U)}) = SumFunctionOnSet(g, U \ {Taken(U)})
  BY <1>1, <1>2, <1>5
<1> QED BY <1>2, <1>5, <1>6

LEMMA SumAdd ==
    ASSUME NEW f, NEW S, IsFiniteSet(S), NEW y, y \notin S,
           \A x \in S \cup {y} : f[x] \in Int
    PROVE  SumFunctionOnSet(f, S \cup {y}) = f[y] + SumFunctionOnSet(f, S)
<1>1. (S \cup {y}) \ {y} = S
  OBVIOUS
<1>2. IsFiniteSet(S \cup {y})
  BY FS_AddElement
<1> QED BY <1>1, <1>2, SumAny

\* A function that changes at one element changes the sum by as much.
LEMMA SumChange ==
    ASSUME NEW f, NEW g, NEW S, IsFiniteSet(S), NEW y \in S,
           \A x \in S : f[x] \in Int /\ g[x] \in Int,
           \A x \in S : x # y => g[x] = f[x]
    PROVE  SumFunctionOnSet(g, S) = SumFunctionOnSet(f, S) + g[y] - f[y]
<1>1. IsFiniteSet(S \ {y})
  BY FS_Subset
<1>2. SumFunctionOnSet(g, S \ {y}) = SumFunctionOnSet(f, S \ {y})
  BY <1>1, SumSame
<1>3. SumFunctionOnSet(f, S \ {y}) \in Int
  BY <1>1, SumType
<1>4. /\ SumFunctionOnSet(f, S) = f[y] + SumFunctionOnSet(f, S \ {y})
      /\ SumFunctionOnSet(g, S) = g[y] + SumFunctionOnSet(g, S \ {y})
  BY SumAny
<1> QED BY <1>2, <1>3, <1>4

\* A sum of natural numbers is at least each of them.
LEMMA SumAtLeast ==
    ASSUME NEW f, NEW S, IsFiniteSet(S), \A x \in S : f[x] \in Nat, NEW y \in S
    PROVE  SumFunctionOnSet(f, S) >= f[y]
<1>1. IsFiniteSet(S \ {y})
  BY FS_Subset
<1>2. SumFunctionOnSet(f, S \ {y}) \in Nat
  BY <1>1, SumType
<1>3. SumFunctionOnSet(f, S) = f[y] + SumFunctionOnSet(f, S \ {y})
  BY SumAny
<1> QED BY <1>2, <1>3

LEMMA SumZero ==
    ASSUME NEW f, NEW S, IsFiniteSet(S), \A x \in S : f[x] = 0
    PROVE  SumFunctionOnSet(f, S) = 0
<1> DEFINE T == {u \in SUBSET S : SumFunctionOnSet(f, u) # 0}
<1> SUFFICES ASSUME T # {} PROVE FALSE
  OBVIOUS
<1>1. PICK U \in T : \A V \in T : V \subseteq U => V = U
  <2> HIDE DEF T
  <2>1. T \in SUBSET (SUBSET S)
    BY DEF T
  <2> QED BY <2>1, SmallestSubset
<1>2. U \in SUBSET S /\ SumFunctionOnSet(f, U) # 0 /\ IsFiniteSet(U)
  BY FS_Subset
<1>3. /\ Taken(U) \in U
      /\ SumFunctionOnSet(f, U) = f[Taken(U)] + SumFunctionOnSet(f, U \ {Taken(U)})
  BY <1>2, SumEmpty, SumTaken
<1>4. SumFunctionOnSet(f, U \ {Taken(U)}) = 0
  BY <1>1, <1>2, <1>3
<1> QED BY <1>2, <1>3, <1>4

-----------------------------------------------------------------------------
(***************************************************************************)
(* The same for a function over the whole of its domain.                   *)
(***************************************************************************)

LEMMA WholeSumEmpty == ASSUME NEW f, DOMAIN f = {} PROVE SumFunction(f) = 0
BY SumEmpty DEF SumFunction

LEMMA WholeSumNat ==
    ASSUME NEW f, IsFiniteSet(DOMAIN f), \A x \in DOMAIN f : f[x] \in Nat
    PROVE  /\ SumFunction(f) \in Nat
           /\ \A y \in DOMAIN f : SumFunction(f) >= f[y]
BY SumType, SumAtLeast DEF SumFunction

\* g is f and one more element.
LEMMA WholeSumInsert ==
    ASSUME NEW f, NEW g, IsFiniteSet(DOMAIN f), NEW y, y \notin DOMAIN f,
           DOMAIN g = DOMAIN f \cup {y},
           \A x \in DOMAIN f : g[x] = f[x],
           \A x \in DOMAIN g : g[x] \in Int
    PROVE  SumFunction(g) = SumFunction(f) + g[y]
<1>1. SumFunctionOnSet(g, DOMAIN f \cup {y}) = g[y] + SumFunctionOnSet(g, DOMAIN f)
  BY SumAdd
<1>2. SumFunctionOnSet(g, DOMAIN f) = SumFunctionOnSet(f, DOMAIN f)
  BY SumSame
<1>3. SumFunctionOnSet(f, DOMAIN f) \in Int
  BY SumType
<1> QED BY <1>1, <1>2, <1>3 DEF SumFunction

\* g is f with another value at one element.
LEMMA WholeSumChange ==
    ASSUME NEW f, NEW g, IsFiniteSet(DOMAIN f), NEW y \in DOMAIN f, DOMAIN g = DOMAIN f,
           \A x \in DOMAIN f : f[x] \in Int /\ g[x] \in Int,
           \A x \in DOMAIN f : x # y => g[x] = f[x]
    PROVE  SumFunction(g) = SumFunction(f) + g[y] - f[y]
BY SumChange DEF SumFunction

-----------------------------------------------------------------------------
(***************************************************************************)
(* Ranks: how many elements of a finite set come before one of them.       *)
(***************************************************************************)

\* The elements of S before x in the relation R.
Before(S, R, x) == {y \in S : <<y, x>> \in R}

\* R is a strict total order of S.
TotalOn(R, S) ==
    /\ \A x \in S : <<x, x>> \notin R
    /\ \A x, y \in S : x # y => <<x, y>> \in R \/ <<y, x>> \in R
    /\ \A x, y, z \in S : <<x, y>> \in R /\ <<y, z>> \in R => <<x, z>> \in R

LEMMA BeforeCard ==
    ASSUME NEW S, IsFiniteSet(S), NEW R, TotalOn(R, S), NEW x \in S
    PROVE  /\ Cardinality(S) \in Nat
           /\ Cardinality(Before(S, R, x)) \in 0 .. Cardinality(S) - 1
           /\ \A y \in S : <<x, y>> \in R =>
                 Cardinality(Before(S, R, x)) < Cardinality(Before(S, R, y))
<1>1. \A z \in S : Before(S, R, z) \in SUBSET S
  BY DEF Before
<1>2. /\ Cardinality(S) \in Nat
      /\ \A z \in S : /\ IsFiniteSet(Before(S, R, z))
                      /\ Cardinality(Before(S, R, z)) \in Nat
                      /\ Cardinality(Before(S, R, z)) =< Cardinality(S)
  BY <1>1, FS_Subset, FS_CardinalityType
<1>3. Cardinality(Before(S, R, x)) # Cardinality(S)
  <2>1. x \notin Before(S, R, x)
    BY DEF Before, TotalOn
  <2> QED BY <1>1, <2>1, FS_Subset
<1>4. ASSUME NEW y \in S, <<x, y>> \in R
      PROVE  Cardinality(Before(S, R, x)) < Cardinality(Before(S, R, y))
  <2>1. Before(S, R, x) \in SUBSET Before(S, R, y)
    BY <1>4 DEF Before, TotalOn
  <2>2. x \in Before(S, R, y) /\ x \notin Before(S, R, x)
    BY <1>4 DEF Before, TotalOn
  <2>3. /\ Cardinality(Before(S, R, x)) =< Cardinality(Before(S, R, y))
        /\ Cardinality(Before(S, R, x)) # Cardinality(Before(S, R, y))
    BY <1>2, <2>1, <2>2, FS_Subset
  <2> QED BY <1>2, <2>3
<1> QED BY <1>2, <1>3, <1>4

\* Each number below the size of the set is the rank of one element.
LEMMA RankFound ==
    ASSUME NEW S, IsFiniteSet(S), NEW R, TotalOn(R, S),
           NEW k \in Nat, k < Cardinality(S)
    PROVE  \E x \in S : Cardinality(Before(S, R, x)) = k
<1> DEFINE n == Cardinality(S)
           T == 0 .. n - 1
           f == [x \in S |-> Cardinality(Before(S, R, x))]
<1>1. n \in Nat
  BY FS_CardinalityType
<1>2. IsFiniteSet(T) /\ Cardinality(T) = n
  <2>1. 0 \in Int /\ n - 1 \in Int /\ (IF 0 > n - 1 THEN 0 ELSE (n - 1) - 0 + 1) = n
    BY <1>1
  <2> HIDE DEF n
  <2> QED BY <2>1, FS_Interval
<1>3. f \in [S -> T]
  BY BeforeCard
<1>4. ASSUME NEW x \in S, NEW y \in S, x # y PROVE f[x] # f[y]
  <2>1. <<x, y>> \in R \/ <<y, x>> \in R
    BY <1>4 DEF TotalOn
  <2>2. f[x] \in Nat /\ f[y] \in Nat /\ (f[x] < f[y] \/ f[y] < f[x])
    BY <1>1, <1>3, <2>1, BeforeCard
  <2> QED BY <2>2
<1>5. f \in Injection(S, T)
  BY <1>3, <1>4 DEF Injection, IsInjective
<1>6. f \in Surjection(S, T)
  <2> HIDE DEF f, T, n
  <2> QED BY <1>2, <1>5, FS_Injection DEF n
<1>7. k \in T
  BY <1>1
<1> QED BY <1>6, <1>7 DEF Surjection

\* Elements of the same rank are the same.
LEMMA RankOnce ==
    ASSUME NEW S, IsFiniteSet(S), NEW R, TotalOn(R, S), NEW x \in S, NEW y \in S,
           Cardinality(Before(S, R, x)) = Cardinality(Before(S, R, y))
    PROVE  x = y
<1> SUFFICES ASSUME x # y PROVE FALSE
  OBVIOUS
<1>1. <<x, y>> \in R \/ <<y, x>> \in R
  BY DEF TotalOn
<1>2. /\ Cardinality(Before(S, R, x)) \in Nat
      /\ <<x, y>> \in R => Cardinality(Before(S, R, x)) < Cardinality(Before(S, R, y))
      /\ <<y, x>> \in R => Cardinality(Before(S, R, y)) < Cardinality(Before(S, R, x))
  BY BeforeCard
<1> QED BY <1>1, <1>2

\* An element of a lower rank comes first.
LEMMA RankOrders ==
    ASSUME NEW S, IsFiniteSet(S), NEW R, TotalOn(R, S), NEW x \in S, NEW y \in S,
           Cardinality(Before(S, R, x)) < Cardinality(Before(S, R, y))
    PROVE  <<x, y>> \in R
<1>1. /\ Cardinality(Before(S, R, x)) \in Nat /\ Cardinality(Before(S, R, y)) \in Nat
      /\ <<y, x>> \in R => Cardinality(Before(S, R, y)) < Cardinality(Before(S, R, x))
  BY BeforeCard
<1>2. x # y /\ <<y, x>> \notin R
  BY <1>1
<1> QED BY <1>2 DEF TotalOn

=============================================================================
