----------------------------- MODULE Induction ------------------------------
(***************************************************************************)
(* Induction without an operator parameter: a property of numbers or of    *)
(* finite sets is given by the set of those that have it.  From it, what a *)
(* proof needs of the least and the greatest of a set that operators       *)
(* CHOOSE, and of the sums that the community modules define by a fold.    *)
(***************************************************************************)
EXTENDS Integers, Functions, FiniteSetTheorems, WellFoundedInduction, TLAPS

(* A set of naturals has a least member.                                   *)
LEMMA LeastOf ==
  ASSUME NEW S \in SUBSET Nat, S # {}
  PROVE  \E m \in S : \A k \in S : m <= k
<1> DEFINE R == OpToRel(<, Nat)
<1>1. IsWellFoundedOn(R, Nat)
  BY NatLessThanWellFounded
<1>2. PICK m \in S : \A k \in S : <<k, m>> \notin R
  <2> HIDE DEF R
  <2> QED BY <1>1, WFMin
<1>3. ASSUME NEW k \in S PROVE m <= k
  <2>1. <<k, m>> \in R <=> k < m
    BY DEF OpToRel
  <2>2. ~ (k < m)
    <3> HIDE DEF R
    <3> QED BY <1>2, <1>3, <2>1
  <2>3. k \in Nat /\ m \in Nat
    BY <1>2, <1>3
  <2> HIDE DEF R
  <2> QED
    BY <2>2, <2>3
<1> QED
  BY <1>3

(* A set of naturals with a bound has a greatest member.                   *)
LEMMA GreatestOf ==
  ASSUME NEW b \in Nat, NEW S \in SUBSET (0..b), S # {}
  PROVE  \E g \in S : \A k \in S : k <= g
<1> DEFINE D == { b - k : k \in S }
<1>1. D \in SUBSET Nat /\ D # {}
  <2>1. PICK k \in S : TRUE
    OBVIOUS
  <2>2. b - k \in D
    BY <2>1
  <2> QED
    BY <2>2
<1>2. PICK d \in D : \A c \in D : d <= c
  <2> HIDE DEF D
  <2> QED BY <1>1, LeastOf
<1>3. PICK g \in S : d = b - g
  BY <1>2
<1>4. ASSUME NEW k \in S PROVE k <= g
  <2>1. b - k \in D
    OBVIOUS
  <2>2. d <= b - k
    <3> HIDE DEF D
    <3> QED BY <1>2, <2>1
  <2>3. g \in Nat /\ k \in Nat
    BY <1>3
  <2> HIDE DEF D
  <2> QED
    BY <1>3, <2>2, <2>3
<1> QED
  BY <1>3, <1>4

(* Induction over the naturals, for a property that is given by the set of *)
(* the numbers that have it.                                               *)
LEMMA AllNaturals ==
  ASSUME NEW P \in SUBSET Nat, 0 \in P, \A n \in P : n + 1 \in P
  PROVE  P = Nat
<1> SUFFICES ASSUME Nat \ P # {} PROVE FALSE
  OBVIOUS
<1>1. PICK m \in Nat \ P : \A k \in Nat \ P : m <= k
  BY LeastOf
<1>2. m # 0 /\ m - 1 \in Nat /\ m - 1 \in P
  BY <1>1
<1> QED
  BY <1>1, <1>2

(* Induction over the subsets of a finite set.                             *)
LEMMA AllSubsets ==
  ASSUME NEW S, IsFiniteSet(S), NEW P \in SUBSET SUBSET S,
         \A T \in SUBSET S : (\A x \in T : T \ {x} \in P) => T \in P
  PROVE  P = SUBSET S
<1> SUFFICES ASSUME NEW B \in SUBSET S, B \notin P PROVE FALSE
  OBVIOUS
<1> DEFINE bad == { T \in SUBSET S : T \notin P }
           sizes == { Cardinality(T) : T \in bad }
<1>1. \A T \in SUBSET S : IsFiniteSet(T) /\ Cardinality(T) \in Nat
  BY FS_Subset, FS_CardinalityType
<1>2. sizes \in SUBSET Nat /\ sizes # {}
  BY <1>1
<1>3. PICK n \in sizes : \A k \in sizes : n <= k
  <2> HIDE DEF sizes
  <2> QED BY <1>2, LeastOf
<1>4. PICK T \in bad : n = Cardinality(T)
  BY <1>3
<1>5. ASSUME NEW x \in T PROVE T \ {x} \in P
  <2>1. IsFiniteSet(T) /\ T \in SUBSET S
    BY <1>1, <1>4
  <2>2. Cardinality(T \ {x}) = Cardinality(T) - 1
    BY <2>1, FS_RemoveElement
  <2>3. T \ {x} \in SUBSET S
    BY <2>1
  <2>4. ASSUME T \ {x} \notin P PROVE FALSE
    <3>1. Cardinality(T \ {x}) \in sizes
      BY <2>3, <2>4
    <3>2. n <= Cardinality(T \ {x})
      <4> HIDE DEF sizes
      <4> QED BY <1>3, <3>1
    <3>3. n \in Nat /\ n = Cardinality(T)
      BY <1>1, <1>4
    <3> HIDE DEF sizes, bad
    <3> QED BY <2>2, <3>2, <3>3
  <2> QED BY <2>4
<1> QED
  BY <1>4, <1>5

-----------------------------------------------------------------------------
(* Sums.  SumFunctionOnSet is a fold: it takes the members of the set as   *)
(* they are chosen.                                                        *)
Chosen(T) == CHOOSE x \in T : TRUE

Adds(f, S, h) ==
  h = [T \in SUBSET S |-> IF T = {} THEN 0 ELSE f[Chosen(T)] + h[T \ {Chosen(T)}]]

LEMMA FoldIsChoice ==
  ASSUME NEW f, NEW S
  PROVE  SumFunctionOnSet(f, S) = (CHOOSE h : Adds(f, S, h))[S]
  BY DEF SumFunctionOnSet, FoldFunctionOnSet, MapThenFoldSet, Adds, Chosen

LEMMA AddsExists ==
  ASSUME NEW S, IsFiniteSet(S), NEW f
  PROVE  \E h : Adds(f, S, h)
<1> DEFINE rhs(h, T) == IF T = {} THEN 0 ELSE f[Chosen(T)] + h[T \ {Chosen(T)}]
           P == { n \in Nat : \E h : /\ h = [T \in SUBSET S |-> h[T]]
                     /\ \A T \in SUBSET S : Cardinality(T) <= n => h[T] = rhs(h, T) }
<1>1. \A T \in SUBSET S : IsFiniteSet(T) /\ Cardinality(T) \in Nat
  BY FS_Subset, FS_CardinalityType
<1>2. \A T \in SUBSET S : T # {} =>
        /\ Chosen(T) \in T /\ T \ {Chosen(T)} \in SUBSET S
        /\ Cardinality(T \ {Chosen(T)}) = Cardinality(T) - 1
  BY <1>1, FS_RemoveElement DEF Chosen
<1>3. 0 \in P
  <2> DEFINE h == [T \in SUBSET S |-> 0]
  <2>1. \A T \in SUBSET S : Cardinality(T) <= 0 => T = {}
    BY <1>1, FS_EmptySet
  <2>2. \A T \in SUBSET S : Cardinality(T) <= 0 => h[T] = rhs(h, T)
    BY <2>1
  <2>3. h = [T \in SUBSET S |-> h[T]]
    OBVIOUS
  <2> HIDE DEF h
  <2> QED BY <2>2, <2>3
<1>4. ASSUME NEW n \in P PROVE n + 1 \in P
  <2>1. PICK h : /\ h = [T \in SUBSET S |-> h[T]]
                 /\ \A T \in SUBSET S : Cardinality(T) <= n => h[T] = rhs(h, T)
    BY <1>4
  <2> DEFINE g == [T \in SUBSET S |-> IF Cardinality(T) <= n THEN h[T] ELSE rhs(h, T)]
  <2>2. ASSUME NEW T \in SUBSET S, Cardinality(T) <= n + 1
        PROVE  g[T] = rhs(g, T)
    <3>1. CASE T = {}
      BY <2>1, <3>1
    <3>2. CASE T # {}
      <4> DEFINE U == T \ {Chosen(T)}
      <4>1. U \in SUBSET S /\ Cardinality(U) <= n
        BY <1>1, <1>2, <2>2, <3>2
      <4>2. g[U] = h[U]
        BY <4>1
      <4>3. g[T] = rhs(h, T)
        BY <2>1
      <4> HIDE DEF g
      <4> QED BY <3>2, <4>2, <4>3
    <3> QED BY <3>1, <3>2
  <2>3. g = [T \in SUBSET S |-> g[T]]
    OBVIOUS
  <2> HIDE DEF g
  <2>4. n + 1 \in Nat
    OBVIOUS
  <2> QED BY <2>2, <2>3, <2>4
<1>5. P = Nat
  <2>1. P \in SUBSET Nat
    OBVIOUS
  <2> HIDE DEF P
  <2> QED BY <1>3, <1>4, <2>1, AllNaturals
<1>6. Cardinality(S) \in P
  BY <1>1, <1>5
<1>7. PICK h : /\ h = [T \in SUBSET S |-> h[T]]
               /\ \A T \in SUBSET S : Cardinality(T) <= Cardinality(S) => h[T] = rhs(h, T)
  BY <1>6
<1>8. \A T \in SUBSET S : h[T] = rhs(h, T)
  BY <1>1, <1>7, FS_Subset
<1>9. h = [T \in SUBSET S |-> rhs(h, T)]
  BY <1>7, <1>8
<1> QED
  BY <1>9 DEF Adds

(* Adds determines its function.                                           *)
LEMMA AddsUnique ==
  ASSUME NEW S, IsFiniteSet(S), NEW f, NEW g, NEW h, Adds(f, S, g), Adds(f, S, h)
  PROVE  g = h
<1> DEFINE P == { T \in SUBSET S : g[T] = h[T] }
<1>1. ASSUME NEW T \in SUBSET S, \A x \in T : T \ {x} \in P
      PROVE  T \in P
  <2>1. T # {} => Chosen(T) \in T
    BY DEF Chosen
  <2> QED BY <1>1, <2>1 DEF Adds
<1>2. P = SUBSET S
  <2>1. P \in SUBSET SUBSET S
    OBVIOUS
  <2> HIDE DEF P
  <2> QED BY <1>1, <2>1, AllSubsets
<1>3. \A T \in SUBSET S : g[T] = h[T]
  BY <1>2
<1> QED BY <1>3 DEF Adds

(* What the fold does: the sum of nothing, and one step of a sum.          *)
LEMMA SumsAdd ==
  ASSUME NEW S, IsFiniteSet(S), NEW f
  PROVE  \E h : /\ Adds(f, S, h)
                /\ \A T \in SUBSET S : SumFunctionOnSet(f, T) = h[T]
<1>1. PICK h : Adds(f, S, h)
  BY AddsExists
<1>2. ASSUME NEW T \in SUBSET S
      PROVE  SumFunctionOnSet(f, T) = h[T]
  <2> DEFINE g == CHOOSE k : Adds(f, T, k)
             r == [U \in SUBSET T |-> h[U]]
  <2>1. IsFiniteSet(T)
    BY FS_Subset
  <2>2. Adds(f, T, g)
    BY <2>1, AddsExists
  <2>3. Adds(f, T, r)
    <3>1. ASSUME NEW U \in SUBSET T
          PROVE  r[U] = IF U = {} THEN 0 ELSE f[Chosen(U)] + r[U \ {Chosen(U)}]
      <4>1. r[U] = h[U] /\ r[U \ {Chosen(U)}] = h[U \ {Chosen(U)}]
        OBVIOUS
      <4>2. h[U] = IF U = {} THEN 0 ELSE f[Chosen(U)] + h[U \ {Chosen(U)}]
        BY <1>1 DEF Adds
      <4> HIDE DEF r
      <4> QED BY <4>1, <4>2
    <3> QED BY <3>1 DEF Adds
  <2>4. g = r
    <3> HIDE DEF g, r
    <3> QED BY <2>1, <2>2, <2>3, AddsUnique
  <2>5. SumFunctionOnSet(f, T) = g[T]
    BY FoldIsChoice
  <2>6. r[T] = h[T]
    OBVIOUS
  <2> HIDE DEF g, r
  <2> QED BY <2>4, <2>5, <2>6
<1> QED BY <1>1, <1>2

LEMMA SumOfNothing ==
  ASSUME NEW f
  PROVE  SumFunctionOnSet(f, {}) = 0
<1>1. PICK h : /\ Adds(f, {}, h)
               /\ \A T \in SUBSET {} : SumFunctionOnSet(f, T) = h[T]
  BY SumsAdd, FS_EmptySet
<1> QED BY <1>1 DEF Adds

LEMMA SumByChoice ==
  ASSUME NEW S, IsFiniteSet(S), NEW f, S # {}
  PROVE  /\ Chosen(S) \in S
         /\ SumFunctionOnSet(f, S)
              = f[Chosen(S)] + SumFunctionOnSet(f, S \ {Chosen(S)})
<1>1. PICK h : /\ Adds(f, S, h)
               /\ \A T \in SUBSET S : SumFunctionOnSet(f, T) = h[T]
  BY SumsAdd
<1>2. h[S] = f[Chosen(S)] + h[S \ {Chosen(S)}]
  BY <1>1 DEF Adds
<1> QED BY <1>1, <1>2 DEF Chosen

(* A sum of integers is an integer, and one of naturals a natural.         *)
LEMMA SumType ==
  ASSUME NEW S, IsFiniteSet(S), NEW f, \A x \in S : f[x] \in Int
  PROVE  SumFunctionOnSet(f, S) \in Int
<1> DEFINE P == { T \in SUBSET S : SumFunctionOnSet(f, T) \in Int }
<1>1. ASSUME NEW T \in SUBSET S, \A x \in T : T \ {x} \in P
      PROVE  T \in P
  <2>1. IsFiniteSet(T)
    BY FS_Subset
  <2>2. CASE T = {}
    BY <2>2, SumOfNothing
  <2>3. CASE T # {}
    <3>1. /\ Chosen(T) \in T
          /\ SumFunctionOnSet(f, T)
               = f[Chosen(T)] + SumFunctionOnSet(f, T \ {Chosen(T)})
      BY <2>1, <2>3, SumByChoice
    <3>2. T \ {Chosen(T)} \in P
      BY <1>1, <3>1
    <3> QED BY <3>1, <3>2
  <2> QED BY <2>2, <2>3
<1>2. P \in SUBSET SUBSET S
  OBVIOUS
<1>3. P = SUBSET S
  <2> HIDE DEF P
  <2> QED BY <1>1, <1>2, AllSubsets
<1> QED BY <1>3

LEMMA SumIsNat ==
  ASSUME NEW S, IsFiniteSet(S), NEW f, \A x \in S : f[x] \in Nat
  PROVE  SumFunctionOnSet(f, S) \in Nat
<1> DEFINE P == { T \in SUBSET S : SumFunctionOnSet(f, T) \in Nat }
<1>1. ASSUME NEW T \in SUBSET S, \A x \in T : T \ {x} \in P
      PROVE  T \in P
  <2>1. IsFiniteSet(T)
    BY FS_Subset
  <2>2. CASE T = {}
    BY <2>2, SumOfNothing
  <2>3. CASE T # {}
    <3>1. /\ Chosen(T) \in T
          /\ SumFunctionOnSet(f, T)
               = f[Chosen(T)] + SumFunctionOnSet(f, T \ {Chosen(T)})
      BY <2>1, <2>3, SumByChoice
    <3>2. T \ {Chosen(T)} \in P
      BY <1>1, <3>1
    <3> QED BY <3>1, <3>2
  <2> QED BY <2>2, <2>3
<1>2. P \in SUBSET SUBSET S
  OBVIOUS
<1>3. P = SUBSET S
  <2> HIDE DEF P
  <2> QED BY <1>1, <1>2, AllSubsets
<1> QED BY <1>3

(* Any member may be taken first.                                          *)
LEMMA SumTakes ==
  ASSUME NEW S, IsFiniteSet(S), NEW f, \A x \in S : f[x] \in Int,
         NEW y \in S
  PROVE  SumFunctionOnSet(f, S) = f[y] + SumFunctionOnSet(f, S \ {y})
<1> DEFINE sum(T) == SumFunctionOnSet(f, T)
           P == { T \in SUBSET S : \A x \in T : sum(T) = f[x] + sum(T \ {x}) }
<1>0. \A T \in SUBSET S : IsFiniteSet(T) /\ sum(T) \in Int
  BY FS_Subset, SumType
<1>1. ASSUME NEW T \in SUBSET S, \A x \in T : T \ {x} \in P
      PROVE  T \in P
  <2>1. SUFFICES ASSUME NEW x \in T
                 PROVE  sum(T) = f[x] + sum(T \ {x})
    OBVIOUS
  <2> DEFINE c == Chosen(T)
  <2>2. c \in T /\ sum(T) = f[c] + sum(T \ {c})
    BY <1>0, <2>1, SumByChoice
  <2>3. CASE x = c
    BY <2>2, <2>3
  <2>4. CASE x # c
    <3>1. T \ {c} \in P /\ T \ {x} \in P
      BY <1>1, <2>2, <2>1
    <3>2. sum(T \ {c}) = f[x] + sum((T \ {c}) \ {x})
      BY <3>1, <2>4
    <3>3. sum(T \ {x}) = f[c] + sum((T \ {x}) \ {c})
      BY <3>1, <2>4, <2>2
    <3>4. (T \ {c}) \ {x} = (T \ {x}) \ {c}
      OBVIOUS
    <3>5. sum((T \ {x}) \ {c}) \in Int /\ f[x] \in Int /\ f[c] \in Int
      BY <1>0, <2>1, <2>2
    <3>6. sum(T \ {c}) = f[x] + sum((T \ {x}) \ {c})
      BY <3>2, <3>4
    <3> HIDE DEF sum, c, P
    <3> QED BY <2>2, <3>3, <3>5, <3>6
  <2> QED BY <2>3, <2>4
<1>2. P \in SUBSET SUBSET S
  OBVIOUS
<1>3. P = SUBSET S
  <2> HIDE DEF P
  <2> QED BY <1>1, <1>2, AllSubsets
<1> QED BY <1>3

(* A sum only looks at the values on its set.                              *)
LEMMA SumAgrees ==
  ASSUME NEW S, IsFiniteSet(S), NEW f, NEW g, \A x \in S : f[x] = g[x]
  PROVE  SumFunctionOnSet(f, S) = SumFunctionOnSet(g, S)
<1> DEFINE P == { T \in SUBSET S : SumFunctionOnSet(f, T) = SumFunctionOnSet(g, T) }
<1>1. ASSUME NEW T \in SUBSET S, \A x \in T : T \ {x} \in P
      PROVE  T \in P
  <2>1. IsFiniteSet(T)
    BY FS_Subset
  <2>2. CASE T = {}
    BY <2>2, SumOfNothing
  <2>3. CASE T # {}
    <3>1. /\ Chosen(T) \in T
          /\ SumFunctionOnSet(f, T)
               = f[Chosen(T)] + SumFunctionOnSet(f, T \ {Chosen(T)})
      BY <2>1, <2>3, SumByChoice
    <3>2. T \ {Chosen(T)} \in P
      BY <1>1, <3>1
    <3>3. SumFunctionOnSet(g, T)
               = g[Chosen(T)] + SumFunctionOnSet(g, T \ {Chosen(T)})
      BY <2>1, <2>3, SumByChoice
    <3> QED BY <3>1, <3>2, <3>3
  <2> QED BY <2>2, <2>3
<1>2. P \in SUBSET SUBSET S
  OBVIOUS
<1>3. P = SUBSET S
  <2> HIDE DEF P
  <2> QED BY <1>1, <1>2, AllSubsets
<1> QED BY <1>3

(* A sum of which one term changes.                                        *)
LEMMA SumChanges ==
  ASSUME NEW S, IsFiniteSet(S), NEW y \in S, NEW f, NEW g,
         \A x \in S : f[x] \in Int /\ g[x] \in Int,
         \A x \in S \ {y} : f[x] = g[x]
  PROVE  SumFunctionOnSet(g, S) = SumFunctionOnSet(f, S) + (g[y] - f[y])
<1>1. IsFiniteSet(S \ {y})
  BY FS_RemoveElement
<1>2. SumFunctionOnSet(f, S \ {y}) = SumFunctionOnSet(g, S \ {y})
  BY <1>1, SumAgrees
<1>3. /\ SumFunctionOnSet(f, S) = f[y] + SumFunctionOnSet(f, S \ {y})
      /\ SumFunctionOnSet(g, S) = g[y] + SumFunctionOnSet(g, S \ {y})
  BY SumTakes
<1>4. SumFunctionOnSet(f, S \ {y}) \in Int
  BY <1>1, SumType
<1> QED BY <1>2, <1>3, <1>4

(* A sum over a set and one more member.                                   *)
LEMMA SumGrows ==
  ASSUME NEW S, IsFiniteSet(S), NEW y, y \notin S, NEW f,
         \A x \in S \union {y} : f[x] \in Int
  PROVE  SumFunctionOnSet(f, S \union {y}) = SumFunctionOnSet(f, S) + f[y]
<1>1. IsFiniteSet(S \union {y}) /\ (S \union {y}) \ {y} = S
  BY FS_AddElement
<1>2. SumFunctionOnSet(f, S \union {y}) = f[y] + SumFunctionOnSet(f, S)
  BY <1>1, SumTakes
<1>3. SumFunctionOnSet(f, S) \in Int
  BY SumType
<1> QED BY <1>2, <1>3

(* A part of a set of naturals sums up to no more than all of it.          *)
LEMMA SumMonotone ==
  ASSUME NEW S, IsFiniteSet(S), NEW T \in SUBSET S, NEW f,
         \A x \in S : f[x] \in Nat
  PROVE  SumFunctionOnSet(f, T) <= SumFunctionOnSet(f, S)
<1> DEFINE P == { U \in SUBSET (S \ T) :
                    SumFunctionOnSet(f, T) <= SumFunctionOnSet(f, T \union U) }
<1>0. IsFiniteSet(T) /\ SumFunctionOnSet(f, T) \in Nat
  BY FS_Subset, SumIsNat
<1>1. ASSUME NEW U \in SUBSET (S \ T), \A x \in U : U \ {x} \in P
      PROVE  U \in P
  <2>1. CASE U = {}
    BY <1>0, <2>1
  <2>2. CASE U # {}
    <3>1. PICK x \in U : TRUE
      BY <2>2
    <3> DEFINE rest == T \union (U \ {x})
    <3>2. rest \in SUBSET S /\ x \notin rest /\ rest \union {x} = T \union U
      BY <3>1
    <3>3. IsFiniteSet(rest) /\ f[x] \in Nat /\ \A y \in rest \union {x} : f[y] \in Nat
      BY <3>1, <3>2, FS_Subset
    <3>4. SumFunctionOnSet(f, rest \union {x}) = SumFunctionOnSet(f, rest) + f[x]
      BY <3>2, <3>3, SumGrows
    <3>5. SumFunctionOnSet(f, T) <= SumFunctionOnSet(f, rest)
      BY <1>1, <3>1
    <3>6. SumFunctionOnSet(f, rest) \in Nat
      BY <3>3, SumIsNat
    <3>7. SumFunctionOnSet(f, T) <= SumFunctionOnSet(f, rest \union {x})
      BY <1>0, <3>3, <3>4, <3>5, <3>6
    <3> HIDE DEF rest
    <3>8. SumFunctionOnSet(f, T) <= SumFunctionOnSet(f, T \union U)
      BY <3>2, <3>7
    <3> QED BY <3>8
  <2> QED BY <2>1, <2>2
<1>2. P \in SUBSET SUBSET (S \ T) /\ IsFiniteSet(S \ T)
  BY FS_Subset
<1>3. P = SUBSET (S \ T)
  <2> HIDE DEF P
  <2> QED BY <1>1, <1>2, AllSubsets
<1>4. T \union (S \ T) = S /\ (S \ T) \in P
  BY <1>3
<1> QED BY <1>4

(* The least and the greatest of two numbers.                              *)
LEMMA OfTwo ==
  ASSUME NEW a \in Int, NEW b \in Int
  PROVE  /\ (CHOOSE x \in {a, b} : \A y \in {a, b} : x <= y)
              = IF a <= b THEN a ELSE b
         /\ (CHOOSE x \in {a, b} : \A y \in {a, b} : x >= y)
              = IF a <= b THEN b ELSE a
<1>1. ASSUME NEW x \in {a, b}
      PROVE  /\ (\A y \in {a, b} : x <= y) <=> x = IF a <= b THEN a ELSE b
             /\ (\A y \in {a, b} : x >= y) <=> x = IF a <= b THEN b ELSE a
  OBVIOUS
<1> QED BY <1>1

(* A finite set of integers has a least and a greatest member.             *)
LEMMA FiniteExtremes ==
  ASSUME NEW S \in SUBSET Int, IsFiniteSet(S), S # {}
  PROVE  /\ \E m \in S : \A k \in S : m <= k
         /\ \E g \in S : \A k \in S : g >= k
<1> DEFINE P == { T \in SUBSET S :
                    T # {} => /\ \E m \in T : \A k \in T : m <= k
                              /\ \E g \in T : \A k \in T : g >= k }
<1>1. ASSUME NEW T \in SUBSET S, \A x \in T : T \ {x} \in P
      PROVE  T \in P
  <2> SUFFICES ASSUME T # {}
               PROVE  /\ \E m \in T : \A k \in T : m <= k
                      /\ \E g \in T : \A k \in T : g >= k
    OBVIOUS
  <2>1. PICK x \in T : TRUE
    OBVIOUS
  <2>2. CASE T \ {x} = {}
    <3>1. T = {x} /\ x \in Int
      BY <2>2
    <3> QED BY <3>1
  <2>3. CASE T \ {x} # {}
    <3> DEFINE U == T \ {x}
    <3>1. U \in P /\ U # {}
      BY <1>1, <2>3
    <3>2. PICK m \in U : \A k \in U : m <= k
      BY <3>1
    <3>3. PICK g \in U : \A k \in U : g >= k
      BY <3>1
    <3>4. x \in Int /\ m \in Int /\ g \in Int /\ T = U \union {x} /\ T \subseteq Int
      BY <2>1
    <3> HIDE DEF U, P
    <3>5. \E n \in T : \A k \in T : n <= k
      <4>1. CASE m <= x
        BY <3>2, <3>4, <4>1
      <4>2. CASE ~(m <= x)
        <5>1. \A k \in T : x <= k
          BY <3>2, <3>4, <4>2
        <5> QED BY <2>1, <5>1
      <4> QED BY <4>1, <4>2
    <3>6. \E n \in T : \A k \in T : n >= k
      <4>1. CASE g >= x
        BY <3>3, <3>4, <4>1
      <4>2. CASE ~(g >= x)
        <5>1. \A k \in T : x >= k
          BY <3>3, <3>4, <4>2
        <5> QED BY <2>1, <5>1
      <4> QED BY <4>1, <4>2
    <3> QED BY <3>5, <3>6
  <2> QED BY <2>2, <2>3
<1>2. P \in SUBSET SUBSET S
  OBVIOUS
<1>3. P = SUBSET S
  <2> HIDE DEF P
  <2> QED BY <1>1, <1>2, AllSubsets
<1> QED BY <1>3
=============================================================================
