------------------------------- MODULE SumLemmas -------------------------------
(***************************************************************************)
(* Facts about sums over finite sets (SumFunctionOnSet of Functions), and  *)
(* about least and greatest numbers, that the proofs of the project use.   *)
(*                                                                         *)
(* Every induction here is an argument about a least counterexample: a     *)
(* set of numbers that is not empty has a least element.                   *)
(***************************************************************************)
EXTENDS FiniteSetTheorems, TLAPS

(* A set of natural numbers has a least one.                               *)
LEMMA Least ==
    ASSUME NEW S \in SUBSET Nat, S # {}
    PROVE  \E m \in S : \A k \in S : m <= k
  <1> DEFINE R == {ss \in Nat \X Nat : ss[1] < ss[2]}
  <1>1. IsWellFoundedOn(R, Nat)
    BY NatLessThanWellFounded DEF OpToRel
  <1>2. \E m \in S : \A k \in S : ~(<<k, m>> \in R)
    BY <1>1, WFMin
  <1>3. \A k, m \in Nat : <<k, m>> \in R <=> k < m
    OBVIOUS
  <1>4. \A k, m \in S : ~(<<k, m>> \in R) => m <= k
    BY <1>3
  <1>5. QED  BY <1>2, <1>4

(* A set of natural numbers with a bound has a greatest one.               *)
LEMMA Greatest ==
    ASSUME NEW S \in SUBSET Nat, S # {}, NEW n \in Nat, \A k \in S : k <= n
    PROVE  \E m \in S : \A k \in S : k <= m
  <1> DEFINE B == {b \in Nat : \A k \in S : k <= b}
  <1>1. B \in SUBSET Nat /\ B # {}
    OBVIOUS
  <1>2. PICK b \in B : \A c \in B : b <= c
    BY <1>1, Least
  <1>3. b \in S
    <2>1. SUFFICES ASSUME b \notin S PROVE FALSE
      OBVIOUS
    <2>2. \A k \in S : k <= b - 1
      BY <2>1
    <2>3. b - 1 \in Nat
      <3>1. PICK k \in S : TRUE
        OBVIOUS
      <3>2. k \in Nat /\ b \in Nat /\ k <= b - 1
        BY <2>2, <3>1
      <3>3. QED  BY <3>2
    <2>4. b - 1 \in B
      BY <2>2, <2>3
    <2>5. QED  BY <2>4, <1>2
  <1>4. QED  BY <1>3

(* Induction over an interval.                                             *)
LEMMA Upwards ==
    ASSUME NEW a \in Nat, NEW b \in Nat, NEW G, a \in G,
           \A n \in a .. b - 1 : n \in G => n + 1 \in G
    PROVE  \A n \in a .. b : n \in G
  <1> DEFINE Bad == {n \in a .. b : n \notin G}
  <1>1. SUFFICES ASSUME Bad # {} PROVE FALSE
    OBVIOUS
  <1>2. PICK n \in Bad : \A m \in Bad : n <= m
    <2>1. Bad \in SUBSET Nat
      OBVIOUS
    <2> HIDE DEF Bad
    <2>2. QED  BY <1>1, <2>1, Least
  <1>3. n # a /\ n - 1 \in a .. b - 1
    BY <1>2
  <1>4. n - 1 \in G
    BY <1>2, <1>3
  <1>5. QED  BY <1>2, <1>3, <1>4

(* Induction over the subsets of a finite set: a family that has the empty *)
(* set, and with a set every larger one by one element, has all.           *)
LEMMA SubsetInduction ==
    ASSUME NEW S, IsFiniteSet(S), NEW F, {} \in F,
           \A T \in SUBSET S, x \in S : T \in F /\ x \notin T => T \cup {x} \in F
    PROVE  \A T \in SUBSET S : T \in F
  <1> DEFINE Bad == {n \in Nat : \E T \in SUBSET S : Cardinality(T) = n /\ T \notin F}
  <1>1. SUFFICES ASSUME NEW U \in SUBSET S, U \notin F PROVE FALSE
    OBVIOUS
  <1>2. Cardinality(U) \in Bad
    BY <1>1, FS_Subset, FS_CardinalityType
  <1>3. PICK n \in Bad : \A m \in Bad : n <= m
    BY <1>2, Least
  <1>4. PICK T \in SUBSET S : Cardinality(T) = n /\ T \notin F
    BY <1>3
  <1>5. PICK x : x \in T
    BY <1>4
  <1>6. IsFiniteSet(T \ {x}) /\ Cardinality(T \ {x}) = n - 1
    BY <1>4, <1>5, FS_Subset, FS_RemoveElement
  <1>7. n - 1 \in Nat
    BY <1>6, FS_CardinalityType
  <1>8. T \ {x} \in F
    BY <1>3, <1>6, <1>7
  <1>9. (T \ {x}) \cup {x} \in F
    BY <1>5, <1>8
  <1>10. (T \ {x}) \cup {x} = T
    BY <1>5
  <1>11. QED  BY <1>4, <1>9, <1>10

-----------------------------------------------------------------------------
(* The function by which a sum is defined: on every subset of S, the sum   *)
(* of f over it, taken in the order of the prover's CHOOSE.                *)

First(T) == CHOOSE x \in T : TRUE

Sums(g, f, S) ==
    g = [T \in SUBSET S |-> IF T = {} THEN 0 ELSE f[First(T)] + g[T \ {First(T)}]]

LEMMA FirstIn == \A T : T # {} => First(T) \in T
  BY DEF First

(* It exists.                                                              *)
LEMMA SumsExist ==
    ASSUME NEW S, IsFiniteSet(S), NEW f, \A x \in S : f[x] \in Int
    PROVE  \E g : Sums(g, f, S)
  <1> DEFINE Upto(g, n) == \A T \in SUBSET S : Cardinality(T) <= n =>
                 g[T] = IF T = {} THEN 0 ELSE f[First(T)] + g[T \ {First(T)}]
             Good == {n \in Nat : \E g \in [SUBSET S -> Int] : Upto(g, n)}
  <1>1. \A T \in SUBSET S : IsFiniteSet(T) /\ Cardinality(T) \in Nat
    BY FS_Subset, FS_CardinalityType
  <1>2. 0 \in Good
    <2> DEFINE g == [T \in SUBSET S |-> 0]
    <2>1. g \in [SUBSET S -> Int]
      OBVIOUS
    <2>2. Upto(g, 0)
      BY <1>1, FS_EmptySet
    <2>3. QED  BY <2>1, <2>2
  <1>3. ASSUME NEW n \in Good PROVE n + 1 \in Good
    <2>1. PICK g \in [SUBSET S -> Int] : Upto(g, n)
      OBVIOUS
    <2> DEFINE h == [T \in SUBSET S |-> IF Cardinality(T) <= n THEN g[T]
                                        ELSE f[First(T)] + g[T \ {First(T)}]]
    <2>2. ASSUME NEW T \in SUBSET S, T # {}
          PROVE  /\ First(T) \in S /\ First(T) \in T /\ f[First(T)] \in Int
                 /\ T \ {First(T)} \in SUBSET S /\ g[T \ {First(T)}] \in Int
                 /\ Cardinality(T \ {First(T)}) = Cardinality(T) - 1
      BY <2>2, FirstIn, <1>1, FS_RemoveElement
    <2>3. h \in [SUBSET S -> Int]
      <3>1. ASSUME NEW T \in SUBSET S, ~(Cardinality(T) <= n) PROVE T # {}
        <4>1. n \in Nat /\ Cardinality({}) = 0
          BY FS_EmptySet
        <4>2. T = {} => Cardinality(T) = 0
          BY <4>1
        <4>3. QED  BY <3>1, <4>1, <4>2
      <3>2. QED  BY <2>2, <3>1
    <2>4. ASSUME NEW T \in SUBSET S, Cardinality(T) <= n + 1
          PROVE  h[T] = IF T = {} THEN 0 ELSE f[First(T)] + h[T \ {First(T)}]
      <3>1. CASE T = {}
        BY <3>1, <2>1, FS_EmptySet
      <3>2. CASE T # {}
        <4>1. Cardinality(T \ {First(T)}) <= n
          BY <3>2, <2>2, <2>4, <1>1
        <4>2. h[T \ {First(T)}] = g[T \ {First(T)}]
          BY <3>2, <2>2, <4>1
        <4>3. h[T] = f[First(T)] + g[T \ {First(T)}]
          BY <3>2, <2>1
        <4>4. QED  BY <3>2, <4>2, <4>3
      <3>3. QED  BY <3>1, <3>2
    <2>5. Upto(h, n + 1)
      BY <2>4
    <2> HIDE DEF h, Upto
    <2>6. n + 1 \in Nat
      OBVIOUS
    <2>7. QED  BY <2>3, <2>5, <2>6
  <1>4. Cardinality(S) \in Good
    <2> DEFINE Bad == Nat \ Good
    <2> HIDE DEF Good
    <2>1. SUFFICES ASSUME Cardinality(S) \notin Good PROVE FALSE
      OBVIOUS
    <2>2. Bad \in SUBSET Nat /\ Bad # {}
      BY <2>1, <1>1
    <2>3. PICK n \in Bad : \A m \in Bad : n <= m
      BY <2>2, Least
    <2>4. n # 0
      BY <1>2
    <2>5. n - 1 \in Nat /\ n \in Nat /\ n - 1 < n
      BY <2>3, <2>4
    <2>6. n - 1 \in Good
      <3>1. ASSUME n - 1 \in Bad PROVE FALSE
        BY <2>3, <2>5, <3>1
      <3>2. QED  BY <2>5, <3>1
    <2>7. n - 1 + 1 \in Good
      BY <2>6, <1>3
    <2>8. n - 1 + 1 = n
      BY <2>5
    <2>9. QED  BY <2>7, <2>8, <2>3
  <1>5. PICK g \in [SUBSET S -> Int] : Upto(g, Cardinality(S))
    BY <1>4
  <1>6. \A T \in SUBSET S : Cardinality(T) <= Cardinality(S)
    BY FS_Subset
  <1>7. Sums(g, f, S)
    BY <1>5, <1>6 DEF Sums
  <1>8. QED  BY <1>7

(* What the library's sum is.                                              *)
LEMMA SumIsSums ==
    ASSUME NEW S, IsFiniteSet(S), NEW f, \A x \in S : f[x] \in Int
    PROVE  \E g : Sums(g, f, S) /\ SumFunctionOnSet(f, S) = g[S]
  <1> DEFINE g == CHOOSE g : Sums(g, f, S)
  <1>1. Sums(g, f, S)
    BY SumsExist
  <1>2. SumFunctionOnSet(f, S) = g[S]
    BY DEF SumFunctionOnSet, FoldFunctionOnSet, MapThenFoldSet, Sums, First
  <1>3. QED  BY <1>1, <1>2

(* It does not depend on what it says of other elements, nor on S.         *)
LEMMA SumsAgree ==
    ASSUME NEW S, NEW g, NEW f, Sums(g, f, S),
           NEW R, NEW h, NEW e, Sums(h, e, R),
           NEW U, IsFiniteSet(U), U \subseteq S, U \subseteq R, \A x \in U : f[x] = e[x]
    PROVE  \A T \in SUBSET U : g[T] = h[T]
  <1> DEFINE Bad == {n \in Nat : \E T \in SUBSET U : Cardinality(T) = n /\ g[T] # h[T]}
  <1>1. SUFFICES ASSUME NEW V \in SUBSET U, g[V] # h[V] PROVE FALSE
    OBVIOUS
  <1>2. Cardinality(V) \in Bad
    BY <1>1, FS_Subset, FS_CardinalityType
  <1>3. PICK n \in Bad : \A m \in Bad : n <= m
    BY <1>2, Least
  <1>4. PICK T \in SUBSET U : Cardinality(T) = n /\ g[T] # h[T]
    BY <1>3
  <1>5. T \in SUBSET S /\ T \in SUBSET R
    BY <1>4
  <1>6. T # {}
    BY <1>4, <1>5 DEF Sums
  <1>7. First(T) \in T /\ First(T) \in U
    BY <1>6, FirstIn
  <1>8. IsFiniteSet(T \ {First(T)}) /\ Cardinality(T \ {First(T)}) = n - 1
    BY <1>4, <1>7, FS_Subset, FS_RemoveElement
  <1>9. n - 1 \in Nat /\ n \in Nat
    BY <1>8, FS_CardinalityType
  <1>10. g[T \ {First(T)}] = h[T \ {First(T)}]
    <2>1. SUFFICES ASSUME g[T \ {First(T)}] # h[T \ {First(T)}] PROVE FALSE
      OBVIOUS
    <2>2. n - 1 \in Bad
      BY <2>1, <1>8, <1>9
    <2>3. QED  BY <2>2, <1>3, <1>9
  <1>11. g[T] = f[First(T)] + g[T \ {First(T)}]
    BY <1>5, <1>6 DEF Sums
  <1>12. h[T] = e[First(T)] + h[T \ {First(T)}]
    BY <1>5, <1>6 DEF Sums
  <1>13. QED  BY <1>4, <1>7, <1>10, <1>11, <1>12

(* Its values are integers.                                                *)
LEMMA SumsInt ==
    ASSUME NEW S, IsFiniteSet(S), NEW f, \A x \in S : f[x] \in Int, NEW g, Sums(g, f, S)
    PROVE  \A T \in SUBSET S : g[T] \in Int
  <1> DEFINE Bad == {n \in Nat : \E T \in SUBSET S : Cardinality(T) = n /\ g[T] \notin Int}
  <1>1. SUFFICES ASSUME NEW V \in SUBSET S, g[V] \notin Int PROVE FALSE
    OBVIOUS
  <1>2. Cardinality(V) \in Bad
    BY <1>1, FS_Subset, FS_CardinalityType
  <1>3. PICK n \in Bad : \A m \in Bad : n <= m
    BY <1>2, Least
  <1>4. PICK T \in SUBSET S : Cardinality(T) = n /\ g[T] \notin Int
    BY <1>3
  <1>5. T # {}
    BY <1>4 DEF Sums
  <1>6. First(T) \in T
    BY <1>5, FirstIn
  <1>7. IsFiniteSet(T \ {First(T)}) /\ Cardinality(T \ {First(T)}) = n - 1
    BY <1>4, <1>6, FS_Subset, FS_RemoveElement
  <1>8. n - 1 \in Nat /\ n \in Nat
    BY <1>7, FS_CardinalityType
  <1>9. g[T \ {First(T)}] \in Int
    <2>1. SUFFICES ASSUME g[T \ {First(T)}] \notin Int PROVE FALSE
      OBVIOUS
    <2>2. n - 1 \in Bad
      BY <2>1, <1>7, <1>8
    <2>3. QED  BY <2>2, <1>3, <1>8
  <1>10. g[T] = f[First(T)] + g[T \ {First(T)}]
    BY <1>5 DEF Sums
  <1>11. f[First(T)] \in Int
    BY <1>6
  <1>12. QED  BY <1>4, <1>9, <1>10, <1>11

(* The order does not matter: any element may be added last.               *)
LEMMA SumsAdd ==
    ASSUME NEW S, IsFiniteSet(S), NEW f, \A x \in S : f[x] \in Int, NEW g, Sums(g, f, S)
    PROVE  \A T \in SUBSET S : \A x \in T : g[T] = f[x] + g[T \ {x}]
  <1> DEFINE Bad == {n \in Nat : \E T \in SUBSET S :
                        Cardinality(T) = n /\ \E x \in T : g[T] # f[x] + g[T \ {x}]}
  <1>0. \A T \in SUBSET S : g[T] \in Int
    BY SumsInt
  <1>1. SUFFICES ASSUME NEW V \in SUBSET S, NEW x \in V, g[V] # f[x] + g[V \ {x}] PROVE FALSE
    OBVIOUS
  <1>2. Cardinality(V) \in Bad
    BY <1>1, FS_Subset, FS_CardinalityType
  <1>3. PICK n \in Bad : \A m \in Bad : n <= m
    BY <1>2, Least
  <1>4. PICK T \in SUBSET S : Cardinality(T) = n /\ \E y \in T : g[T] # f[y] + g[T \ {y}]
    BY <1>3
  <1>5. PICK y \in T : g[T] # f[y] + g[T \ {y}]
    BY <1>4
  <1> DEFINE c == First(T)
             U == T \ {c}
             W == T \ {y}
  <1>6. c \in T
    BY <1>4, FirstIn
  <1>7. g[T] = f[c] + g[U]
    BY <1>4 DEF Sums
  <1>8. c # y
    BY <1>5, <1>7
  <1>9. /\ IsFiniteSet(U) /\ Cardinality(U) = n - 1 /\ U \in SUBSET S /\ y \in U
        /\ IsFiniteSet(W) /\ Cardinality(W) = n - 1 /\ W \in SUBSET S /\ c \in W
        /\ W \ {c} = U \ {y}
    BY <1>4, <1>6, <1>8, FS_Subset, FS_RemoveElement
  <1> HIDE DEF U, W, c
  <1>10. n - 1 \in Nat /\ n \in Nat
    BY <1>9, FS_CardinalityType
  <1>11. n - 1 \notin Bad
    BY <1>3, <1>10
  <1>12. g[U] = f[y] + g[U \ {y}]
    BY <1>9, <1>10, <1>11
  <1>13. g[W] = f[c] + g[W \ {c}]
    BY <1>9, <1>10, <1>11
  <1>14. f[c] \in Int /\ f[y] \in Int /\ g[U \ {y}] \in Int
    BY <1>0, <1>4, <1>6, <1>9
  <1>15. g[T] = f[y] + g[W]
    <2>1. g[W] = f[c] + g[U \ {y}]
      BY <1>9, <1>13
    <2>2. g[T] = f[c] + (f[y] + g[U \ {y}])
      BY <1>7, <1>12
    <2>3. QED  BY <2>1, <2>2, <1>14
  <1>16. QED  BY <1>5, <1>15 DEF W

-----------------------------------------------------------------------------
(* Facts about sums.                                                       *)

LEMMA SumEmpty == ASSUME NEW f PROVE SumFunctionOnSet(f, {}) = 0
  <1>1. PICK g : Sums(g, f, {}) /\ SumFunctionOnSet(f, {}) = g[{}]
    BY SumIsSums, FS_EmptySet
  <1>2. QED  BY <1>1 DEF Sums

LEMMA SumInt ==
    ASSUME NEW S, IsFiniteSet(S), NEW f, \A x \in S : f[x] \in Int
    PROVE  SumFunctionOnSet(f, S) \in Int
  BY SumIsSums, SumsInt

(* One element more.                                                       *)
LEMMA SumRemove ==
    ASSUME NEW S, IsFiniteSet(S), NEW f, \A x \in S : f[x] \in Int, NEW x \in S
    PROVE  SumFunctionOnSet(f, S) = f[x] + SumFunctionOnSet(f, S \ {x})
  <1>1. PICK g : Sums(g, f, S) /\ SumFunctionOnSet(f, S) = g[S]
    BY SumIsSums
  <1>2. IsFiniteSet(S \ {x})
    BY FS_RemoveElement
  <1>3. PICK h : Sums(h, f, S \ {x}) /\ SumFunctionOnSet(f, S \ {x}) = h[S \ {x}]
    BY <1>2, SumIsSums
  <1>4. \A T \in SUBSET (S \ {x}) : g[T] = h[T]
    BY <1>1, <1>2, <1>3, SumsAgree
  <1>5. g[S] = f[x] + g[S \ {x}]
    BY <1>1, SumsAdd
  <1>6. QED  BY <1>1, <1>3, <1>4, <1>5

LEMMA SumAdd ==
    ASSUME NEW S, IsFiniteSet(S), NEW f, NEW x, x \notin S, \A y \in S \cup {x} : f[y] \in Int
    PROVE  SumFunctionOnSet(f, S \cup {x}) = f[x] + SumFunctionOnSet(f, S)
  <1>1. IsFiniteSet(S \cup {x}) /\ (S \cup {x}) \ {x} = S
    BY FS_AddElement
  <1>2. QED  BY <1>1, SumRemove

(* Only the values on the set count.                                       *)
LEMMA SumSame ==
    ASSUME NEW S, IsFiniteSet(S), NEW f, NEW e, \A x \in S : f[x] \in Int /\ f[x] = e[x]
    PROVE  SumFunctionOnSet(f, S) = SumFunctionOnSet(e, S)
  <1>1. PICK g : Sums(g, f, S) /\ SumFunctionOnSet(f, S) = g[S]
    BY SumIsSums
  <1>2. PICK h : Sums(h, e, S) /\ SumFunctionOnSet(e, S) = h[S]
    BY SumIsSums
  <1>3. QED  BY <1>1, <1>2, SumsAgree

(* Nothing but zeros.                                                      *)
LEMMA SumZero ==
    ASSUME NEW S, IsFiniteSet(S), NEW f, \A x \in S : f[x] = 0
    PROVE  SumFunctionOnSet(f, S) = 0
  <1> DEFINE F == {T \in SUBSET S : SumFunctionOnSet(f, T) = 0}
  <1>1. {} \in F
    BY SumEmpty
  <1>2. ASSUME NEW T \in SUBSET S, NEW x \in S, T \in F, x \notin T PROVE T \cup {x} \in F
    <2>1. IsFiniteSet(T) /\ \A y \in T \cup {x} : f[y] \in Int
      BY FS_Subset
    <2>2. SumFunctionOnSet(f, T \cup {x}) = f[x] + SumFunctionOnSet(f, T)
      BY <1>2, <2>1, SumAdd
    <2>3. QED  BY <1>2, <2>2
  <1> HIDE DEF F
  <1>3. S \in F
    BY <1>1, <1>2, SubsetInduction
  <1>4. QED  BY <1>3 DEF F

(* A sum of a change.                                                      *)
LEMMA SumChange ==
    ASSUME NEW S, IsFiniteSet(S), NEW f, NEW e, NEW x \in S,
           \A y \in S : f[y] \in Int, \A y \in S : e[y] \in Int, \A y \in S \ {x} : f[y] = e[y]
    PROVE  SumFunctionOnSet(e, S) = SumFunctionOnSet(f, S) + e[x] - f[x]
  <1> DEFINE T == S \ {x}
  <1>1. IsFiniteSet(T)
    BY FS_RemoveElement
  <1>2. SumFunctionOnSet(f, T) = SumFunctionOnSet(e, T) /\ SumFunctionOnSet(f, T) \in Int
    BY <1>1, SumSame, SumInt
  <1>3. SumFunctionOnSet(f, S) = f[x] + SumFunctionOnSet(f, T)
    BY SumRemove
  <1>4. SumFunctionOnSet(e, S) = e[x] + SumFunctionOnSet(e, T)
    BY SumRemove
  <1>5. QED  BY <1>2, <1>3, <1>4

(* A sum of larger values is larger.                                       *)
LEMMA SumMonotone ==
    ASSUME NEW S, IsFiniteSet(S), NEW f, NEW e,
           \A x \in S : f[x] \in Int /\ e[x] \in Int /\ f[x] <= e[x]
    PROVE  SumFunctionOnSet(f, S) <= SumFunctionOnSet(e, S)
  <1> DEFINE F == {T \in SUBSET S : SumFunctionOnSet(f, T) <= SumFunctionOnSet(e, T)}
  <1>1. {} \in F
    BY SumEmpty
  <1>2. ASSUME NEW T \in SUBSET S, NEW x \in S, T \in F, x \notin T PROVE T \cup {x} \in F
    <2>1. IsFiniteSet(T)
      BY FS_Subset
    <2>2. /\ SumFunctionOnSet(f, T \cup {x}) = f[x] + SumFunctionOnSet(f, T)
          /\ SumFunctionOnSet(e, T \cup {x}) = e[x] + SumFunctionOnSet(e, T)
      BY <1>2, <2>1, SumAdd
    <2>3. SumFunctionOnSet(f, T) \in Int /\ SumFunctionOnSet(e, T) \in Int
      BY <2>1, SumInt
    <2>4. SumFunctionOnSet(f, T) <= SumFunctionOnSet(e, T)
      BY <1>2
    <2>5. f[x] \in Int /\ e[x] \in Int /\ f[x] <= e[x]
      OBVIOUS
    <2>6. SumFunctionOnSet(f, T \cup {x}) <= SumFunctionOnSet(e, T \cup {x})
      BY <2>2, <2>3, <2>4, <2>5
    <2>7. QED  BY <2>6
  <1> HIDE DEF F
  <1>3. S \in F
    BY <1>1, <1>2, SubsetInduction
  <1>4. QED  BY <1>3 DEF F

(* A sum of natural numbers is one, and at least each of them.             *)
LEMMA SumNat ==
    ASSUME NEW S, IsFiniteSet(S), NEW f, \A x \in S : f[x] \in Nat
    PROVE  /\ SumFunctionOnSet(f, S) \in Nat
           /\ \A x \in S : f[x] <= SumFunctionOnSet(f, S)
  <1> DEFINE F == {T \in SUBSET S : SumFunctionOnSet(f, T) \in Nat}
  <1>1. {} \in F
    BY SumEmpty
  <1>2. ASSUME NEW T \in SUBSET S, NEW x \in S, T \in F, x \notin T PROVE T \cup {x} \in F
    <2>1. IsFiniteSet(T)
      BY FS_Subset
    <2>2. SumFunctionOnSet(f, T \cup {x}) = f[x] + SumFunctionOnSet(f, T)
      <3>1. \A y \in T \cup {x} : f[y] \in Int
        OBVIOUS
      <3>2. QED  BY <1>2, <2>1, <3>1, SumAdd
    <2>3. f[x] \in Nat /\ SumFunctionOnSet(f, T) \in Nat
      BY <1>2
    <2>4. SumFunctionOnSet(f, T \cup {x}) \in Nat
      BY <2>2, <2>3
    <2>5. QED  BY <2>4
  <1> HIDE DEF F
  <1>3. \A T \in SUBSET S : T \in F
    BY <1>1, <1>2, SubsetInduction
  <1>4. \A T \in SUBSET S : SumFunctionOnSet(f, T) \in Nat
    BY <1>3 DEF F
  <1>5. ASSUME NEW x \in S PROVE f[x] <= SumFunctionOnSet(f, S)
    <2>1. SumFunctionOnSet(f, S) = f[x] + SumFunctionOnSet(f, S \ {x})
      BY SumRemove
    <2>2. SumFunctionOnSet(f, S \ {x}) \in Nat /\ f[x] \in Nat
      BY <1>4
    <2>3. QED  BY <2>1, <2>2
  <1>6. QED  BY <1>4, <1>5

(* Some of the terms larger by the same number.                            *)
LEMMA SumRaise ==
    ASSUME NEW S, IsFiniteSet(S), NEW f, \A x \in S : f[x] \in Int, NEW d \in Int
    PROVE  \A T \in SUBSET S :
              SumFunctionOnSet([x \in S |-> IF x \in T THEN f[x] + d ELSE f[x]], S)
                 = SumFunctionOnSet(f, S) + Cardinality(T) * d
  <1> DEFINE g(T) == [x \in S |-> IF x \in T THEN f[x] + d ELSE f[x]]
             F == {T \in SUBSET S :
                      SumFunctionOnSet(g(T), S) = SumFunctionOnSet(f, S) + Cardinality(T) * d}
  <1>1. SumFunctionOnSet(f, S) \in Int
    BY SumInt
  <1>2. \A T \in SUBSET S : \A x \in S : g(T)[x] \in Int /\ g(T)[x] = IF x \in T THEN f[x] + d ELSE f[x]
    OBVIOUS
  <1> HIDE DEF g
  <1>3. {} \in F
    <2>1. \A x \in S : f[x] \in Int /\ f[x] = g({})[x]
      BY <1>2
    <2>2. SumFunctionOnSet(f, S) = SumFunctionOnSet(g({}), S)
      BY <2>1, SumSame
    <2>3. Cardinality({}) = 0
      BY FS_EmptySet
    <2>4. QED  BY <1>1, <2>2, <2>3
  <1>4. ASSUME NEW T \in SUBSET S, NEW x \in S, T \in F, x \notin T PROVE T \cup {x} \in F
    <2> DEFINE U == T \cup {x}
               a == SumFunctionOnSet(g(T), S)
               b == SumFunctionOnSet(f, S)
               c == Cardinality(T)
    <2>1. U \in SUBSET S /\ IsFiniteSet(T) /\ c \in Nat
      BY FS_Subset, FS_CardinalityType
    <2>2. Cardinality(U) = c + 1
      BY <1>4, <2>1, FS_AddElement
    <2>3. \A y \in S : g(T)[y] \in Int
      BY <1>2
    <2>4. \A y \in S : g(U)[y] \in Int
      BY <1>2, <2>1
    <2>5. \A y \in S \ {x} : g(T)[y] = g(U)[y]
      BY <1>2, <2>1
    <2>6. g(U)[x] = f[x] + d /\ g(T)[x] = f[x] /\ f[x] \in Int
      BY <1>2, <1>4, <2>1
    <2> HIDE DEF U
    <2>7. SumFunctionOnSet(g(U), S) = a + g(U)[x] - g(T)[x]
      BY <2>3, <2>4, <2>5, SumChange
    <2>8. a = b + c * d /\ b \in Int /\ a \in Int
      <3>1. a \in Int
        BY <2>3, SumInt
      <3>2. QED  BY <1>1, <1>4, <3>1
    <2> HIDE DEF a, b, c
    <2>9. SumFunctionOnSet(g(U), S) = a + d
      BY <2>6, <2>7, <2>8
    <2>10. a + d = b + (c + 1) * d
      BY <2>1, <2>8
    <2>11. SumFunctionOnSet(g(U), S) = b + Cardinality(U) * d
      BY <2>2, <2>9, <2>10
    <2>12. QED  BY <2>1, <2>11 DEF U, b
  <1> HIDE DEF F
  <1>5. \A T \in SUBSET S : T \in F
    BY <1>3, <1>4, SubsetInduction
  <1>6. QED  BY <1>5 DEF F, g

(* All of them larger by the same number.                                  *)
LEMMA SumShift ==
    ASSUME NEW S, IsFiniteSet(S), NEW f, NEW e, NEW d \in Int,
           \A x \in S : f[x] \in Int, \A x \in S : e[x] = f[x] + d
    PROVE  SumFunctionOnSet(e, S) = SumFunctionOnSet(f, S) + Cardinality(S) * d
  <1> DEFINE g == [x \in S |-> IF x \in S THEN f[x] + d ELSE f[x]]
  <1>1. SumFunctionOnSet(g, S) = SumFunctionOnSet(f, S) + Cardinality(S) * d
    BY SumRaise
  <1>2. \A x \in S : e[x] \in Int /\ e[x] = g[x]
    OBVIOUS
  <1> HIDE DEF g
  <1>3. SumFunctionOnSet(e, S) = SumFunctionOnSet(g, S)
    BY <1>2, SumSame
  <1>4. QED  BY <1>1, <1>3

-----------------------------------------------------------------------------
(* A larger number divided by the same one.                                *)
LEMMA DivMonotone ==
    ASSUME NEW a \in Nat, NEW b \in Nat, a <= b, NEW n \in Nat \ {0}
    PROVE  a \div n <= b \div n
  <1> DEFINE x == a \div n
             y == b \div n
  <1>1. x \in Nat /\ y \in Nat /\ n * x <= a /\ b < n * y + n
    OBVIOUS
  <1> HIDE DEF x, y
  <1>2. ASSUME x > y PROVE FALSE
    <2>1. PICK k \in Nat : x = y + 1 + k
      <3>1. x - y - 1 \in Nat /\ x = y + 1 + (x - y - 1)
        BY <1>1, <1>2
      <3>2. QED  BY <3>1
    <2>2. n * x = n * y + n + n * k /\ n * k >= 0
      BY <1>1, <2>1
    <2>3. QED  BY <1>1, <2>2
  <1>3. QED  BY <1>1, <1>2 DEF x, y
=============================================================================
