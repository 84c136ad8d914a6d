----------------------------- MODULE DataLemmas -----------------------------
(***************************************************************************)
(* Facts about numbers and finite sets that the other proofs need and the  *)
(* library only states with an operator for a parameter: here it is a set  *)
(* (of the numbers, or of the sets, that have a property) or a function.   *)
(***************************************************************************)
EXTENDS Integers, Functions, WellFoundedInduction, FunctionTheorems, FiniteSetTheorems, TLAPS

(* A set of natural numbers has a least element. *)
LEMMA LeastOfNat ==
  ASSUME NEW S \in SUBSET Nat, S # {}
  PROVE  \E n \in S : \A m \in S : n <= m
  <1>1. IsWellFoundedOn({p \in Nat \X Nat : p[1] < p[2]}, Nat)
    BY NatLessThanWellFounded DEF OpToRel
  <1>2. \E n \in S : \A m \in S : <<m, n>> \notin {p \in Nat \X Nat : p[1] < p[2]}
    BY <1>1, WFMin
  <1>3. PICK n \in S : \A m \in S : <<m, n>> \notin {p \in Nat \X Nat : p[1] < p[2]}
    BY <1>2
  <1>4. ASSUME NEW m \in S PROVE n <= m
    <2>1. <<m, n>> \in Nat \X Nat /\ <<m, n>>[1] = m /\ <<m, n>>[2] = n
      OBVIOUS
    <2>2. ~ (m < n)
      BY <1>3, <2>1
    <2> QED
      BY <2>2
  <1> QED
    BY <1>4

(* Induction: a set that holds 0 and every successor holds all numbers. *)
LEMMA InductionOnNat ==
  ASSUME NEW S, 0 \in S, \A n \in Nat : n \in S => n + 1 \in S
  PROVE  Nat \subseteq S
  <1> SUFFICES ASSUME Nat \ S # {} PROVE FALSE
    OBVIOUS
  <1>1. PICK n \in Nat \ S : \A m \in Nat \ S : n <= m
    BY LeastOfNat
  <1>2. n # 0 /\ n - 1 \in Nat
    BY <1>1
  <1>3. n - 1 \in S
    BY <1>1, <1>2
  <1> QED
    BY <1>1, <1>2, <1>3

(* A bounded set of natural numbers has a greatest element. *)
LEMMA GreatestOfNat ==
  ASSUME NEW bound \in Nat, NEW S \in SUBSET (0..bound), S # {}
  PROVE  \E n \in S : \A m \in S : n >= m
  <1>1. {bound - n : n \in S} \in SUBSET Nat /\ {bound - n : n \in S} # {}
    <2>1. \A n \in S : n \in Nat /\ bound - n \in Nat
      OBVIOUS
    <2> QED
      BY <2>1
  <1>2. PICK d \in {bound - n : n \in S} : \A e \in {bound - n : n \in S} : d <= e
    BY <1>1, LeastOfNat
  <1>3. PICK n \in S : d = bound - n
    BY <1>2
  <1>4. ASSUME NEW m \in S PROVE n >= m
    BY <1>2, <1>3
  <1> QED
    BY <1>4

(* A finite set has no more images than elements. *)
LEMMA ImageOfFinite ==
  ASSUME NEW S, IsFiniteSet(S), NEW f, DOMAIN f = S, f = [x \in S |-> f[x]]
  PROVE  IsFiniteSet({f[x] : x \in S}) /\ Cardinality({f[x] : x \in S}) <= Cardinality(S)
  <1> DEFINE T == {f[x] : x \in S}
  <1>1. f \in Surjection(S, T)
    BY DEF Surjection, Range
  <1> HIDE DEF T
  <1>2. IsFiniteSet(T) /\ Cardinality(T) <= Cardinality(S)
    BY <1>1, FS_Surjection
  <1> QED
    BY <1>2 DEF T

(* Triples from finite sets. *)
LEMMA FiniteTriples ==
  ASSUME NEW A, IsFiniteSet(A), NEW B, IsFiniteSet(B), NEW C, IsFiniteSet(C)
  PROVE  IsFiniteSet(A \X B \X C)
  <1> DEFINE S == (A \X B) \X C
             f == [p \in S |-> <<p[1][1], p[1][2], p[2]>>]
  <1>1. IsFiniteSet(S)
    BY FS_Product
  <1>2. IsFiniteSet({f[p] : p \in S})
    <2>1. DOMAIN f = S /\ f = [x \in S |-> f[x]]
      OBVIOUS
    <2> HIDE DEF f, S
    <2> QED
      BY <1>1, <2>1, ImageOfFinite
  <1>3. A \X B \X C \subseteq {f[p] : p \in S}
    <2> SUFFICES ASSUME NEW a \in A, NEW b \in B, NEW c \in C
                 PROVE  <<a, b, c>> \in {f[p] : p \in S}
      OBVIOUS
    <2>1. <<<<a, b>>, c>> \in S /\ f[<<<<a, b>>, c>>] = <<a, b, c>>
      OBVIOUS
    <2> QED
      BY <2>1
  <1> HIDE DEF f, S
  <1> QED
    BY <1>2, <1>3, FS_Subset

-----------------------------------------------------------------------------
(* Sums over finite sets. *)

(* The sum over a set is defined by taking its elements one after the other. *)
Taken(s) == CHOOSE x \in s : TRUE

IsSum(g, f, S) ==
  g = [s \in SUBSET S |-> IF s = {} THEN 0 ELSE f[Taken(s)] + g[s \ {Taken(s)}]]

(* The element taken, and what is left. *)
LEMMA TakenLeaves ==
  ASSUME NEW S, IsFiniteSet(S), NEW s \in SUBSET S, s # {}
  PROVE  /\ Taken(s) \in s /\ s \ {Taken(s)} \in SUBSET S
         /\ IsFiniteSet(s) /\ Cardinality(s) \in Nat /\ Cardinality(s) > 0
         /\ Cardinality(s \ {Taken(s)}) = Cardinality(s) - 1
  <1>1. Taken(s) \in s
    BY DEF Taken
  <1>2. IsFiniteSet(s) /\ Cardinality(s) \in Nat
    BY FS_Subset, FS_CardinalityType
  <1>3. Cardinality(s) # 0
    BY <1>2, FS_EmptySet
  <1>4. Cardinality(s \ {Taken(s)}) = Cardinality(s) - 1
    BY <1>1, <1>2, FS_RemoveElement
  <1> QED
    BY <1>1, <1>2, <1>3, <1>4

(* There is such a function for every finite set. *)
LEMMA SumExists ==
  ASSUME NEW f, NEW S, IsFiniteSet(S)
  PROVE  \E g : IsSum(g, f, S)
  <1> DEFINE Small(n) == {s \in SUBSET S : Cardinality(s) <= n}
             OnSmall(g, n) ==
               g = [s \in Small(n) |-> IF s = {} THEN 0 ELSE f[Taken(s)] + g[s \ {Taken(s)}]]
             Good == {n \in Nat : \E g : OnSmall(g, n)}
  <1>1. 0 \in Good
    <2> DEFINE g == [s \in Small(0) |-> 0]
    <2>1. ASSUME NEW s \in Small(0) PROVE s = {}
      BY FS_Subset, FS_EmptySet, FS_CardinalityType
    <2>2. OnSmall(g, 0)
      BY <2>1
    <2> QED
      BY <2>2
  <1>2. ASSUME NEW n \in Nat, n \in Good PROVE n + 1 \in Good
    <2>1. PICK g : OnSmall(g, n)
      BY <1>2
    <2> DEFINE h == [s \in Small(n + 1) |->
                       IF s = {} THEN 0 ELSE f[Taken(s)] + g[s \ {Taken(s)}]]
    <2>2. ASSUME NEW s \in Small(n) PROVE s \in Small(n + 1) /\ h[s] = g[s]
      <3>1. s \in Small(n + 1)
        BY FS_Subset, FS_CardinalityType
      <3>2. g[s] = IF s = {} THEN 0 ELSE f[Taken(s)] + g[s \ {Taken(s)}]
        BY <2>1
      <3> QED
        BY <3>1, <3>2
    <2>3. ASSUME NEW s \in Small(n + 1), s # {} PROVE s \ {Taken(s)} \in Small(n)
      BY <2>3, TakenLeaves
    <2>4. ASSUME NEW s \in Small(n + 1)
          PROVE  h[s] = IF s = {} THEN 0 ELSE f[Taken(s)] + h[s \ {Taken(s)}]
      BY <2>2, <2>3
    <2>5. OnSmall(h, n + 1)
      BY <2>4
    <2> HIDE DEF h, OnSmall
    <2> QED
      BY <2>5
  <1>3. Cardinality(S) \in Nat /\ Cardinality(S) \in Good
    <2> HIDE DEF Good
    <2> QED
      BY <1>1, <1>2, InductionOnNat, FS_CardinalityType
  <1>4. PICK g : OnSmall(g, Cardinality(S))
    BY <1>3
  <1>5. Small(Cardinality(S)) = SUBSET S
    BY FS_Subset
  <1> QED
    BY <1>4, <1>5 DEF IsSum

(* The library's definition. *)
LEMMA SumUnfold ==
  ASSUME NEW f, NEW S
  PROVE  SumFunctionOnSet(f, S) = (CHOOSE g : IsSum(g, f, S))[S]
  BY DEF SumFunctionOnSet, FoldFunctionOnSet, MapThenFoldSet, IsSum, Taken

(* Taking the elements in the same order, they come to the same sum. *)
LEMMA SumOnSubset ==
  ASSUME NEW f, NEW S, IsFiniteSet(S), NEW g, IsSum(g, f, S), NEW T \in SUBSET S
  PROVE  g[T] = SumFunctionOnSet(f, T)
  <1>1. IsFiniteSet(T)
    BY FS_Subset
  <1>2. PICK h : IsSum(h, f, T) /\ SumFunctionOnSet(f, T) = h[T]
    BY <1>1, SumExists, SumUnfold
  <1> DEFINE Wrong == {Cardinality(s) : s \in {s \in SUBSET T : g[s] # h[s]}}
  <1>3. Wrong = {}
    <2> SUFFICES ASSUME Wrong # {} PROVE FALSE
      OBVIOUS
    <2>1. Wrong \in SUBSET Nat
      BY <1>1, FS_Subset, FS_CardinalityType
    <2>2. PICK n \in Wrong : \A m \in Wrong : n <= m
      BY <2>1, LeastOfNat
    <2>3. PICK s \in SUBSET T : g[s] # h[s] /\ n = Cardinality(s)
      BY <2>2
    <2>4. s # {}
      BY <2>3, <1>2 DEF IsSum
    <2>5. /\ g[s] = f[Taken(s)] + g[s \ {Taken(s)}]
          /\ h[s] = f[Taken(s)] + h[s \ {Taken(s)}]
      BY <2>3, <2>4, <1>2 DEF IsSum
    <2>6. /\ s \ {Taken(s)} \in SUBSET T /\ n \in Nat
          /\ Cardinality(s \ {Taken(s)}) = n - 1
      BY <2>3, <2>4, <1>1, TakenLeaves
    <2>7. g[s \ {Taken(s)}] # h[s \ {Taken(s)}]
      BY <2>3, <2>5
    <2>8. n - 1 \in Wrong
      BY <2>6, <2>7
    <2> QED
      BY <2>2, <2>6, <2>8
  <1> QED
    BY <1>2, <1>3

(* A sum, its first element apart. *)
LEMMA SumTaken ==
  ASSUME NEW f, NEW S, IsFiniteSet(S)
  PROVE  SumFunctionOnSet(f, S) =
           IF S = {} THEN 0 ELSE f[Taken(S)] + SumFunctionOnSet(f, S \ {Taken(S)})
  <1>1. PICK g : IsSum(g, f, S)
    BY SumExists
  <1>2. ASSUME NEW T \in SUBSET S PROVE g[T] = SumFunctionOnSet(f, T)
    BY <1>1, SumOnSubset
  <1>3. S \in SUBSET S /\ S \ {Taken(S)} \in SUBSET S
    OBVIOUS
  <1> QED
    BY <1>1, <1>2, <1>3 DEF IsSum

(* A property of finite sets that the empty one has, and each other one when *)
(* the smaller ones have it, holds of all subsets of a finite set. *)
LEMMA InductionOnSubsets ==
  ASSUME NEW S, IsFiniteSet(S), NEW Good,
         \A T \in SUBSET S :
           (\A U \in SUBSET S : Cardinality(U) < Cardinality(T) => U \in Good) => T \in Good
  PROVE  SUBSET S \subseteq Good
  <1> DEFINE Wrong == {Cardinality(s) : s \in {s \in SUBSET S : s \notin Good}}
  <1> SUFFICES ASSUME Wrong # {} PROVE FALSE
    OBVIOUS
  <1>1. Wrong \in SUBSET Nat
    BY FS_Subset, FS_CardinalityType
  <1>2. PICK n \in Wrong : \A m \in Wrong : n <= m
    BY <1>1, LeastOfNat
  <1>3. PICK T \in SUBSET S : T \notin Good /\ n = Cardinality(T)
    BY <1>2
  <1>4. PICK U \in SUBSET S : Cardinality(U) < Cardinality(T) /\ U \notin Good
    BY <1>3
  <1>5. Cardinality(U) \in Wrong
    BY <1>4
  <1>6. n <= Cardinality(U)
    BY <1>2, <1>5
  <1>7. n \in Nat /\ Cardinality(U) \in Nat
    BY <1>1, <1>2, <1>5
  <1> QED
    BY <1>3, <1>4, <1>6, <1>7

(* A sum of integers is an integer. *)
LEMMA SumIsInt ==
  ASSUME NEW f, NEW S, IsFiniteSet(S), \A x \in S : f[x] \in Int
  PROVE  SumFunctionOnSet(f, S) \in Int
  <1> DEFINE Good == {T \in SUBSET S : SumFunctionOnSet(f, T) \in Int}
  <1>1. ASSUME NEW T \in SUBSET S,
               \A U \in SUBSET S : Cardinality(U) < Cardinality(T) => U \in Good
        PROVE  T \in Good
    <2>1. IsFiniteSet(T)
      BY FS_Subset
    <2>2. CASE T = {}
      BY <2>1, <2>2, SumTaken
    <2>3. CASE T # {}
      <3>1. /\ T \ {Taken(T)} \in SUBSET S /\ Taken(T) \in S
            /\ Cardinality(T \ {Taken(T)}) < Cardinality(T)
        BY <2>3, TakenLeaves
      <3>2. SumFunctionOnSet(f, T \ {Taken(T)}) \in Int
        BY <1>1, <3>1
      <3> QED
        BY <2>1, <2>3, <3>1, <3>2, SumTaken
    <2> QED
      BY <2>2, <2>3
  <1> HIDE DEF Good
  <1>2. SUBSET S \subseteq Good
    BY <1>1, InductionOnSubsets
  <1> QED
    BY <1>2 DEF Good

(* Functions that agree on a set have the same sum over it. *)
LEMMA SumSame ==
  ASSUME NEW f, NEW g, NEW S, IsFiniteSet(S), \A x \in S : f[x] = g[x]
  PROVE  SumFunctionOnSet(f, S) = SumFunctionOnSet(g, S)
  <1> DEFINE Good == {T \in SUBSET S : SumFunctionOnSet(f, T) = SumFunctionOnSet(g, T)}
  <1>1. ASSUME NEW T \in SUBSET S,
               \A U \in SUBSET S : Cardinality(U) < Cardinality(T) => U \in Good
        PROVE  T \in Good
    <2>1. IsFiniteSet(T)
      BY FS_Subset
    <2>2. CASE T = {}
      BY <2>1, <2>2, SumTaken
    <2>3. CASE T # {}
      <3>1. /\ T \ {Taken(T)} \in SUBSET S /\ Taken(T) \in S
            /\ Cardinality(T \ {Taken(T)}) < Cardinality(T)
        BY <2>3, TakenLeaves
      <3>2. SumFunctionOnSet(f, T \ {Taken(T)}) = SumFunctionOnSet(g, T \ {Taken(T)})
        BY <1>1, <3>1
      <3> QED
        BY <2>1, <2>3, <3>1, <3>2, SumTaken
    <2> QED
      BY <2>2, <2>3
  <1> HIDE DEF Good
  <1>2. SUBSET S \subseteq Good
    BY <1>1, InductionOnSubsets
  <1> QED
    BY <1>2 DEF Good

(* Any element of a sum may be taken first. *)
LEMMA SumRemove ==
  ASSUME NEW f, NEW S, IsFiniteSet(S), \A x \in S : f[x] \in Int, NEW x \in S
  PROVE  SumFunctionOnSet(f, S) = f[x] + SumFunctionOnSet(f, S \ {x})
  <1> DEFINE Splits(T) ==
               \A y \in T : SumFunctionOnSet(f, T) = f[y] + SumFunctionOnSet(f, T \ {y})
             Good == {T \in SUBSET S : Splits(T)}
  <1>1. ASSUME NEW T \in SUBSET S,
               \A U \in SUBSET S : Cardinality(U) < Cardinality(T) => U \in Good,
               NEW y \in T
        PROVE  SumFunctionOnSet(f, T) = f[y] + SumFunctionOnSet(f, T \ {y})
    <2> DEFINE p == Taken(T)
               R == (T \ {p}) \ {y}
    <2>1. /\ IsFiniteSet(T) /\ T # {} /\ p \in T /\ Cardinality(T) \in Nat
          /\ T \ {p} \in SUBSET S /\ Cardinality(T \ {p}) < Cardinality(T)
      BY TakenLeaves
    <2>2. /\ T \ {y} \in SUBSET S /\ Cardinality(T \ {y}) < Cardinality(T)
      BY <2>1, FS_RemoveElement
    <2>3. SumFunctionOnSet(f, T) = f[p] + SumFunctionOnSet(f, T \ {p})
      BY <2>1, SumTaken
    <2>4. CASE p = y
      BY <2>3, <2>4
    <2>5. CASE p # y
      <3>1. y \in T \ {p} /\ p \in T \ {y} /\ (T \ {y}) \ {p} = R
        BY <2>1, <2>5
      <3>2. T \ {p} \in Good /\ T \ {y} \in Good
        BY <1>1, <2>1, <2>2
      <3>3. SumFunctionOnSet(f, T \ {p}) = f[y] + SumFunctionOnSet(f, R)
        BY <3>1, <3>2
      <3>4. SumFunctionOnSet(f, T \ {y}) = f[p] + SumFunctionOnSet(f, R)
        BY <3>1, <3>2
      <3>5. SumFunctionOnSet(f, R) \in Int /\ f[p] \in Int /\ f[y] \in Int
        <4>1. IsFiniteSet(R) /\ R \in SUBSET S
          BY FS_Subset
        <4> HIDE DEF R
        <4> QED
          BY <4>1, <2>1, SumIsInt
      <3> QED
        BY <2>3, <3>3, <3>4, <3>5
    <2> QED
      BY <2>4, <2>5
  <1>2. \A T \in SUBSET S :
           (\A U \in SUBSET S : Cardinality(U) < Cardinality(T) => U \in Good) => T \in Good
    BY <1>1
  <1> HIDE DEF Good
  <1>3. SUBSET S \subseteq Good
    BY <1>2, InductionOnSubsets
  <1> QED
    BY <1>3 DEF Good

(* Elements with nothing to add may be left out. *)
LEMMA SumOfSome ==
  ASSUME NEW f, NEW S, IsFiniteSet(S), \A x \in S : f[x] \in Int,
         NEW R \in SUBSET S, \A x \in S \ R : f[x] = 0
  PROVE  SumFunctionOnSet(f, S) = SumFunctionOnSet(f, R)
  <1> DEFINE Good == {T \in SUBSET S : SumFunctionOnSet(f, T) = SumFunctionOnSet(f, T \cap R)}
  <1>1. ASSUME NEW T \in SUBSET S,
               \A U \in SUBSET S : Cardinality(U) < Cardinality(T) => U \in Good
        PROVE  T \in Good
    <2>1. IsFiniteSet(T)
      BY FS_Subset
    <2>2. CASE T \subseteq R
      <3>1. T \cap R = T
        BY <2>2
      <3> QED
        BY <3>1
    <2>3. CASE ~(T \subseteq R)
      <3>1. PICK x \in T : x \notin R
        BY <2>3
      <3>2. /\ T \ {x} \in SUBSET S /\ Cardinality(T \ {x}) < Cardinality(T)
            /\ (T \ {x}) \cap R = T \cap R
        <4>1. Cardinality(T) \in Nat /\ Cardinality(T \ {x}) = Cardinality(T) - 1
          BY <2>1, FS_RemoveElement, FS_CardinalityType
        <4>2. (T \ {x}) \cap R = T \cap R
          BY <3>1
        <4> QED
          BY <4>1, <4>2
      <3>3. SumFunctionOnSet(f, T \ {x}) = SumFunctionOnSet(f, T \cap R)
        BY <1>1, <3>2
      <3>4. SumFunctionOnSet(f, T) = f[x] + SumFunctionOnSet(f, T \ {x})
        BY <2>1, SumRemove
      <3>5. SumFunctionOnSet(f, T \ {x}) \in Int /\ f[x] = 0
        <4>1. IsFiniteSet(T \ {x}) /\ \A y \in T \ {x} : f[y] \in Int
          BY <2>1, FS_RemoveElement
        <4> QED
          BY <3>1, <4>1, SumIsInt
      <3> QED
        BY <3>3, <3>4, <3>5
    <2> QED
      BY <2>2, <2>3
  <1> HIDE DEF Good
  <1>2. SUBSET S \subseteq Good
    BY <1>1, InductionOnSubsets
  <1>3. S \cap R = R
    OBVIOUS
  <1> QED
    BY <1>2, <1>3 DEF Good

(* The sum follows a change of one of its terms. *)
LEMMA SumChange ==
  ASSUME NEW S, IsFiniteSet(S), NEW f \in [S -> Int], NEW x \in S, NEW d \in Int
  PROVE  SumFunctionOnSet([f EXCEPT ![x] = @ + d], S) = SumFunctionOnSet(f, S) + d
  <1> DEFINE g == [f EXCEPT ![x] = @ + d]
  <1>1. g \in [S -> Int] /\ g[x] = f[x] + d /\ \A y \in S \ {x} : g[y] = f[y]
    OBVIOUS
  <1>2. IsFiniteSet(S \ {x})
    BY FS_RemoveElement
  <1> HIDE DEF g
  <1>3. SumFunctionOnSet(g, S) = g[x] + SumFunctionOnSet(g, S \ {x})
    BY <1>1, SumRemove
  <1>4. SumFunctionOnSet(f, S) = f[x] + SumFunctionOnSet(f, S \ {x})
    BY SumRemove
  <1>5. SumFunctionOnSet(g, S \ {x}) = SumFunctionOnSet(f, S \ {x})
    BY <1>1, <1>2, SumSame
  <1>6. SumFunctionOnSet(f, S \ {x}) \in Int
    BY <1>2, SumIsInt
  <1>7. SumFunctionOnSet(g, S) = SumFunctionOnSet(f, S) + d
    BY <1>1, <1>3, <1>4, <1>5, <1>6
  <1> QED
    BY <1>7 DEF g

-----------------------------------------------------------------------------
(* Sorting. *)

(* A finite set of numbers can be put in order. *)
LEMMA OrderExists ==
  ASSUME NEW S \in SUBSET Nat, IsFiniteSet(S)
  PROVE  \E f \in [1..Cardinality(S) -> S] :
           \A i, j \in 1..Cardinality(S) : i < j => f[i] < f[j]
  <1> DEFINE Sorts(f, T) == /\ f \in [1..Cardinality(T) -> T]
                            /\ \A i, j \in 1..Cardinality(T) : i < j => f[i] < f[j]
             Good == {T \in SUBSET S : \E f : Sorts(f, T)}
  <1>1. ASSUME NEW T \in SUBSET S,
               \A U \in SUBSET S : Cardinality(U) < Cardinality(T) => U \in Good
        PROVE  T \in Good
    <2>1. CASE T = {}
      <3>1. Cardinality(T) = 0
        BY <2>1, FS_EmptySet
      <3>2. Sorts([i \in 1..0 |-> 0], T)
        BY <3>1, <2>1
      <3> HIDE DEF Sorts
      <3> QED
        BY <3>2
    <2>2. CASE T # {}
      <3>1. T \in SUBSET Nat /\ IsFiniteSet(T)
        BY FS_Subset
      <3>2. PICK least \in T : \A m \in T : least <= m
        BY <2>2, <3>1, LeastOfNat
      <3> DEFINE U == T \ {least}
      <3>3. U \in SUBSET S /\ IsFiniteSet(U) /\ Cardinality(U) \in Nat
            /\ Cardinality(U) = Cardinality(T) - 1 /\ Cardinality(T) \in Nat
        BY <3>1, <3>2, FS_RemoveElement, FS_CardinalityType, FS_Subset
      <3>4. PICK g : Sorts(g, U)
        <4>1. U \in Good
          <5>1. Cardinality(U) < Cardinality(T)
            BY <3>3
          <5> HIDE DEF Good, U
          <5> QED
            BY <3>3, <5>1, <1>1
        <4> HIDE DEF Sorts, U
        <4> QED
          BY <4>1
      <3>5. PICK n \in Nat : n = Cardinality(U) /\ Cardinality(T) = n + 1
        BY <3>3
      <3>6. /\ g \in [1..n -> U]
            /\ \A i, j \in 1..n : i < j => g[i] < g[j]
        BY <3>4, <3>5
      <3> DEFINE f == [i \in 1..(n + 1) |-> IF i = 1 THEN least ELSE g[i - 1]]
      <3>7. \A i \in 1..(n + 1) : i # 1 => i - 1 \in 1..n
        OBVIOUS
      <3>8. f \in [1..(n + 1) -> T]
        BY <3>2, <3>6, <3>7
      <3>9. ASSUME NEW i \in 1..(n + 1), NEW j \in 1..(n + 1), i < j PROVE f[i] < f[j]
        <4>1. j # 1 /\ j - 1 \in 1..n /\ f[j] = g[j - 1] /\ g[j - 1] \in U
          BY <3>6, <3>7, <3>9
        <4>2. CASE i = 1
          <5>1. least <= g[j - 1] /\ least # g[j - 1] /\ least \in Nat /\ g[j - 1] \in Nat
            BY <4>1, <3>1, <3>2
          <5> QED
            BY <4>1, <4>2, <5>1
        <4>3. CASE i # 1
          <5>1. i - 1 \in 1..n /\ i - 1 < j - 1 /\ f[i] = g[i - 1]
            BY <4>3, <3>7, <3>9
          <5> QED
            BY <4>1, <5>1, <3>6
        <4> QED
          BY <4>2, <4>3
      <3> HIDE DEF f
      <3>10. Sorts(f, T)
        BY <3>5, <3>8, <3>9
      <3> HIDE DEF Sorts
      <3> QED
        BY <3>10
    <2> QED
      BY <2>1, <2>2
  <1>2. S \in Good
    <2> HIDE DEF Good
    <2> QED
      BY <1>1, InductionOnSubsets
  <1> QED
    BY <1>2
=============================================================================
