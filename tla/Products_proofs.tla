---------------------------- MODULE Products_proofs ----------------------------
(***************************************************************************)
(* Proofs about what is calculated for the products, and about the         *)
(* products and their terms, for any amounts, weights, people, versions    *)
(* and sessions; and the facts about sums over finite sets that these and  *)
(* other proofs rest on.                                                   *)
(***************************************************************************)
EXTENDS Calculations, ProductGovernance, FiniteSetTheorems, SequenceTheorems,
        WellFoundedInduction, TLAPS

-----------------------------------------------------------------------------
(* A set of numbers has a least one, and one that holds 0 and every next   *)
(* number holds all.                                                       *)
LEMMA LeastNumber ==
  ASSUME NEW T, T \subseteq Nat, T # {}
  PROVE  \E n \in T : \A m \in T : n <= m
<1> DEFINE R == OpToRel(<, Nat)
<1>1. IsWellFoundedOn(R, Nat)
  BY NatLessThanWellFounded
<1>2. \A x, y \in Nat : <<x, y>> \in R <=> x < y
  BY DEF OpToRel
<1> HIDE DEF R
<1>3. PICK n \in T : \A m \in T : ~ (<<m, n>> \in R)
  BY <1>1, WFMin
<1>4. ASSUME NEW m \in T PROVE n <= m
  <2>1. m \in Nat /\ n \in Nat
    OBVIOUS
  <2>2. ~(m < n)
    BY <1>2, <1>3, <2>1
  <2> QED
    BY <2>1, <2>2
<1> QED
  BY <1>4

(* So a set that holds 0 and the successor of each member holds every      *)
(* number.                                                                 *)
LEMMA EveryNumber ==
  ASSUME NEW T, 0 \in T, \A n \in Nat : n \in T => n + 1 \in T
  PROVE  Nat \subseteq T
<1> SUFFICES ASSUME Nat \ T # {} PROVE FALSE
  OBVIOUS
<1>1. PICK n \in Nat \ T : \A m \in Nat \ T : n <= m
  BY LeastNumber
<1>2. n # 0 /\ n - 1 \in Nat /\ n - 1 \in T
  BY <1>1
<1> QED
  BY <1>1, <1>2

(* A family of subsets of a finite set that holds a subset as soon as it   *)
(* holds what is left without any of its elements, holds the set.          *)
LEMMA EverySubset ==
  ASSUME NEW S, IsFiniteSet(S), NEW T,
         \A s \in SUBSET S : (\A x \in s : s \ {x} \in T) => s \in T
  PROVE  SUBSET S \subseteq T
<1> DEFINE N == {n \in Nat : \A s \in SUBSET S : Cardinality(s) = n => s \in T}
<1>1. \A s \in SUBSET S : IsFiniteSet(s) /\ Cardinality(s) \in Nat
  BY FS_Subset, FS_CardinalityType
<1>2. 0 \in N
  BY <1>1, FS_EmptySet
<1>3. ASSUME NEW n \in Nat, n \in N PROVE n + 1 \in N
  <2>1. ASSUME NEW s \in SUBSET S, Cardinality(s) = n + 1 PROVE s \in T
    <3>1. ASSUME NEW x \in s PROVE s \ {x} \in T
      <4>1. IsFiniteSet(s)
        BY <1>1
      <4>2. Cardinality(s \ {x}) = Cardinality(s) - 1
        BY <4>1, FS_RemoveElement
      <4> QED
        BY <1>3, <2>1, <4>2
    <3> QED
      BY <3>1
  <2> QED
    BY <2>1
<1> HIDE DEF N
<1>4. Nat \subseteq N
  BY <1>2, <1>3, EveryNumber
<1> QED
  BY <1>1, <1>4 DEF N

-----------------------------------------------------------------------------
(* The sum of a function over a finite set, which the community modules    *)
(* define by recursion.                                                    *)

Some(s) == CHOOSE x \in s : TRUE

Sums(g, f, D) == \A s \in D : g[s] = IF s = {} THEN 0 ELSE f[Some(s)] + g[s \ {Some(s)}]

(* The subsets with at most n members.                                     *)
Small(S, n) == {s \in SUBSET S : Cardinality(s) <= n}

(* The subsets of a finite set, by their size.                             *)
LEMMA SmallFacts ==
  ASSUME NEW S, IsFiniteSet(S)
  PROVE  /\ \A s \in SUBSET S : IsFiniteSet(s) /\ Cardinality(s) \in Nat
         /\ \A s \in SUBSET S : s # {} => Some(s) \in s /\ Cardinality(s \ {Some(s)}) = Cardinality(s) - 1
         /\ \A s \in SUBSET S : Cardinality(s) = 0 <=> s = {}
  BY FS_Subset, FS_CardinalityType, FS_RemoveElement, FS_EmptySet DEF Some

(* The definition that SumFunctionOnSet chooses by.                        *)
IsSum(g, f, S) == g = [s \in SUBSET S |-> IF s = {} THEN 0 ELSE f[Some(s)] + g[s \ {Some(s)}]]

(* A function that sums f over the subsets of a finite set exists.         *)
LEMMA SumIs ==
  ASSUME NEW f, NEW S, IsFiniteSet(S)
  PROVE  \E g : IsSum(g, f, S)
<1> DEFINE T == {n \in Nat : \E g : Sums(g, f, Small(S, n))}
<1>1. 0 \in T
  <2>1. Sums([s \in Small(S, 0) |-> 0], f, Small(S, 0))
    BY SmallFacts DEF Sums, Small
  <2> QED
    BY <2>1
<1>2. ASSUME NEW n \in Nat, n \in T PROVE n + 1 \in T
  <2>1. PICK g : Sums(g, f, Small(S, n))
    BY <1>2
  <2> DEFINE h == [s \in Small(S, n + 1) |->
         IF Cardinality(s) <= n THEN g[s] ELSE f[Some(s)] + g[s \ {Some(s)}]]
  <2>2. ASSUME NEW s \in Small(S, n + 1) 
        PROVE  h[s] = IF s = {} THEN 0 ELSE f[Some(s)] + h[s \ {Some(s)}]
    <3>1. s \in SUBSET S /\ Cardinality(s) \in Nat /\ Cardinality(s) <= n + 1
      BY SmallFacts DEF Small
    <3>2. CASE s = {}
      BY <2>1, <3>1, <3>2, SmallFacts DEF Sums, Small
    <3>3. CASE s # {}
      <4>1. s \ {Some(s)} \in Small(S, n)
        BY <3>1, <3>3, SmallFacts DEF Small
      <4>2. s \ {Some(s)} \in Small(S, n + 1) /\ Cardinality(s \ {Some(s)}) <= n
        BY <3>1, <4>1, SmallFacts DEF Small
      <4>3. h[s \ {Some(s)}] = g[s \ {Some(s)}]
        BY <4>2
      <4>4. CASE Cardinality(s) <= n
        <5>1. s \in Small(S, n)
          BY <3>1, <4>4 DEF Small
        <5>2. g[s] = f[Some(s)] + g[s \ {Some(s)}]
          BY <2>1, <3>3, <5>1 DEF Sums
        <5> QED
          BY <3>3, <4>3, <4>4, <5>2
      <4> QED
        BY <3>3, <4>3, <4>4
    <3> QED
      BY <3>2, <3>3
  <2> HIDE DEF h
  <2>3. Sums(h, f, Small(S, n + 1))
    BY <2>2 DEF Sums
  <2> QED
    BY <2>3
<1>3. Cardinality(S) \in T
  <2> HIDE DEF T
  <2>1. Nat \subseteq T
    BY <1>1, <1>2, EveryNumber
  <2> QED
    BY <2>1, SmallFacts
<1>4. PICK g : Sums(g, f, Small(S, Cardinality(S)))
  BY <1>3
<1>5. SUBSET S = Small(S, Cardinality(S))
  BY FS_Subset DEF Small
<1> DEFINE h == [s \in SUBSET S |-> g[s]]
<1>6. \A s \in SUBSET S : s \ {Some(s)} \in SUBSET S
  OBVIOUS
<1>7. IsSum(h, f, S)
  BY <1>4, <1>5, <1>6 DEF Sums, IsSum
<1> QED
  BY <1>7

(* SumFunctionOnSet is one.                                                *)
LEMMA SumDef ==
  ASSUME NEW f, NEW S, IsFiniteSet(S)
  PROVE  \E g : Sums(g, f, SUBSET S) /\ SumFunctionOnSet(f, S) = g[S]
<1> DEFINE g == CHOOSE h : IsSum(h, f, S)
<1>1. IsSum(g, f, S)
  BY SumIs
<1>2. SumFunctionOnSet(f, S) = g[S]
  BY DEF SumFunctionOnSet, FoldFunctionOnSet, MapThenFoldSet, Some, IsSum
<1> HIDE DEF g
<1>3. Sums(g, f, SUBSET S)
  BY <1>1 DEF Sums, IsSum
<1> QED
  BY <1>2, <1>3

(* The sum without one of the elements: the one that was chosen first.     *)
LEMMA SumUnfolds ==
  ASSUME NEW f, NEW S, IsFiniteSet(S)
  PROVE  SumFunctionOnSet(f, S) =
           IF S = {} THEN 0 ELSE f[Some(S)] + SumFunctionOnSet(f, S \ {Some(S)})
<1>1. PICK g : Sums(g, f, SUBSET S) /\ SumFunctionOnSet(f, S) = g[S]
  BY SumDef
<1>2. ASSUME NEW R \in SUBSET S PROVE SumFunctionOnSet(f, R) = g[R]
  <2>1. IsFiniteSet(R)
    BY FS_Subset
  <2>2. PICK h : Sums(h, f, SUBSET R) /\ SumFunctionOnSet(f, R) = h[R]
    BY <2>1, SumDef
  <2> DEFINE T == {s \in SUBSET R : h[s] = g[s]}
  <2>3. ASSUME NEW s \in SUBSET R, \A x \in s : s \ {x} \in T PROVE s \in T
    <3>1. s \in SUBSET S
      OBVIOUS
    <3>2. CASE s = {}
      BY <1>1, <2>2, <3>1, <3>2 DEF Sums
    <3>3. CASE s # {}
      <4>1. Some(s) \in s
        BY <3>3 DEF Some
      <4>2. h[s \ {Some(s)}] = g[s \ {Some(s)}]
        BY <2>3, <4>1
      <4> QED
        BY <1>1, <2>2, <3>1, <3>3, <4>2 DEF Sums
    <3> QED
      BY <3>2, <3>3
  <2> HIDE DEF T
  <2>4. SUBSET R \subseteq T
    BY <2>1, <2>3, EverySubset
  <2> QED
    BY <2>2, <2>4 DEF T
<1>3. S \ {Some(S)} \in SUBSET S /\ S \in SUBSET S
  OBVIOUS
<1>4. g[S] = IF S = {} THEN 0 ELSE f[Some(S)] + g[S \ {Some(S)}]
  BY <1>1, <1>3 DEF Sums
<1> QED
  BY <1>1, <1>2, <1>3, <1>4

(* The sum over nothing.                                                   *)
LEMMA SumOfNone ==
  ASSUME NEW f PROVE SumFunctionOnSet(f, {}) = 0
BY FS_EmptySet, SumUnfolds

(* A sum of integers is an integer.                                        *)
LEMMA SumType ==
  ASSUME NEW f, NEW S, IsFiniteSet(S), \A x \in S : f[x] \in Int
  PROVE  SumFunctionOnSet(f, S) \in Int
<1> DEFINE T == {s \in SUBSET S : SumFunctionOnSet(f, s) \in Int}
<1>1. ASSUME NEW s \in SUBSET S, \A x \in s : s \ {x} \in T PROVE s \in T
  <2>1. IsFiniteSet(s)
    BY FS_Subset
  <2>2. CASE s = {}
    BY <2>2, SumOfNone
  <2>3. CASE s # {}
    <3>1. Some(s) \in s
      BY <2>3 DEF Some
    <3>2. PICK x \in s : x = Some(s)
      BY <3>1
    <3>3. SumFunctionOnSet(f, s) = f[x] + SumFunctionOnSet(f, s \ {x})
      BY <2>1, <2>3, <3>2, SumUnfolds
    <3>4. s \ {x} \in T /\ x \in S
      BY <1>1
    <3> QED
      BY <3>3, <3>4
  <2> QED
    BY <2>2, <2>3
<1> HIDE DEF T
<1>2. SUBSET S \subseteq T
  BY <1>1, EverySubset
<1> QED
  BY <1>2 DEF T

(* The sum without any one of the elements: the order does not matter.     *)
LEMMA SumWithout ==
  ASSUME NEW f, NEW S, IsFiniteSet(S), \A x \in S : f[x] \in Int, NEW y \in S
  PROVE  SumFunctionOnSet(f, S) = f[y] + SumFunctionOnSet(f, S \ {y})
<1> DEFINE T == {s \in SUBSET S : \A x \in s :
                   SumFunctionOnSet(f, s) = f[x] + SumFunctionOnSet(f, s \ {x})}
<1>1. \A s \in SUBSET S : IsFiniteSet(s) /\ SumFunctionOnSet(f, s) \in Int
  <2>1. \A s \in SUBSET S : IsFiniteSet(s)
    BY FS_Subset
  <2> QED
    BY <2>1, SumType
<1>2. ASSUME NEW s \in SUBSET S, \A x \in s : s \ {x} \in T, NEW x \in s
      PROVE  SumFunctionOnSet(f, s) = f[x] + SumFunctionOnSet(f, s \ {x})
  <2>1. PICK z \in s : SumFunctionOnSet(f, s) = f[z] + SumFunctionOnSet(f, s \ {z})
    <3>1. Some(s) \in s
      BY <1>2 DEF Some
    <3>2. IsFiniteSet(s)
      BY <1>1
    <3> QED
      BY <3>1, <3>2, SumUnfolds
  <2>2. CASE x # z
    <3>1. SumFunctionOnSet(f, s \ {z}) = f[x] + SumFunctionOnSet(f, (s \ {z}) \ {x})
      BY <1>2, <2>2
    <3>2. SumFunctionOnSet(f, s \ {x}) = f[z] + SumFunctionOnSet(f, (s \ {x}) \ {z})
      BY <1>2, <2>2
    <3>3. (s \ {z}) \ {x} = (s \ {x}) \ {z}
      OBVIOUS
    <3>4. SumFunctionOnSet(f, (s \ {x}) \ {z}) \in Int /\ f[x] \in Int /\ f[z] \in Int
      BY <1>1
    <3>5. PICK rest \in Int : rest = SumFunctionOnSet(f, (s \ {x}) \ {z})
      BY <3>4
    <3>6. SumFunctionOnSet(f, s \ {x}) = f[z] + rest
      BY <3>2, <3>5
    <3>7. SumFunctionOnSet(f, s \ {z}) = f[x] + rest
      BY <3>1, <3>3, <3>5
    <3> QED
      BY <2>1, <3>4, <3>6, <3>7
  <2> QED
    BY <2>1, <2>2
<1>3. \A s \in SUBSET S : (\A x \in s : s \ {x} \in T) => s \in T
  BY <1>2
<1> HIDE DEF T
<1>4. SUBSET S \subseteq T
  BY <1>3, EverySubset
<1>5. S \in T
  BY <1>4
<1> QED
  BY <1>5 DEF T

(* Sums of functions that are the same, add up, or vanish on the set.      *)
LEMMA SumSame ==
  ASSUME NEW f, NEW g, NEW S, IsFiniteSet(S), \A x \in S : f[x] = g[x]
  PROVE  SumFunctionOnSet(f, S) = SumFunctionOnSet(g, S)
<1> DEFINE T == {s \in SUBSET S : SumFunctionOnSet(f, s) = SumFunctionOnSet(g, s)}
<1>1. ASSUME NEW s \in SUBSET S, \A x \in s : s \ {x} \in T PROVE s \in T
  <2>1. IsFiniteSet(s)
    BY FS_Subset
  <2>2. CASE s = {}
    BY <2>2, SumOfNone
  <2>3. CASE s # {}
    <3>1. Some(s) \in s
      BY <2>3 DEF Some
    <3>2. PICK x \in s : x = Some(s)
      BY <3>1
    <3>3. /\ SumFunctionOnSet(f, s) = f[x] + SumFunctionOnSet(f, s \ {x})
          /\ SumFunctionOnSet(g, s) = g[x] + SumFunctionOnSet(g, s \ {x})
      BY <2>1, <2>3, <3>2, SumUnfolds
    <3>4. s \ {x} \in T /\ x \in S
      BY <1>1
    <3> QED
      BY <3>3, <3>4
  <2> QED
    BY <2>2, <2>3
<1> HIDE DEF T
<1>2. SUBSET S \subseteq T
  BY <1>1, EverySubset
<1> QED
  BY <1>2 DEF T

(* The sum of two functions.                                               *)
LEMMA SumAdds ==
  ASSUME NEW f, NEW g, NEW h, NEW S, IsFiniteSet(S),
         \A x \in S : f[x] \in Int /\ g[x] \in Int /\ h[x] = f[x] + g[x]
  PROVE  SumFunctionOnSet(h, S) = SumFunctionOnSet(f, S) + SumFunctionOnSet(g, S)
<1> DEFINE T == {s \in SUBSET S :
                   SumFunctionOnSet(h, s) = SumFunctionOnSet(f, s) + SumFunctionOnSet(g, s)}
<1>1. ASSUME NEW s \in SUBSET S, \A x \in s : s \ {x} \in T PROVE s \in T
  <2>1. IsFiniteSet(s)
    BY FS_Subset
  <2>2. CASE s = {}
    BY <2>2, SumOfNone
  <2>3. CASE s # {}
    <3>1. PICK x \in s : x = Some(s)
      BY <2>3 DEF Some
    <3>2. /\ SumFunctionOnSet(f, s) = f[x] + SumFunctionOnSet(f, s \ {x})
          /\ SumFunctionOnSet(g, s) = g[x] + SumFunctionOnSet(g, s \ {x})
          /\ SumFunctionOnSet(h, s) = h[x] + SumFunctionOnSet(h, s \ {x})
      BY <2>1, <2>3, <3>1, SumUnfolds
    <3>3. /\ SumFunctionOnSet(h, s \ {x}) =
               SumFunctionOnSet(f, s \ {x}) + SumFunctionOnSet(g, s \ {x})
          /\ x \in S
      BY <1>1, <3>1
    <3>4. IsFiniteSet(s \ {x}) /\ \A y \in s \ {x} : f[y] \in Int /\ g[y] \in Int
      BY <2>1, FS_RemoveElement
    <3>5. SumFunctionOnSet(f, s \ {x}) \in Int /\ SumFunctionOnSet(g, s \ {x}) \in Int
      BY <3>4, SumType
    <3> QED
      BY <3>2, <3>3, <3>5
  <2> QED
    BY <2>2, <2>3
<1> HIDE DEF T
<1>2. SUBSET S \subseteq T
  BY <1>1, EverySubset
<1> QED
  BY <1>2 DEF T

(* A sum of zeros.                                                         *)
LEMMA SumOfNothing ==
  ASSUME NEW f, NEW S, IsFiniteSet(S), \A x \in S : f[x] = 0
  PROVE  SumFunctionOnSet(f, S) = 0
<1> DEFINE T == {s \in SUBSET S : SumFunctionOnSet(f, s) = 0}
<1>1. ASSUME NEW s \in SUBSET S, \A x \in s : s \ {x} \in T PROVE s \in T
  <2>1. IsFiniteSet(s)
    BY FS_Subset
  <2>2. CASE s = {}
    BY <2>2, SumOfNone
  <2>3. CASE s # {}
    <3>1. Some(s) \in s
      BY <2>3 DEF Some
    <3>2. PICK x \in s : x = Some(s)
      BY <3>1
    <3>3. SumFunctionOnSet(f, s) = f[x] + SumFunctionOnSet(f, s \ {x})
      BY <2>1, <2>3, <3>2, SumUnfolds
    <3>4. s \ {x} \in T /\ x \in S
      BY <1>1
    <3> QED
      BY <3>3, <3>4
  <2> QED
    BY <2>2, <2>3
<1> HIDE DEF T
<1>2. SUBSET S \subseteq T
  BY <1>1, EverySubset
<1> QED
  BY <1>2 DEF T


(* The sum over one index.                                                 *)
LEMMA SumOfOne ==
  ASSUME NEW f, NEW x, f[x] \in Int PROVE SumFunctionOnSet(f, {x}) = f[x]
<1>1. IsFiniteSet({x}) /\ {x} \ {x} = {}
  BY FS_Singleton
<1>2. SumFunctionOnSet(f, {x}) = f[x] + SumFunctionOnSet(f, {x} \ {x})
  BY <1>1, SumWithout
<1>3. SumFunctionOnSet(f, {x} \ {x}) = 0
  BY <1>1, SumOfNone
<1> QED
  BY <1>2, <1>3

(* Amounts that are not negative and add up to nothing are nothing.        *)
LEMMA SumNotNegative ==
  ASSUME NEW f, NEW S, IsFiniteSet(S), \A x \in S : f[x] \in Nat
  PROVE  SumFunctionOnSet(f, S) \in Nat
<1> DEFINE T == {s \in SUBSET S : SumFunctionOnSet(f, s) \in Nat}
<1>1. ASSUME NEW s \in SUBSET S, \A x \in s : s \ {x} \in T PROVE s \in T
  <2>1. IsFiniteSet(s)
    BY FS_Subset
  <2>2. CASE s = {}
    BY <2>2, SumOfNone
  <2>3. CASE s # {}
    <3>1. PICK x \in s : x = Some(s)
      BY <2>3 DEF Some
    <3>2. SumFunctionOnSet(f, s) = f[x] + SumFunctionOnSet(f, s \ {x})
      BY <2>1, <2>3, <3>1, SumUnfolds
    <3>3. s \ {x} \in T /\ x \in S
      BY <1>1
    <3> QED
      BY <3>2, <3>3
  <2> QED
    BY <2>2, <2>3
<1> HIDE DEF T
<1>2. SUBSET S \subseteq T
  BY <1>1, EverySubset
<1> QED
  BY <1>2 DEF T

(* When such a sum is nothing, so is each number.                          *)
LEMMA NothingInSum ==
  ASSUME NEW f, NEW S, IsFiniteSet(S), \A x \in S : f[x] \in Nat, SumFunctionOnSet(f, S) = 0,
         NEW y \in S
  PROVE  f[y] = 0
<1>1. SumFunctionOnSet(f, S) = f[y] + SumFunctionOnSet(f, S \ {y})
  BY SumWithout
<1>2. IsFiniteSet(S \ {y})
  BY FS_RemoveElement
<1>3. SumFunctionOnSet(f, S \ {y}) \in Nat
  BY <1>2, SumNotNegative
<1> QED
  BY <1>1, <1>3

(* The sum up to a number and the next.                                    *)
LEMMA SumToLast ==
  ASSUME NEW f, NEW k \in Nat, k \in 1..k, \A i \in 1..k : f[i] \in Int
  PROVE  SumFunctionOnSet(f, 1..k) = f[k] + SumFunctionOnSet(f, (1..k) \ {k})
<1>1. PICK S : S = 1..k
  OBVIOUS
<1>2. IsFiniteSet(S)
  BY <1>1, FS_Interval
<1>3. k \in S /\ \A i \in S : f[i] \in Int
  BY <1>1
<1>4. SumFunctionOnSet(f, S) = f[k] + SumFunctionOnSet(f, S \ {k})
  <2>1. \A i \in S : f[i] \in Int
    BY <1>3
  <2>2. \A i \in S : SumFunctionOnSet(f, S) = f[i] + SumFunctionOnSet(f, S \ {i})
    BY <1>2, <2>1, SumWithout
  <2> QED
    BY <1>3, <2>2
<1> QED
  BY <1>1, <1>4

(* A sum over positions does not depend on where they begin.               *)
LEMMA SumShifted ==
  ASSUME NEW n \in Nat, NEW f, NEW g, \A i \in 1..n : g[i] \in Int /\ f[i + 1] = g[i]
  PROVE  SumFunctionOnSet(f, 2..(n + 1)) = SumFunctionOnSet(g, 1..n)
<1> DEFINE T == {m \in Nat : m <= n =>
                   SumFunctionOnSet(f, 2..(m + 1)) = SumFunctionOnSet(g, 1..m)}
<1>1. 0 \in T
  <2>1. 2..(0 + 1) = {} /\ 1..0 = {}
    OBVIOUS
  <2> QED
    BY <2>1, SumOfNone
<1>2. ASSUME NEW m \in Nat, m \in T PROVE m + 1 \in T
  <2> SUFFICES ASSUME m + 1 <= n
               PROVE  SumFunctionOnSet(f, 2..((m + 1) + 1)) = SumFunctionOnSet(g, 1..(m + 1))
    OBVIOUS
  <2>1. PICK k \in Nat : k = m + 1
    OBVIOUS
  <2>2. IsFiniteSet(2..(k + 1)) /\ IsFiniteSet(1..k)
    BY FS_Interval
  <2>3. \A i \in 1..k : i \in 1..n
    BY <2>1
  <2>4. \A i \in 2..(k + 1) : f[i] \in Int
    <3>1. ASSUME NEW i \in 2..(k + 1) PROVE f[i] \in Int
      <4>1. i - 1 \in 1..n /\ (i - 1) + 1 = i
        BY <2>1
      <4> QED
        BY <4>1
    <3> QED
      BY <3>1
  <2>5. \A i \in 1..k : g[i] \in Int
    BY <2>3
  <2>6. k + 1 \in 2..(k + 1) /\ (2..(k + 1)) \ {k + 1} = 2..(m + 1)
    BY <2>1
  <2>7. k \in 1..k /\ (1..k) \ {k} = 1..m
    BY <2>1
  <2>8. SumFunctionOnSet(f, 2..(k + 1)) = f[k + 1] + SumFunctionOnSet(f, (2..(k + 1)) \ {k + 1})
    <3>1. PICK S : S = 2..(k + 1)
      OBVIOUS
    <3>2. IsFiniteSet(S)
      BY <2>2, <3>1
    <3>3. \A i \in S : f[i] \in Int
      BY <2>4, <3>1
    <3>4. \A i \in S : SumFunctionOnSet(f, S) = f[i] + SumFunctionOnSet(f, S \ {i})
      BY <3>2, <3>3, SumWithout
    <3> QED
      BY <2>6, <3>1, <3>4
  <2>9. SumFunctionOnSet(g, 1..k) = g[k] + SumFunctionOnSet(g, (1..k) \ {k})
    BY <2>5, <2>7, SumToLast
  <2>10. SumFunctionOnSet(f, 2..(m + 1)) = SumFunctionOnSet(g, 1..m)
    BY <1>2
  <2>11. f[k + 1] = g[k]
    BY <2>3, <2>7
  <2> QED
    BY <2>1, <2>6, <2>7, <2>8, <2>9, <2>10, <2>11
<1> HIDE DEF T
<1>3. Nat \subseteq T
  BY <1>1, <1>2, EveryNumber
<1> QED
  BY <1>3 DEF T

-----------------------------------------------------------------------------
(* The calculations: what is answered is the result of an input that was   *)
(* asked for.                                                              *)
Computed == input \in Inputs /\ output \in {Pending, Result(input)}

LEMMA CalculationsAnswer == CalculationsSpec => []Computed
<1>1. CalculationsInit => Computed
  BY DEF CalculationsInit, Computed
<1>2. Computed /\ [CalculationsNext]_calculationVars => Computed'
  BY DEF Computed, CalculationsNext, Calculate, calculationVars
<1> QED
  BY <1>1, <1>2, PTL DEF CalculationsSpec

LEMMA DoneIs ==
  ASSUME Computed, NEW kind, Done(kind)
  PROVE  /\ input \in Inputs /\ input.of = kind
         /\ output = Result(input) /\ Result(input) \notin {Refused, Broken, Crashed}
  BY DEF Computed, Done

LEMMA ResultIs ==
  ASSUME NEW in
  PROVE  /\ in.of = "proportional" => Result(in) = AllocateProportionally(in)
         /\ in.of = "moudaraba" => Result(in) = AllocateMoudarabaProfit(in)
         /\ in.of = "musharaka" => Result(in) = AllocateMusharakaResult(in)
         /\ in.of = "moutanaqissa" => Result(in) = BuildMoutanaqissaSchedule(in)
         /\ in.of = "loss" => Result(in) = ClassifyLossAbsorption(in)
         /\ in.of = "wakala" => Result(in) = AllocateWakalaProfit(in)
         /\ in.of = "waterfall" => Result(in) = CalculateDistributablePoolProfit(in)
         /\ in.of = "reserve" => Result(in) = AuthorizeReserveMovement(in)
         /\ in.of = "target" => Result(in) = SolveProfitTarget(in)
         /\ in.of = "consolidated" => Result(in) = CalculateConsolidatedDcr(in)
         /\ in.of = "report" => Result(in) = BuildReports(in)
         /\ in.of = "reconcile" => Result(in) = ReconcileAmounts(in)
         /\ in.of = "simulation" => Result(in) = SimulateReserveMovement(in)
         /\ in.of = "quotation" => Result(in) = SolveQuotationTarget(in)
         /\ in.of = "base" => Result(in) = CalculateWeightedParticipationBase(in)
         /\ in.of = "dcr" => Result(in) = CalculateDcr(in)
         /\ in.of = "stress" => Result(in) = ExecuteStressScenario(in)
         /\ in.of = "equity" => Result(in) = AnalyzeIntergenerationalEquity(in)
  BY DEF Result

(* An incentive is a part of the surplus, rounded half to even.            *)
LEMMA PartOf ==
  ASSUME NEW s \in Nat, NEW r \in 0..10
  PROVE  HalfEven(s * r, 10) \in 0..s
<1>1. PICK n \in Nat : n = s * r
  OBVIOUS
<1>2. n <= s * 10
  <2>1. s * (10 - r) >= 0
    OBVIOUS
  <2>2. s * 10 = s * r + s * (10 - r)
    OBVIOUS
  <2> QED
    BY <1>1, <2>1, <2>2
<1>3. n \div 10 \in Nat /\ n % 10 \in 0..9 /\ n = 10 * (n \div 10) + (n % 10)
  OBVIOUS
<1>4. HalfEven(n, 10) \in 0..s
  BY <1>2, <1>3 DEF HalfEven
<1> QED
  BY <1>1, <1>4

LEMMA LossCascade ==
  ASSUME NEW in \in Inputs, in.of = "loss", NEW out, out = ClassifyLossAbsorption(in), out # Refused
  PROVE  /\ out.irr > 0 => in.irrPolicy = "APPROVED"
         /\ out.per > 0 => out.irr = in.irr \/ in.irrPolicy # "APPROVED"
         /\ out.capital > 0 => out.per = in.per
         /\ out.unabsorbed > 0 => out.capital = in.capital /\ out.per = in.per
         /\ out.irr <= in.irr /\ out.per <= in.per /\ out.capital <= in.capital
         /\ out.bank > 0 <=> in.cause \in BankLiabilityCauses
         /\ in.cause \in BankLiabilityCauses => out.bank = in.loss
         /\ out.irr + out.per + out.capital + out.bank + out.unabsorbed = in.loss
<1>1. in.loss \in Int /\ in.irr \in Nat /\ in.per \in Nat /\ in.capital \in Nat
  BY CalculationsAssumption
<1>2. in.loss > 0
  BY <1>1 DEF ClassifyLossAbsorption
<1>3. CASE in.cause \in BankLiabilityCauses
  BY <1>1, <1>2, <1>3 DEF ClassifyLossAbsorption
<1>4. CASE in.cause \notin BankLiabilityCauses
  <2>1. PICK irr \in Nat : irr = IF in.irrPolicy = "APPROVED" THEN Least(in.irr, in.loss) ELSE 0
    BY <1>1, <1>2 DEF Least
  <2>2. PICK per \in Nat : per = Least(in.per, in.loss - irr)
    BY <1>1, <1>2, <2>1 DEF Least
  <2>3. PICK capital \in Nat : capital = Least(in.capital, in.loss - irr - per)
    BY <1>1, <1>2, <2>1, <2>2 DEF Least
  <2>4. out = [irr |-> irr, per |-> per, capital |-> capital, bank |-> 0,
               unabsorbed |-> in.loss - irr - per - capital]
    BY <1>1, <1>2, <1>4, <2>1, <2>2, <2>3 DEF ClassifyLossAbsorption
  <2>5. /\ out.irr = irr /\ out.per = per /\ out.capital = capital /\ out.bank = 0
        /\ out.unabsorbed = in.loss - irr - per - capital
    BY <2>4
  <2>6. irr <= in.irr /\ per <= in.per /\ capital <= in.capital
    <3>1. irr <= in.irr
      BY <1>1, <1>2, <2>1 DEF Least
    <3>2. per <= in.per
      BY <1>1, <2>2 DEF Least
    <3>3. capital <= in.capital
      BY <1>1, <2>3 DEF Least
    <3> QED
      BY <3>1, <3>2, <3>3
  <2>7. irr > 0 => in.irrPolicy = "APPROVED"
    BY <2>1
  <2>8. per > 0 => irr = in.irr \/ in.irrPolicy # "APPROVED"
    <3>1. in.loss - irr > 0 /\ in.irrPolicy = "APPROVED" => irr = in.irr
      BY <1>1, <2>1 DEF Least
    <3>2. per > 0 => in.loss - irr > 0
      BY <1>1, <2>2 DEF Least
    <3> QED
      BY <3>1, <3>2
  <2>9. capital > 0 => per = in.per
    BY <1>1, <2>2, <2>3 DEF Least
  <2>10. in.loss - irr - per - capital > 0 => capital = in.capital /\ per = in.per
    BY <1>1, <2>2, <2>3 DEF Least
  <2>11. irr + per + capital + 0 + (in.loss - irr - per - capital) = in.loss
    BY <1>1
  <2> QED
    BY <1>4, <2>5, <2>6, <2>7, <2>8, <2>9, <2>10, <2>11
<1> QED
  BY <1>3, <1>4

LEMMA WakalaGain ==
  ASSUME NEW in \in Inputs, in.of = "wakala", in.realized >= 0,
         NEW out, out = AllocateWakalaProfit(in), out # Refused
  PROVE  /\ out.mandant >= 0
         /\ out.incentive > 0 => out.mandant >= in.expected
         /\ out.mandant < Least(in.expected, in.realized - in.fee + in.waiver)
              => out.charged = in.realized
         /\ out.mandant + out.bank = in.realized
<1>1. /\ in.realized \in Int /\ in.expected \in Nat /\ in.fee \in Nat /\ in.waiver \in Nat
      /\ in.rate \in Nat
  BY CalculationsAssumption
<1>2. in.rate \in 0..10 /\ in.waiver <= in.fee /\ out = AllocateWakalaGain(in)
  BY <1>1 DEF AllocateWakalaProfit
<1>3. PICK charged \in Nat : charged = Least(in.fee - in.waiver, in.realized)
  BY <1>1, <1>2 DEF Least
<1>4. PICK surplus \in Nat : surplus = Positive(in.realized - charged - in.expected)
  BY <1>1, <1>3 DEF Positive
<1>5. HalfEven(surplus * in.rate, 10) \in 0..surplus
  BY <1>2, PartOf
<1>6. PICK incentive \in 0..surplus :
        incentive = IF in.surplusPolicy = "BANK_PERFORMANCE_INCENTIVE"
                    THEN HalfEven(surplus * in.rate, 10) ELSE 0
  BY <1>5
<1>7. out = [charged |-> charged, waived |-> in.waiver, incentive |-> incentive,
             mandant |-> in.realized - charged - incentive, bank |-> charged + incentive]
  BY <1>2, <1>3, <1>4, <1>6 DEF AllocateWakalaGain
<1>8. /\ out.charged = charged /\ out.incentive = incentive
      /\ out.mandant = in.realized - charged - incentive /\ out.bank = charged + incentive
  BY <1>7
<1> QED
  BY <1>1, <1>2, <1>3, <1>4, <1>6, <1>8 DEF Least, Positive

LEMMA WakalaLoss ==
  ASSUME NEW in \in Inputs, in.of = "wakala", in.realized < 0,
         NEW out, out = AllocateWakalaProfit(in), out # Refused
  PROVE  out.charged = 0 /\ out.incentive = 0 /\ out.mandant + out.bank = in.realized
<1>1. in.realized \in Int
  BY CalculationsAssumption
<1> QED
  BY <1>1 DEF AllocateWakalaProfit, AllocateWakalaLoss

(* A loss is borne by one layer after the other, whatever the amounts, and *)
(* a fee or an incentive is taken only from what was gained                *)
(* (classifyLossAbsorption, allocateWakalaProfit).                         *)
THEOREM LossesFollowTheCascade == CalculationsSpec => []LossFollowsCascade
<1>1. Computed => LossFollowsCascade
  <2> SUFFICES ASSUME Computed PROVE LossFollowsCascade
    OBVIOUS
  <2>1. ASSUME Done("loss")
        PROVE  /\ output.irr > 0 => input.irrPolicy = "APPROVED"
               /\ output.per > 0 => output.irr = input.irr \/ input.irrPolicy # "APPROVED"
               /\ output.capital > 0 => output.per = input.per
               /\ output.unabsorbed > 0 => output.capital = input.capital /\ output.per = input.per
               /\ output.irr <= input.irr /\ output.per <= input.per
               /\ output.capital <= input.capital
               /\ output.bank > 0 <=> input.cause \in BankLiabilityCauses
               /\ input.cause \in BankLiabilityCauses => output.bank = input.loss
    <3>1. input \in Inputs /\ input.of = "loss" /\ output = Result(input) /\ output # Refused
      BY <2>1, DoneIs
    <3>2. output = ClassifyLossAbsorption(input)
      BY <3>1, ResultIs
    <3> QED
      BY <3>1, <3>2, LossCascade
  <2>2. ASSUME Done("wakala"), input.realized >= 0
        PROVE  /\ output.mandant >= 0
               /\ output.incentive > 0 => output.mandant >= input.expected
               /\ output.mandant < Least(input.expected, input.realized - input.fee + input.waiver)
                    => output.charged = input.realized
    <3>1. input \in Inputs /\ input.of = "wakala" /\ output = Result(input) /\ output # Refused
      BY <2>2, DoneIs
    <3>2. output = AllocateWakalaProfit(input)
      BY <3>1, ResultIs
    <3> QED
      BY <2>2, <3>1, <3>2, WakalaGain
  <2>3. ASSUME Done("wakala"), input.realized < 0
        PROVE  output.charged = 0 /\ output.incentive = 0
    <3>1. input \in Inputs /\ input.of = "wakala" /\ output = Result(input) /\ output # Refused
      BY <2>3, DoneIs
    <3>2. output = AllocateWakalaProfit(input)
      BY <3>1, ResultIs
    <3> QED
      BY <2>3, <3>1, <3>2, WakalaLoss
  <2> QED
    BY <2>1, <2>2, <2>3 DEF LossFollowsCascade
<1> QED
  BY <1>1, CalculationsAnswer, PTL

-----------------------------------------------------------------------------
(* Places in an order: of the members of a finite set ranked by numbers,   *)
(* and by themselves where the numbers are the same, exactly k have fewer  *)
(* than k others before them.                                              *)
Ahead(D, rest, i) == {j \in D : rest[j] > rest[i] \/ (rest[j] = rest[i] /\ j < i)}
Top(D, rest, k)   == {i \in D : Cardinality(Ahead(D, rest, i)) < k}

Ranks(D, rest) == IsFiniteSet(D) /\ D \subseteq Int /\ \A i \in D : rest[i] \in Int

LEMMA AheadFacts ==
  ASSUME NEW D, NEW rest, Ranks(D, rest)
  PROVE  /\ \A i \in D : IsFiniteSet(Ahead(D, rest, i)) /\ Cardinality(Ahead(D, rest, i)) \in Nat
         /\ \A i, j \in D : j \in Ahead(D, rest, i) =>
              Cardinality(Ahead(D, rest, j)) < Cardinality(Ahead(D, rest, i))
         /\ \A i, j \in D : i # j => i \in Ahead(D, rest, j) \/ j \in Ahead(D, rest, i)
<1>1. ASSUME NEW i \in D
      PROVE  IsFiniteSet(Ahead(D, rest, i)) /\ Cardinality(Ahead(D, rest, i)) \in Nat
  <2>1. Ahead(D, rest, i) \subseteq D
    BY DEF Ahead
  <2>2. IsFiniteSet(Ahead(D, rest, i))
    BY <2>1, FS_Subset DEF Ranks
  <2> QED
    BY <2>2, FS_CardinalityType
<1>2. ASSUME NEW i \in D, NEW j \in D, j \in Ahead(D, rest, i)
      PROVE  Cardinality(Ahead(D, rest, j)) < Cardinality(Ahead(D, rest, i))
  <2>1. Ahead(D, rest, j) \subseteq Ahead(D, rest, i) /\ j \notin Ahead(D, rest, j)
    <3>1. \A l \in D : rest[l] \in Int /\ l \in Int
      BY DEF Ranks
    <3>2. rest[j] > rest[i] \/ (rest[j] = rest[i] /\ j < i)
      BY <1>2 DEF Ahead
    <3>3. ASSUME NEW l \in D, rest[l] > rest[j] \/ (rest[l] = rest[j] /\ l < j)
          PROVE  rest[l] > rest[i] \/ (rest[l] = rest[i] /\ l < i)
      BY <3>1, <3>2, <3>3
    <3>4. ~(rest[j] > rest[j] \/ (rest[j] = rest[j] /\ j < j))
      BY <3>1
    <3> QED
      BY <3>3, <3>4 DEF Ahead
  <2>2. Cardinality(Ahead(D, rest, j)) <= Cardinality(Ahead(D, rest, i))
    BY <1>1, <2>1, FS_Subset
  <2>3. Cardinality(Ahead(D, rest, j)) = Cardinality(Ahead(D, rest, i))
          => Ahead(D, rest, j) = Ahead(D, rest, i)
    BY <1>1, <2>1, FS_Subset
  <2>4. Cardinality(Ahead(D, rest, j)) \in Nat /\ Cardinality(Ahead(D, rest, i)) \in Nat
    BY <1>1
  <2> QED
    BY <1>2, <2>1, <2>2, <2>3, <2>4
<1>3. ASSUME NEW i \in D, NEW j \in D, i # j
      PROVE  i \in Ahead(D, rest, j) \/ j \in Ahead(D, rest, i)
  BY <1>3 DEF Ahead, Ranks
<1> QED
  BY <1>1, <1>2, <1>3

(* The next in the order, and the places up to it.                         *)
LEMMA NextInOrder ==
  ASSUME NEW D, NEW rest, Ranks(D, rest), NEW k \in Nat,
         Cardinality(Top(D, rest, k)) = k, k < Cardinality(D)
  PROVE  Cardinality(Top(D, rest, k + 1)) = k + 1
<1> DEFINE B(i) == Cardinality(Ahead(D, rest, i))
           P == Top(D, rest, k)
<1>1. P \subseteq D /\ IsFiniteSet(P) /\ P # D
  <2>1. P \subseteq D
    BY DEF Top
  <2>2. IsFiniteSet(P)
    BY <2>1, FS_Subset DEF Ranks
  <2> QED
    BY <2>1, <2>2
<1>2. \A i \in D : B(i) \in Nat
  BY AheadFacts
<1>3. PICK m \in D \ P : \A i \in D \ P : B(m) <= B(i)
  <2> DEFINE N == {B(i) : i \in D \ P}
  <2>1. N \subseteq Nat /\ N # {}
    BY <1>1, <1>2
  <2> HIDE DEF N
  <2>2. PICK n \in N : \A l \in N : n <= l
    BY <2>1, LeastNumber
  <2>3. PICK m \in D \ P : B(m) = n
    BY DEF N
  <2>4. \A i \in D \ P : B(i) \in N
    BY DEF N
  <2> QED
    BY <2>2, <2>3, <2>4
<1>4. Ahead(D, rest, m) = P
  <2>1. ASSUME NEW j \in Ahead(D, rest, m) PROVE j \in P
    <3>1. j \in D
      BY DEF Ahead
    <3>2. B(j) < B(m) /\ B(j) \in Nat /\ B(m) \in Nat
      BY <1>2, <3>1, AheadFacts
    <3> QED
      BY <1>3, <3>1, <3>2
  <2>2. ASSUME NEW j \in P PROVE j \in Ahead(D, rest, m)
    <3>1. j \in D /\ j # m /\ B(j) < k
      BY DEF Top
    <3>2. ~(B(m) < k)
      BY DEF Top
    <3>3. ~(m \in Ahead(D, rest, j))
      <4>1. SUFFICES ASSUME m \in Ahead(D, rest, j) PROVE FALSE
        OBVIOUS
      <4>2. B(m) < B(j) /\ B(m) \in Nat /\ B(j) \in Nat
        BY <1>2, <3>1, <4>1, AheadFacts
      <4> QED
        BY <3>1, <3>2, <4>2
    <3> QED
      BY <3>1, <3>3, AheadFacts
  <2> QED
    BY <2>1, <2>2
<1>5. B(m) = k
  BY <1>4
<1>6. Top(D, rest, k + 1) = P \cup {m}
  <2>1. ASSUME NEW i \in P PROVE i \in Top(D, rest, k + 1)
    <3>1. i \in D /\ B(i) < k /\ B(i) \in Nat
      BY <1>2 DEF Top
    <3>2. B(i) < k + 1
      BY <3>1
    <3> QED
      BY <3>1, <3>2 DEF Top
  <2>2. m \in Top(D, rest, k + 1)
    BY <1>5 DEF Top
  <2>3. ASSUME NEW i \in Top(D, rest, k + 1), i \notin P, i # m PROVE FALSE
    <3>1. i \in D /\ B(i) < k + 1 /\ B(i) \in Nat
      BY <1>2 DEF Top
    <3>2. m \in Ahead(D, rest, i)
      <4>1. m \in Ahead(D, rest, i) \/ i \in Ahead(D, rest, m)
        BY <2>3, <3>1, AheadFacts
      <4> QED
        BY <1>4, <2>3, <4>1
    <3>3. B(m) < B(i)
      BY <3>1, <3>2, AheadFacts
    <3> QED
      BY <1>5, <3>1, <3>3
  <2> QED
    BY <2>1, <2>2, <2>3
<1>7. Cardinality(P \cup {m}) = k + 1
  BY <1>1, FS_AddElement
<1> QED
  BY <1>6, <1>7

LEMMA TopCount ==
  ASSUME NEW D, NEW rest, Ranks(D, rest), NEW k \in Nat, k <= Cardinality(D)
  PROVE  Cardinality(Top(D, rest, k)) = k
<1> DEFINE T == {n \in Nat : n <= Cardinality(D) => Cardinality(Top(D, rest, n)) = n}
<1>1. 0 \in T
  <2>1. \A i \in D : ~(Cardinality(Ahead(D, rest, i)) < 0)
    BY AheadFacts
  <2>2. Top(D, rest, 0) = {}
    BY <2>1 DEF Top
  <2> QED
    BY <2>2, FS_EmptySet
<1>2. ASSUME NEW n \in Nat, n \in T PROVE n + 1 \in T
  <2>1. ASSUME n + 1 <= Cardinality(D) PROVE Cardinality(Top(D, rest, n + 1)) = n + 1
    <3>1. Cardinality(D) \in Nat
      BY FS_CardinalityType DEF Ranks
    <3>2. Cardinality(Top(D, rest, n)) = n /\ n < Cardinality(D)
      BY <1>2, <2>1, <3>1
    <3> QED
      BY <3>2, NextInOrder
  <2> QED
    BY <2>1
<1> HIDE DEF T
<1>3. Nat \subseteq T
  BY <1>1, <1>2, EveryNumber
<1> QED
  BY <1>3 DEF T

-----------------------------------------------------------------------------
(* More about sums: of multiples, of ones, of the parts of a set.          *)
LEMMA SumTimes ==
  ASSUME NEW f, NEW h, NEW a \in Int, NEW S, IsFiniteSet(S),
         \A x \in S : f[x] \in Int /\ h[x] = a * f[x]
  PROVE  SumFunctionOnSet(h, S) = a * SumFunctionOnSet(f, S)
<1> DEFINE T == {s \in SUBSET S : SumFunctionOnSet(h, s) = a * SumFunctionOnSet(f, s)}
<1>1. ASSUME NEW s \in SUBSET S, \A x \in s : s \ {x} \in T PROVE s \in T
  <2>1. IsFiniteSet(s)
    BY FS_Subset
  <2>2. CASE s = {}
    BY <2>2, SumOfNone
  <2>3. CASE s # {}
    <3>1. PICK x \in s : x = Some(s)
      BY <2>3 DEF Some
    <3>2. /\ SumFunctionOnSet(f, s) = f[x] + SumFunctionOnSet(f, s \ {x})
          /\ SumFunctionOnSet(h, s) = h[x] + SumFunctionOnSet(h, s \ {x})
      BY <2>1, <2>3, <3>1, SumUnfolds
    <3>3. SumFunctionOnSet(h, s \ {x}) = a * SumFunctionOnSet(f, s \ {x}) /\ x \in S
      BY <1>1, <3>1
    <3>4. IsFiniteSet(s \ {x}) /\ \A y \in s \ {x} : f[y] \in Int
      BY <2>1, FS_RemoveElement
    <3>5. SumFunctionOnSet(f, s \ {x}) \in Int
      BY <3>4, SumType
    <3>6. PICK u, v \in Int : u = f[x] /\ v = SumFunctionOnSet(f, s \ {x})
      BY <3>3, <3>5
    <3>7. a * (u + v) = a * u + a * v
      OBVIOUS
    <3> QED
      BY <3>2, <3>3, <3>6, <3>7
  <2> QED
    BY <2>2, <2>3
<1> HIDE DEF T
<1>2. SUBSET S \subseteq T
  BY <1>1, EverySubset
<1> QED
  BY <1>2 DEF T

LEMMA SumCounts ==
  ASSUME NEW f, NEW S, IsFiniteSet(S), NEW P, \A x \in S : f[x] = IF x \in P THEN 1 ELSE 0
  PROVE  SumFunctionOnSet(f, S) = Cardinality(S \cap P)
<1> DEFINE T == {s \in SUBSET S : SumFunctionOnSet(f, s) = Cardinality(s \cap P)}
<1>1. ASSUME NEW s \in SUBSET S, \A x \in s : s \ {x} \in T PROVE s \in T
  <2>1. IsFiniteSet(s)
    BY FS_Subset
  <2>2. CASE s = {}
    <3>1. s \cap P = {}
      BY <2>2
    <3> QED
      BY <2>2, <3>1, SumOfNone, FS_EmptySet
  <2>3. CASE s # {}
    <3>1. PICK x \in s : x = Some(s)
      BY <2>3 DEF Some
    <3>2. SumFunctionOnSet(f, s) = f[x] + SumFunctionOnSet(f, s \ {x})
      BY <2>1, <2>3, <3>1, SumUnfolds
    <3>3. SumFunctionOnSet(f, s \ {x}) = Cardinality((s \ {x}) \cap P) /\ x \in S
      BY <1>1, <3>1
    <3>4. PICK Q : Q = s \cap P
      OBVIOUS
    <3>5. IsFiniteSet(Q) /\ Cardinality(Q) \in Nat
      BY <2>1, <3>4, FS_Subset, FS_CardinalityType
    <3>6. CASE x \in P
      <4>1. (s \ {x}) \cap P = Q \ {x} /\ x \in Q
        BY <3>1, <3>4, <3>6
      <4>2. Cardinality(Q \ {x}) = Cardinality(Q) - 1
        BY <3>5, <4>1, FS_RemoveElement
      <4>3. f[x] = 1
        BY <3>3, <3>6
      <4>5. PICK n \in Nat : n = Cardinality(Q)
        BY <3>5
      <4>6. SumFunctionOnSet(f, s \ {x}) = n - 1
        BY <3>3, <4>1, <4>2, <4>5
      <4>4. SumFunctionOnSet(f, s) = Cardinality(Q)
        BY <3>2, <4>3, <4>5, <4>6
      <4> QED
        BY <3>4, <4>4
    <3>7. CASE x \notin P
      <4>1. (s \ {x}) \cap P = Q
        BY <3>4, <3>7
      <4>2. f[x] = 0
        BY <3>3, <3>7
      <4>3. SumFunctionOnSet(f, s) = Cardinality(Q)
        BY <3>2, <3>3, <3>5, <4>1, <4>2
      <4> QED
        BY <3>4, <4>3
    <3> QED
      BY <3>6, <3>7
  <2> QED
    BY <2>2, <2>3
<1> HIDE DEF T
<1>2. SUBSET S \subseteq T
  BY <1>1, EverySubset
<1> QED
  BY <1>2 DEF T

(* A sum of numbers that are at most others.                               *)
LEMMA SumAtMost ==
  ASSUME NEW f, NEW h, NEW S, IsFiniteSet(S),
         \A x \in S : f[x] \in Int /\ h[x] \in Int /\ f[x] <= h[x]
  PROVE  SumFunctionOnSet(f, S) <= SumFunctionOnSet(h, S)
<1> DEFINE d == [x \in S |-> h[x] - f[x]]
<1>1. \A x \in S : d[x] \in Nat /\ h[x] = f[x] + d[x] /\ f[x] \in Int /\ d[x] \in Int
  OBVIOUS
<1> HIDE DEF d
<1>2. SumFunctionOnSet(h, S) = SumFunctionOnSet(f, S) + SumFunctionOnSet(d, S)
  BY <1>1, SumAdds
<1>3. SumFunctionOnSet(d, S) \in Nat
  BY <1>1, SumNotNegative
<1>4. SumFunctionOnSet(f, S) \in Int
  BY <1>1, SumType
<1> QED
  BY <1>2, <1>3, <1>4

-----------------------------------------------------------------------------
(* Powers of ten.                                                          *)
IsTenTo(f) == f = [n \in Nat |-> IF n = 0 THEN 1 ELSE 10 * f[n - 1]]

(* The powers up to n.                                                     *)
TensUpTo(g, n) == g[0] = 1 /\ \A i \in 1..n : g[i] = 10 * g[i - 1]

LEMMA TenToExists == \E f : IsTenTo(f)
<1> DEFINE T == {n \in Nat : \E g : TensUpTo(g, n)}
<1>1. 0 \in T
  <2>1. PICK g : g = [i \in {0} |-> 1]
    OBVIOUS
  <2>2. TensUpTo(g, 0)
    BY <2>1 DEF TensUpTo
  <2> QED
    BY <2>2
<1>2. ASSUME NEW n \in Nat, n \in T PROVE n + 1 \in T
  <2>1. PICK g : TensUpTo(g, n)
    BY <1>2
  <2>2. PICK h : h = [i \in 0..(n + 1) |-> IF i = n + 1 THEN 10 * g[n] ELSE g[i]]
    OBVIOUS
  <2>3. h[0] = 1
    BY <2>1, <2>2 DEF TensUpTo
  <2>4. ASSUME NEW i \in 1..(n + 1) PROVE h[i] = 10 * h[i - 1]
    <3>1. i - 1 \in 0..n /\ h[i - 1] = g[i - 1]
      BY <2>2
    <3>2. CASE i = n + 1
      BY <2>2, <3>1, <3>2
    <3>3. CASE i \in 1..n
      <4>1. h[i] = g[i] /\ g[i] = 10 * g[i - 1]
        BY <2>1, <2>2, <3>3 DEF TensUpTo
      <4> QED
        BY <3>1, <4>1
    <3> QED
      BY <3>2, <3>3
  <2>5. TensUpTo(h, n + 1)
    BY <2>3, <2>4 DEF TensUpTo
  <2> QED
    BY <2>5
<1> HIDE DEF T
<1>3. Nat \subseteq T
  BY <1>1, <1>2, EveryNumber DEF T
<1>4. \A n \in Nat : \E g : TensUpTo(g, n)
  BY <1>3 DEF T
<1> DEFINE tens == [n \in Nat |-> CHOOSE g : TensUpTo(g, n)]
<1> DEFINE f == [n \in Nat |-> tens[n][n]]
<1>5. \A n \in Nat : TensUpTo(tens[n], n)
  BY <1>4
<1> HIDE DEF tens
<1>6. ASSUME NEW n \in Nat PROVE tens[n + 1][n] = tens[n][n]
  <2> DEFINE a == tens[n + 1]
             b == tens[n]
             S == {m \in Nat : m <= n => a[m] = b[m]}
  <2>1. TensUpTo(a, n + 1) /\ TensUpTo(b, n)
    BY <1>5
  <2> HIDE DEF a, b
  <2>2. 0 \in S
    BY <2>1 DEF TensUpTo
  <2>3. ASSUME NEW m \in Nat, m \in S PROVE m + 1 \in S
    <3>1. SUFFICES ASSUME m + 1 <= n PROVE a[m + 1] = b[m + 1]
      OBVIOUS
    <3>2. PICK i \in 1..n : i = m + 1
      BY <3>1
    <3>3. a[i] = 10 * a[i - 1] /\ b[i] = 10 * b[i - 1] /\ i - 1 = m
      BY <2>1, <3>2 DEF TensUpTo
    <3>4. a[m] = b[m]
      BY <2>3, <3>1
    <3> QED
      BY <3>2, <3>3, <3>4
  <2> HIDE DEF S
  <2>4. Nat \subseteq S
    BY <2>2, <2>3, EveryNumber DEF S
  <2>5. a[n] = b[n]
    BY <2>4 DEF S
  <2> QED
    BY <2>5 DEF a, b
<1>7. ASSUME NEW n \in Nat PROVE f[n] = IF n = 0 THEN 1 ELSE 10 * f[n - 1]
  <2>1. CASE n = 0
    BY <1>5, <2>1 DEF TensUpTo
  <2>2. CASE n # 0
    <3>1. PICK m \in Nat : n = m + 1 /\ n - 1 = m
      <4>1. n - 1 \in Nat /\ n = (n - 1) + 1
        BY <2>2
      <4> QED
        BY <4>1
    <3>2. PICK g : g = tens[n]
      OBVIOUS
    <3>3. g[n] = 10 * g[m]
      <4>1. TensUpTo(g, n) /\ n \in 1..n
        BY <1>5, <3>1, <3>2
      <4>2. g[n] = 10 * g[n - 1]
        BY <4>1 DEF TensUpTo
      <4> QED
        BY <3>1, <4>2
    <3>4. g[m] = tens[m][m]
      BY <1>6, <3>1, <3>2
    <3>5. f[n] = g[n] /\ f[m] = tens[m][m]
      BY <3>2
    <3> QED
      BY <2>2, <3>1, <3>3, <3>4, <3>5
  <2> QED
    BY <2>1, <2>2
<1>8. f = [n \in Nat |-> f[n]]
  OBVIOUS
<1> HIDE DEF f
<1>9. f = [n \in Nat |-> IF n = 0 THEN 1 ELSE 10 * f[n - 1]]
  BY <1>7, <1>8
<1> QED
  BY <1>9 DEF IsTenTo

LEMMA TenToIs ==
  /\ TenTo[0] = 1
  /\ \A n \in Nat : TenTo[n + 1] = 10 * TenTo[n]
<1>1. TenTo = CHOOSE f : IsTenTo(f)
  BY DEF TenTo, IsTenTo
<1>2. PICK f : f = TenTo
  OBVIOUS
<1>3. IsTenTo(f)
  BY <1>1, <1>2, TenToExists
<1>4. f[0] = 1
  BY <1>3 DEF IsTenTo
<1>5. ASSUME NEW n \in Nat PROVE f[n + 1] = 10 * f[n]
  <2>1. PICK m \in Nat : m = n + 1
    OBVIOUS
  <2>2. m # 0 /\ m - 1 = n
    BY <2>1
  <2>3. f[m] = 10 * f[m - 1]
    BY <1>3, <2>2 DEF IsTenTo
  <2> QED
    BY <2>1, <2>2, <2>3
<1> QED
  BY <1>2, <1>4, <1>5

LEMMA TenToType == \A n \in Nat : TenTo[n] \in Nat /\ TenTo[n] > 0
<1> DEFINE T == {n \in Nat : TenTo[n] \in Nat /\ TenTo[n] > 0}
<1>1. 0 \in T
  BY TenToIs
<1>2. ASSUME NEW n \in Nat, n \in T PROVE n + 1 \in T
  BY <1>2, TenToIs
<1> HIDE DEF T
<1>3. Nat \subseteq T
  BY <1>1, <1>2, EveryNumber DEF T
<1> QED
  BY <1>3 DEF T

LEMMA TenToSum == \A a, b \in Nat : TenTo[a + b] = TenTo[a] * TenTo[b]
<1> SUFFICES ASSUME NEW a \in Nat PROVE \A b \in Nat : TenTo[a + b] = TenTo[a] * TenTo[b]
  OBVIOUS
<1> DEFINE T == {b \in Nat : TenTo[a + b] = TenTo[a] * TenTo[b]}
<1>1. 0 \in T
  <2>1. PICK p \in Nat : p = TenTo[a]
    BY TenToType
  <2>2. TenTo[a + 0] = p /\ p * 1 = p
    BY <2>1
  <2> QED
    BY <2>1, <2>2, TenToIs
<1>2. ASSUME NEW b \in Nat, b \in T PROVE b + 1 \in T
  <2>1. PICK p, q \in Nat : p = TenTo[a] /\ q = TenTo[b]
    BY TenToType
  <2>2. TenTo[b + 1] = 10 * q
    BY <2>1, TenToIs
  <2>3. PICK c \in Nat : c = a + b
    OBVIOUS
  <2>4. TenTo[c + 1] = 10 * TenTo[c] /\ TenTo[c] = p * q
    BY <1>2, <2>1, <2>3, TenToIs
  <2>5. a + (b + 1) = c + 1
    BY <2>3
  <2>6. 10 * (p * q) = p * (10 * q)
    OBVIOUS
  <2>7. TenTo[a + (b + 1)] = p * (10 * q)
    BY <2>4, <2>5, <2>6
  <2> QED
    BY <2>1, <2>2, <2>7
<1> HIDE DEF T
<1>3. Nat \subseteq T
  BY <1>1, <1>2, EveryNumber DEF T
<1> QED
  BY <1>3 DEF T

LEMMA PowersShrink ==
  ASSUME NEW i \in Nat, NEW k \in Nat, i <= k
  PROVE  k - i \in Nat /\ TenTo[k] = TenTo[i] * TenTo[k - i] /\ TenTo[i] <= TenTo[k]
<1>1. PICK c \in Nat : c = k - i /\ k = i + c
  <2>1. k - i \in Nat /\ k = i + (k - i)
    OBVIOUS
  <2> QED
    BY <2>1
<1>2. PICK p, q \in Nat : p = TenTo[i] /\ q = TenTo[c] /\ q > 0
  BY TenToType
<1>3. TenTo[k] = p * q
  BY <1>1, <1>2, TenToSum
<1>4. p <= p * q
  <2>1. p * (q - 1) >= 0
    BY <1>2
  <2> QED
    BY <2>1
<1> QED
  BY <1>1, <1>2, <1>3, <1>4

(* A division gives one quotient and one remainder.                        *)
LEMMA Division ==
  ASSUME NEW a \in Int, NEW b \in Nat, b > 0
  PROVE  /\ a \div b \in Int /\ a % b \in 0..(b - 1) /\ a = b * (a \div b) + (a % b)
         /\ a >= 0 => a \div b >= 0
  OBVIOUS

LEMMA DivisionIs ==
  ASSUME NEW n \in Int, NEW d \in Nat, d > 0, NEW q \in Int, NEW r \in Int,
         n = d * q + r, 0 <= r, r < d
  PROVE  n \div d = q /\ n % d = r
<1>1. PICK a, b \in Int : a = n \div d /\ b = n % d /\ n = d * a + b /\ 0 <= b /\ b < d
  BY Division
<1>2. d * (q - a) = b - r
  <2>1. d * (q - a) = d * q - d * a
    OBVIOUS
  <2> QED
    BY <1>1, <2>1
<1>3. ~(q - a >= 1)
  <2>1. SUFFICES ASSUME q - a >= 1 PROVE FALSE
    OBVIOUS
  <2>2. d * ((q - a) - 1) >= 0
    BY <2>1
  <2>3. d * ((q - a) - 1) = d * (q - a) - d
    OBVIOUS
  <2> QED
    BY <1>1, <1>2, <2>2, <2>3
<1>4. ~(q - a <= -1)
  <2>1. SUFFICES ASSUME q - a <= -1 PROVE FALSE
    OBVIOUS
  <2>2. d * ((a - q) - 1) >= 0
    BY <2>1
  <2>3. d * ((a - q) - 1) = -(d * (q - a)) - d
    OBVIOUS
  <2> QED
    BY <1>1, <1>2, <2>2, <2>3
<1>5. q = a
  BY <1>3, <1>4
<1> QED
  BY <1>1, <1>5

-----------------------------------------------------------------------------
(* The largest remainders: the shares add up to the total, each is one of  *)
(* the two numbers next to the exact share, nothing goes to no weight, and *)
(* a larger weight never gets less.                                        *)
Weights(w) ==
  /\ IsFiniteSet(DOMAIN w) /\ DOMAIN w \subseteq Int
  /\ \A i \in DOMAIN w : w[i] \in Nat
  /\ SumFunctionOnSet(w, DOMAIN w) > 0

Floors(t, w) == [i \in DOMAIN w |-> (t * w[i]) \div SumFunction(w)]
Rests(t, w)  == [i \in DOMAIN w |-> (t * w[i]) % SumFunction(w)]

Extra(D, r, left, i) == IF Cardinality(Ahead(D, r, i)) < left THEN 1 ELSE 0

LEMMA PriorityIs ==
  ASSUME NEW D, NEW rest, DOMAIN rest = D, NEW left, NEW i \in D
  PROVE  (IF PriorityOf(rest, i) < left THEN 1 ELSE 0) = Extra(D, rest, left, i)
  BY DEF PriorityOf, Extra, Ahead

LEMMA LargestRemainderIs ==
  ASSUME NEW t, NEW w, NEW f, f = Floors(t, w), NEW r, r = Rests(t, w),
         NEW left, left = t - SumFunction(f)
  PROVE  /\ DOMAIN LargestRemainder(t, w) = DOMAIN w
         /\ \A i \in DOMAIN w : LargestRemainder(t, w)[i] = f[i] + Extra(DOMAIN w, r, left, i)
<1>1. LargestRemainder(t, w) =
        [i \in DOMAIN w |-> f[i] + IF PriorityOf(r, i) < left THEN 1 ELSE 0]
  BY DEF LargestRemainder, Floors, Rests
<1>2. DOMAIN r = DOMAIN w
  BY DEF Rests
<1> QED
  BY <1>1, <1>2, PriorityIs

(* The floors, the remainders, and what is left over: not more units than  *)
(* there are shares with a remainder.                                      *)
LEMMA FloorFacts ==
  ASSUME NEW t \in Nat, NEW w, Weights(w), NEW all, all = SumFunctionOnSet(w, DOMAIN w),
         NEW f, f = Floors(t, w), NEW r, r = Rests(t, w)
  PROVE  /\ all \in Nat /\ all > 0
         /\ \A i \in DOMAIN w : /\ f[i] \in Nat /\ r[i] \in 0..(all - 1)
                                /\ t * w[i] = all * f[i] + r[i]
         /\ t - SumFunction(f) \in Nat
         /\ all * (t - SumFunction(f)) = SumFunctionOnSet(r, DOMAIN w)
<1> DEFINE D == DOMAIN w
<1>1. IsFiniteSet(D) /\ \A i \in D : w[i] \in Nat /\ w[i] \in Int
  BY DEF Weights
<1>2. all \in Nat /\ all > 0
  BY <1>1, SumNotNegative DEF Weights
<1>3. SumFunction(w) = all
  BY DEF SumFunction
<1>4. /\ f = [i \in D |-> (t * w[i]) \div all] /\ r = [i \in D |-> (t * w[i]) % all]
  BY <1>3 DEF Floors, Rests
<1>5. ASSUME NEW i \in D
      PROVE  /\ f[i] \in Nat /\ r[i] \in 0..(all - 1) /\ f[i] \in Int /\ r[i] \in Nat
             /\ t * w[i] = all * f[i] + r[i] /\ t * w[i] \in Int
  <2>1. PICK a \in Nat : a = t * w[i]
    BY <1>1
  <2>2. a \div all \in Int /\ a % all \in 0..(all - 1) /\ a = all * (a \div all) + (a % all)
        /\ a \div all >= 0
    BY <1>2, <2>1, Division
  <2>3. f[i] = a \div all /\ r[i] = a % all
    BY <1>4, <2>1
  <2> QED
    BY <1>2, <2>1, <2>2, <2>3
<1>6. DOMAIN f = D
  BY <1>4
<1> DEFINE tw == [i \in D |-> t * w[i]]
           af == [i \in D |-> all * f[i]]
<1>7. SumFunctionOnSet(tw, D) = t * SumFunctionOnSet(w, D)
  <2>1. \A i \in D : w[i] \in Int /\ tw[i] = t * w[i]
    BY <1>1
  <2> HIDE DEF tw
  <2> QED
    BY <1>1, <2>1, SumTimes
<1>8. SumFunctionOnSet(af, D) = all * SumFunctionOnSet(f, D)
  <2>1. \A i \in D : f[i] \in Int /\ af[i] = all * f[i]
    BY <1>5
  <2> HIDE DEF af
  <2> QED
    BY <1>1, <1>2, <2>1, SumTimes
<1>9. SumFunctionOnSet(tw, D) = SumFunctionOnSet(af, D) + SumFunctionOnSet(r, D)
  <2>1. \A i \in D : af[i] \in Int /\ r[i] \in Int /\ tw[i] = af[i] + r[i]
    BY <1>2, <1>5
  <2> HIDE DEF tw, af
  <2> QED
    BY <1>1, <2>1, SumAdds
<1>10. PICK F \in Nat : F = SumFunctionOnSet(f, D)
  BY <1>1, <1>5, SumNotNegative
<1>11. PICK R \in Nat : R = SumFunctionOnSet(r, D)
  BY <1>1, <1>5, SumNotNegative
<1>12. t * all = all * F + R
  BY <1>7, <1>8, <1>9, <1>10, <1>11
<1>13. SumFunction(f) = F
  BY <1>6, <1>10 DEF SumFunction
<1>14. all * (t - F) = R
  <2>1. all * (t - F) = all * t - all * F
    BY <1>2
  <2> QED
    BY <1>2, <1>12, <2>1
<1>15. t - F >= 0
  <2>1. SUFFICES ASSUME t - F <= -1 PROVE FALSE
    OBVIOUS
  <2>2. all * (t - F) <= all * (-1)
    <3>1. all * ((-1) - (t - F)) >= 0
      BY <1>2, <2>1
    <3>2. all * ((-1) - (t - F)) = all * (-1) - all * (t - F)
      BY <1>2
    <3> QED
      BY <1>2, <3>1, <3>2
  <2> QED
    BY <1>2, <1>14, <2>2
<1> QED
  BY <1>2, <1>5, <1>11, <1>13, <1>14, <1>15

LEMMA LeftOver ==
  ASSUME NEW t \in Nat, NEW w, Weights(w), NEW f, f = Floors(t, w), NEW r, r = Rests(t, w),
         NEW P, P = {i \in DOMAIN w : r[i] > 0}
  PROVE  IsFiniteSet(P) /\ Cardinality(P) \in Nat /\ t - SumFunction(f) <= Cardinality(P)
<1> DEFINE D == DOMAIN w
<1>1. PICK all \in Nat : all = SumFunctionOnSet(w, D) /\ all > 0
  BY FloorFacts
<1>2. PICK left \in Nat : left = t - SumFunction(f) /\ all * left = SumFunctionOnSet(r, D)
  BY <1>1, FloorFacts
<1>3. \A i \in D : r[i] \in 0..(all - 1)
  BY <1>1, FloorFacts
<1>4. IsFiniteSet(D)
  BY DEF Weights
<1>5. IsFiniteSet(P) /\ Cardinality(P) \in Nat
  <2>1. P \subseteq D
    OBVIOUS
  <2> QED
    BY <1>4, <2>1, FS_Subset, FS_CardinalityType
<1> DEFINE one == [i \in D |-> IF i \in P THEN 1 ELSE 0]
           cap == [i \in D |-> (all - 1) * one[i]]
<1>6. \A i \in D : one[i] = IF i \in P THEN 1 ELSE 0
  OBVIOUS
<1>7. \A i \in D : cap[i] = (all - 1) * one[i] /\ one[i] \in Int
  OBVIOUS
<1>8. \A i \in D : r[i] \in Int /\ cap[i] \in Int /\ r[i] <= cap[i]
  <2>1. ASSUME NEW i \in D PROVE r[i] \in Int /\ cap[i] \in Int /\ r[i] <= cap[i]
    <3>1. CASE i \in P
      BY <1>1, <1>3, <1>6, <1>7, <3>1
    <3>2. CASE i \notin P
      BY <1>1, <1>3, <1>6, <1>7, <3>2
    <3> QED
      BY <3>1, <3>2
  <2> QED
    BY <2>1
<1> HIDE DEF one, cap
<1>9. SumFunctionOnSet(one, D) = Cardinality(D \cap P)
  BY <1>4, <1>6, SumCounts
<1>10. D \cap P = P
  OBVIOUS
<1>11. all - 1 \in Int
  OBVIOUS
<1>12. SumFunctionOnSet(cap, D) = (all - 1) * SumFunctionOnSet(one, D)
  BY <1>4, <1>7, <1>11, SumTimes
<1>13. SumFunctionOnSet(r, D) <= SumFunctionOnSet(cap, D)
  BY <1>4, <1>8, SumAtMost
<1>14. PICK p \in Nat : p = Cardinality(P)
  BY <1>5
<1>15. all * left <= (all - 1) * p
  BY <1>2, <1>9, <1>10, <1>12, <1>13, <1>14
<1>16. left <= p
  <2>1. SUFFICES ASSUME left >= p + 1 PROVE FALSE
    BY <1>1
  <2>2. all * (left - (p + 1)) >= 0
    BY <1>1, <2>1
  <2>3. all * (left - (p + 1)) = all * left - all * p - all
    OBVIOUS
  <2>4. (all - 1) * p = all * p - p
    OBVIOUS
  <2> QED
    BY <1>1, <1>15, <2>2, <2>3, <2>4
<1> QED
  BY <1>2, <1>5, <1>14, <1>16

(* Of those that are ranked, as many get one unit more as there are left.  *)
LEMMA ExtraCounts ==
  ASSUME NEW D, NEW r, Ranks(D, r), NEW left \in Nat, left <= Cardinality(D),
         NEW x, \A i \in D : x[i] = Extra(D, r, left, i)
  PROVE  SumFunctionOnSet(x, D) = left
<1>1. PICK Q : Q = Top(D, r, left)
  OBVIOUS
<1>2. Cardinality(Q) = left
  BY <1>1, TopCount
<1>3. \A i \in D : x[i] = IF i \in Q THEN 1 ELSE 0
  BY <1>1 DEF Top, Extra
<1>4. D \cap Q = Q
  BY <1>1 DEF Top
<1>5. SumFunctionOnSet(x, D) = Cardinality(D \cap Q)
  BY <1>3, SumCounts DEF Ranks
<1> QED
  BY <1>2, <1>4, <1>5

(* One unit more, or none; only where there is something to rank, and      *)
(* first where it is larger.                                               *)
LEMMA ExtraFacts ==
  ASSUME NEW D, NEW r, Ranks(D, r), \A i \in D : r[i] \in Nat,
         NEW left \in Nat, NEW P, P = {i \in D : r[i] > 0}, left <= Cardinality(P)
  PROVE  /\ \A i \in D : Extra(D, r, left, i) \in {0, 1}
         /\ \A i \in D : Extra(D, r, left, i) = 1 => r[i] > 0
         /\ \A i, j \in D : r[i] > r[j] /\ Extra(D, r, left, j) = 1 => Extra(D, r, left, i) = 1
         /\ \A x : (\A i \in D : x[i] = Extra(D, r, left, i)) => SumFunctionOnSet(x, D) = left
<1>3. IsFiniteSet(D) /\ D \subseteq Int
  BY DEF Ranks
<1>4. \A i \in D : r[i] \in Nat
  OBVIOUS
<1>5. Ranks(D, r)
  OBVIOUS
<1>6. \A i \in D : Extra(D, r, left, i) = IF Cardinality(Ahead(D, r, i)) < left THEN 1 ELSE 0
  BY DEF Extra
<1>8. IsFiniteSet(P) /\ Cardinality(P) \in Nat /\ left <= Cardinality(P)
  <2>1. P \subseteq D
    OBVIOUS
  <2> QED
    BY <1>3, <2>1, FS_Subset, FS_CardinalityType
<1>9. ASSUME NEW i \in D, Extra(D, r, left, i) = 1 PROVE r[i] > 0
  <2>1. SUFFICES ASSUME r[i] = 0 PROVE FALSE
    BY <1>4
  <2>2. P \subseteq Ahead(D, r, i)
    BY <2>1 DEF Ahead
  <2>3. IsFiniteSet(Ahead(D, r, i)) /\ Cardinality(Ahead(D, r, i)) \in Nat
    BY <1>5, AheadFacts
  <2>4. Cardinality(P) <= Cardinality(Ahead(D, r, i))
    BY <2>2, <2>3, FS_Subset
  <2>5. Cardinality(Ahead(D, r, i)) < left
    BY <1>6, <1>9
  <2> QED
    BY <1>8, <2>3, <2>4, <2>5
<1>10. ASSUME NEW i \in D, NEW j \in D, r[i] > r[j], Extra(D, r, left, j) = 1
       PROVE  Extra(D, r, left, i) = 1
  <2>1. i \in Ahead(D, r, j)
    BY <1>10 DEF Ahead
  <2>2. /\ Cardinality(Ahead(D, r, i)) < Cardinality(Ahead(D, r, j))
        /\ Cardinality(Ahead(D, r, i)) \in Nat /\ Cardinality(Ahead(D, r, j)) \in Nat
    BY <1>5, <2>1, AheadFacts
  <2>3. Cardinality(Ahead(D, r, j)) < left
    BY <1>6, <1>10
  <2>4. Cardinality(Ahead(D, r, i)) < left
    BY <2>2, <2>3
  <2> QED
    BY <1>6, <2>4
<1>11. left <= Cardinality(D)
  <2>1. P \subseteq D
    OBVIOUS
  <2>2. Cardinality(P) <= Cardinality(D) /\ Cardinality(D) \in Nat
    BY <1>3, <2>1, FS_Subset, FS_CardinalityType
  <2> QED
    BY <1>8, <2>2
<1>12. ASSUME NEW x, \A i \in D : x[i] = Extra(D, r, left, i)
       PROVE  SumFunctionOnSet(x, D) = left
  BY <1>11, <1>12, ExtraCounts
<1>13. \A i \in D : Extra(D, r, left, i) \in {0, 1}
  BY <1>6
<1> QED
  BY <1>9, <1>10, <1>12, <1>13

(* What allocateUnits and allocateProportionally promise.                  *)
IsFairly(share, t, w) ==
  /\ DOMAIN share = DOMAIN w
  /\ \A i \in DOMAIN w : share[i] \in Nat
  /\ SumFunctionOnSet(share, DOMAIN w) = t
  /\ LET all == SumFunctionOnSet(w, DOMAIN w) IN
     \A i \in DOMAIN w :
       /\ share[i] * all - t * w[i] < all /\ t * w[i] - share[i] * all < all
       /\ w[i] = 0 => share[i] = 0
       /\ \A j \in DOMAIN w : w[i] > w[j] => share[i] >= share[j]

LEMMA FairIfRanked ==
  ASSUME NEW t \in Nat, NEW w, Weights(w), NEW f, f = Floors(t, w), NEW r, r = Rests(t, w),
         NEW rank, \A i \in DOMAIN w : rank[i] \in Nat /\ (rank[i] > 0 => r[i] > 0),
         \A i, j \in DOMAIN w : t > 0 /\ w[i] > w[j] /\ f[i] = f[j] => rank[i] > rank[j],
         NEW left \in Nat, left = t - SumFunction(f),
         left <= Cardinality({i \in DOMAIN w : rank[i] > 0}),
         NEW share, DOMAIN share = DOMAIN w,
         \A i \in DOMAIN w : share[i] = f[i] + Extra(DOMAIN w, rank, left, i)
  PROVE  IsFairly(share, t, w)
<1> DEFINE D == DOMAIN w
<1>4. PICK x : x = [i \in D |-> Extra(D, rank, left, i)]
  OBVIOUS
<1>5. PICK all \in Nat : all = SumFunctionOnSet(w, D) /\ all > 0
  BY FloorFacts
<1>6. DOMAIN share = D /\ \A i \in D : share[i] = f[i] + x[i]
  BY <1>4
<1>7. \A i \in D : f[i] \in Nat /\ r[i] \in 0..(all - 1) /\ t * w[i] = all * f[i] + r[i]
  BY <1>5, FloorFacts
<1>2. Ranks(D, rank)
  BY DEF Ranks, Weights
<1>3. PICK P : P = {i \in D : rank[i] > 0}
  OBVIOUS
<1>1. /\ \A i \in D : Extra(D, rank, left, i) \in {0, 1}
      /\ \A i \in D : Extra(D, rank, left, i) = 1 => rank[i] > 0
      /\ \A i, j \in D : rank[i] > rank[j] /\ Extra(D, rank, left, j) = 1
                           => Extra(D, rank, left, i) = 1
      /\ SumFunctionOnSet(x, D) = left
  <2>1. \A i \in D : x[i] = Extra(D, rank, left, i)
    BY <1>4
  <2>2. \A i \in D : rank[i] \in Nat
    OBVIOUS
  <2>3. left <= Cardinality(P)
    BY <1>3
  <2> QED
    BY <1>2, <1>3, <2>1, <2>2, <2>3, ExtraFacts
<1>8. /\ \A i \in D : x[i] \in {0, 1} /\ (x[i] = 1 => r[i] > 0)
      /\ \A i, j \in D : rank[i] > rank[j] /\ x[j] = 1 => x[i] = 1
  BY <1>1, <1>4
<1>9. SumFunctionOnSet(x, D) = t - SumFunction(f)
  BY <1>1
<1>10. IsFiniteSet(D) /\ \A i \in D : w[i] \in Nat
  BY DEF Weights
<1>11. DOMAIN f = D
  BY DEF Floors
<1>12. SumFunctionOnSet(share, D) = t
  <2>1. \A i \in D : f[i] \in Int /\ x[i] \in Int /\ share[i] = f[i] + x[i]
    BY <1>6, <1>7, <1>8
  <2>2. SumFunctionOnSet(share, D) = SumFunctionOnSet(f, D) + SumFunctionOnSet(x, D)
    BY <1>10, <2>1, SumAdds
  <2>3. SumFunctionOnSet(f, D) \in Int
    BY <1>10, <2>1, SumType
  <2>4. SumFunction(f) = SumFunctionOnSet(f, D)
    BY <1>11 DEF SumFunction
  <2> QED
    BY <1>9, <2>2, <2>3, <2>4
<1>13. ASSUME NEW i \in D
       PROVE  /\ share[i] \in Nat
              /\ share[i] * all - t * w[i] < all /\ t * w[i] - share[i] * all < all
              /\ w[i] = 0 => share[i] = 0
  <2>1. PICK a, e, b \in Nat : a = f[i] /\ e = x[i] /\ b = r[i]
    BY <1>7, <1>8
  <2>2. e \in {0, 1} /\ (e = 1 => b > 0) /\ b <= all - 1 /\ share[i] = a + e
    BY <1>6, <1>7, <1>8, <2>1
  <2>3. t * w[i] = all * a + b
    BY <1>7, <2>1
  <2>4. (a + e) * all = all * a + e * all
    OBVIOUS
  <2>5. e * all = IF e = 1 THEN all ELSE 0
    BY <2>2
  <2>6. PICK p \in Int : p = all * a
    OBVIOUS
  <2>7. share[i] * all = p + (IF e = 1 THEN all ELSE 0) /\ t * w[i] = p + b
    BY <2>2, <2>3, <2>4, <2>5, <2>6
  <2>8. share[i] * all - t * w[i] < all /\ t * w[i] - share[i] * all < all
    BY <1>5, <2>2, <2>7
  <2>9. ASSUME w[i] = 0 PROVE share[i] = 0
    <3>1. p + b = 0
      BY <2>7, <2>9
    <3>2. p = 0 /\ b = 0
      BY <2>6, <3>1
    <3>3. a = 0
      BY <1>5, <2>6, <3>2
    <3> QED
      BY <2>2, <3>2, <3>3
  <2> QED
    BY <2>2, <2>8, <2>9
<1>14. ASSUME NEW i \in D, NEW j \in D, w[i] > w[j]
       PROVE  share[i] >= share[j]
  <2>1. PICK a, b, c, d \in Nat : a = f[i] /\ b = r[i] /\ c = f[j] /\ d = r[j]
    BY <1>7
  <2>2. PICK u, v \in Nat : u = w[i] /\ v = w[j]
    BY <1>10
  <2>3. t * u = all * a + b /\ t * v = all * c + d /\ b <= all - 1 /\ d <= all - 1
    BY <1>7, <2>1, <2>2
  <2>4. x[i] \in {0, 1} /\ x[j] \in {0, 1} /\ share[i] = a + x[i] /\ share[j] = c + x[j]
    BY <1>6, <1>8, <2>1
  <2>5. t * u >= t * v
    <3>1. t * (u - v) >= 0
      BY <1>14, <2>2
    <3> QED
      BY <3>1
  <2>6. a >= c
    <3>1. SUFFICES ASSUME a + 1 <= c PROVE FALSE
      OBVIOUS
    <3>2. all * (c - (a + 1)) >= 0
      BY <3>1
    <3>3. all * (c - (a + 1)) = all * c - all * a - all
      OBVIOUS
    <3> QED
      BY <2>3, <2>5, <3>2, <3>3
  <2>7. CASE a > c
    BY <2>4, <2>7
  <2>8. CASE a = c /\ x[j] = 1
    <3>1. rank[j] > 0
      BY <1>1, <1>4, <2>8
    <3>2. t # 0
      <4>1. SUFFICES ASSUME t = 0 PROVE FALSE
        OBVIOUS
      <4>2. d > 0
        BY <2>1, <3>1
      <4>3. all * c + d = 0
        BY <2>3, <4>1
      <4>4. all * c >= 0
        OBVIOUS
      <4> QED
        BY <4>2, <4>3, <4>4
    <3>3. t > 0 /\ f[i] = f[j]
      BY <2>1, <2>8, <3>2
    <3>4. rank[i] > rank[j]
      BY <1>14, <3>3
    <3>5. x[i] = 1
      BY <1>8, <2>8, <3>4
    <3> QED
      BY <2>4, <2>8, <3>5
  <2>9. CASE a = c /\ x[j] = 0
    BY <2>4, <2>9
  <2> QED
    BY <2>4, <2>6, <2>7, <2>8, <2>9
<1> QED
  BY <1>5, <1>6, <1>12, <1>13, <1>14 DEF IsFairly

(* allocateProportionally ranks the exact remainders.                      *)
LEMMA SharesFairly ==
  ASSUME NEW t \in Nat, NEW w, Weights(w)
  PROVE  IsFairly(LargestRemainder(t, w), t, w)
<1> DEFINE D == DOMAIN w
<1>1. PICK share : share = LargestRemainder(t, w)
  OBVIOUS
<1>2. PICK f : f = Floors(t, w)
  OBVIOUS
<1>3. PICK r : r = Rests(t, w)
  OBVIOUS
<1>4. PICK all \in Nat : all = SumFunctionOnSet(w, D) /\ all > 0
  BY FloorFacts
<1>5. \A i \in D : f[i] \in Nat /\ r[i] \in 0..(all - 1) /\ t * w[i] = all * f[i] + r[i]
  BY <1>2, <1>3, <1>4, FloorFacts
<1>6. PICK left \in Nat : left = t - SumFunction(f)
  BY <1>2, <1>3, <1>4, FloorFacts
<1>7. left <= Cardinality({i \in D : r[i] > 0})
  BY <1>2, <1>3, <1>6, LeftOver
<1>8. DOMAIN share = D /\ \A i \in D : share[i] = f[i] + Extra(D, r, left, i)
  BY <1>1, <1>2, <1>3, <1>6, LargestRemainderIs
<1>9. ASSUME NEW i \in D, NEW j \in D, t > 0, w[i] > w[j], f[i] = f[j] PROVE r[i] > r[j]
  <2>1. PICK u, v \in Nat : u = w[i] /\ v = w[j]
    BY DEF Weights
  <2>2. PICK a, b, d \in Nat : a = f[i] /\ b = r[i] /\ d = r[j]
    BY <1>5
  <2>3. t * u = all * a + b /\ t * v = all * a + d
    BY <1>5, <1>9, <2>1, <2>2
  <2>4. t * (u - v) > 0
    BY <1>9, <2>1
  <2>5. t * (u - v) = t * u - t * v
    OBVIOUS
  <2> QED
    BY <2>2, <2>3, <2>4, <2>5
<1>10. \A i \in D : r[i] \in Nat
  BY <1>5
<1> QED
  BY <1>1, <1>2, <1>3, <1>6, <1>7, <1>8, <1>9, <1>10, FairIfRanked

-----------------------------------------------------------------------------
(* Numbers that are cut off after their first digits.                      *)
LEMMA PowersOfDigits ==
  \E N \in Nat :
    /\ N = TenTo[Digits - 1] /\ TenTo[Digits] = 10 * N /\ TenTo[Digits] \in Nat
    /\ Fine = N * N /\ N > 10 /\ Digits - 1 \in Nat /\ TenTo[1] = 10
<1>1. PICK d \in Nat : d = Digits - 1 /\ d >= 2 /\ Digits = d + 1
  <2>1. Digits \in Nat /\ Digits > 2
    BY CalculationsAssumption
  <2>2. Digits - 1 \in Nat /\ Digits - 1 >= 2 /\ Digits = (Digits - 1) + 1
    BY <2>1
  <2> QED
    BY <2>2
<1>2. PICK N \in Nat : N = TenTo[d]
  BY TenToType
<1>3. TenTo[Digits] = 10 * N /\ TenTo[Digits] \in Nat
  BY <1>1, <1>2, TenToIs
<1>4. Fine = N * N
  BY <1>1, <1>2, TenToSum DEF Fine
<1>5. TenTo[1] = 10 /\ TenTo[2] = 100
  <2>1. TenTo[0 + 1] = 10
    BY TenToIs
  <2>2. TenTo[1 + 1] = 10 * TenTo[1]
    BY TenToIs
  <2> QED
    BY <2>1, <2>2
<1>6. N > 10
  <2>1. TenTo[2] <= TenTo[d]
    BY <1>1, PowersShrink
  <2> QED
    BY <1>2, <1>5, <2>1
<1> QED
  BY <1>1, <1>2, <1>3, <1>4, <1>5, <1>6

LEMMA TenToGrows == \A n \in Nat : n < TenTo[n]
<1> DEFINE T == {n \in Nat : n < TenTo[n]}
<1>1. 0 \in T
  BY TenToIs
<1>2. ASSUME NEW n \in Nat, n \in T PROVE n + 1 \in T
  <2>1. PICK p \in Nat : p = TenTo[n] /\ n < p
    BY <1>2, TenToType
  <2>2. TenTo[n + 1] = 10 * p
    BY <2>1, TenToIs
  <2> QED
    BY <2>1, <2>2
<1> HIDE DEF T
<1>3. Nat \subseteq T
  BY <1>1, <1>2, EveryNumber DEF T
<1> QED
  BY <1>3 DEF T

(* How far a number is cut: not at all, or it keeps all its digits.        *)
IsCutAt(n, k) == n < TenTo[Digits + k] /\ (k > 0 => TenTo[Digits + k - 1] <= n)

LEMMA CutExists ==
  ASSUME NEW n \in Nat
  PROVE  \E k \in 0..n : IsCutAt(n, k)
<1>1. Digits \in Nat
  BY CalculationsAssumption
<1>2. PICK T : T = {m \in Nat : n < TenTo[Digits + m]}
  OBVIOUS
<1>3. n \in T
  <2>1. PICK s \in Nat : s = Digits + n /\ n <= s
    BY <1>1
  <2>2. s < TenTo[s] /\ TenTo[s] \in Nat
    BY TenToGrows, TenToType
  <2> QED
    BY <1>2, <2>1, <2>2
<1>4. PICK k \in T : \A m \in T : k <= m
  BY <1>2, <1>3, LeastNumber
<1>5. k \in 0..n /\ n < TenTo[Digits + k]
  BY <1>2, <1>3, <1>4
<1>6. ASSUME k > 0 PROVE TenTo[Digits + k - 1] <= n
  <2>1. PICK m \in Nat : m = k - 1 /\ ~(k <= m)
    BY <1>5, <1>6
  <2>2. ~(n < TenTo[Digits + m])
    BY <1>2, <1>4, <2>1
  <2>3. Digits + k - 1 = Digits + m
    BY <1>1, <1>5, <2>1
  <2>4. Digits + m \in Nat
    BY <1>1
  <2>5. TenTo[Digits + m] \in Nat
    BY <2>4, TenToType
  <2> QED
    BY <2>2, <2>3, <2>5
<1> QED
  BY <1>5, <1>6 DEF IsCutAt

(* N is TenTo[Digits - 1]: what is kept has Digits digits if any are cut.  *)
IsRounded(n, N, k, d) ==
  /\ d = TenTo[k] /\ d > 0 /\ (k = 0 => d = 1)
  /\ RoundDown(n) = (n \div d) * d
  /\ k > 0 => N * d <= n

LEMMA RoundDownIs ==
  ASSUME NEW n \in Nat, NEW N, N = TenTo[Digits - 1]
  PROVE  \E k, d \in Nat : IsRounded(n, N, k, d)
<1>1. PICK k : k = CHOOSE i \in 0..n : IsCutAt(n, i)
  OBVIOUS
<1>2. k \in 0..n /\ IsCutAt(n, k)
  BY <1>1, CutExists
<1>3. k \in Nat
  BY <1>2
<1>4. RoundDown(n) = (n \div TenTo[k]) * TenTo[k]
  BY <1>1 DEF RoundDown, IsCutAt
<1>5. PICK e \in Nat : e = TenTo[k] /\ e > 0
  BY <1>3, TenToType
<1>6. k = 0 => e = 1
  BY <1>5, TenToIs
<1>7. ASSUME k > 0 PROVE N * e <= n
  <2>1. Digits - 1 \in Nat /\ Digits + k - 1 = (Digits - 1) + k
    BY <1>3, CalculationsAssumption
  <2>2. TenTo[(Digits - 1) + k] = TenTo[Digits - 1] * TenTo[k]
    BY <1>3, <2>1, TenToSum
  <2> QED
    BY <1>2, <1>5, <1>7, <2>1, <2>2 DEF IsCutAt
<1>8. IsRounded(n, N, k, e)
  BY <1>4, <1>5, <1>6, <1>7 DEF IsRounded
<1> QED
  BY <1>3, <1>8

LEMMA RoundedDownBelow ==
  ASSUME NEW n \in Nat, NEW q, q = RoundDown(n)
  PROVE  q \in Nat /\ q <= n /\ (n < TenTo[Digits] => q = n)
<1>1. PICK N \in Nat : N = TenTo[Digits - 1] /\ TenTo[Digits] = 10 * N /\ TenTo[Digits] \in Nat
  BY PowersOfDigits
<1>2. PICK k, e \in Nat : IsRounded(n, N, k, e)
  BY <1>1, RoundDownIs
<1>3. /\ e = TenTo[k] /\ e > 0 /\ (k = 0 => e = 1)
      /\ RoundDown(n) = (n \div e) * e
      /\ k > 0 => N * e <= n
  BY <1>2 DEF IsRounded
<1>4. PICK a, b \in Int : a = n \div e /\ b = n % e /\ n = e * a + b /\ 0 <= b /\ b < e /\ a >= 0
  <2>1. e > 0
    BY <1>3
  <2>2. /\ n \div e \in Int /\ n % e \in 0..(e - 1) /\ n = e * (n \div e) + (n % e)
        /\ n \div e >= 0
    BY <2>1, Division
  <2> QED
    BY <2>1, <2>2
<1>5. q = a * e /\ a * e = e * a
  BY <1>3, <1>4
<1>6. q \in Nat /\ q <= n
  BY <1>4, <1>5
<1>7. ASSUME n < TenTo[Digits] PROVE q = n
  <2>1. k = 0
    <3>1. SUFFICES ASSUME k >= 1 PROVE FALSE
      OBVIOUS
    <3>2. TenTo[1] <= TenTo[k]
      BY <3>1, PowersShrink
    <3>3. TenTo[1] = 10
      BY PowersOfDigits
    <3>4. e >= 10
      BY <1>3, <3>2, <3>3
    <3>5. N * (e - 10) >= 0
      BY <3>4
    <3>6. N * (e - 10) = N * e - 10 * N
      OBVIOUS
    <3>7. PICK m \in Nat : m = N * e
      OBVIOUS
    <3>8. m <= n /\ m >= 10 * N
      BY <1>3, <3>1, <3>5, <3>6, <3>7
    <3>9. n < 10 * N
      BY <1>1, <1>7
    <3> QED
      BY <3>8, <3>9
  <2>2. e = 1 /\ b = 0 /\ e * a = a
    BY <1>3, <1>4, <2>1
  <2> QED
    BY <1>4, <1>5, <2>2
<1> QED
  BY <1>6, <1>7

-----------------------------------------------------------------------------
(* One share of allocateUnits: in units of 1/Fine, as it is cut off.       *)
CutShare(t, u, all) == RoundDown((RoundDown(t * u) * Fine) \div all)

LEMMA CutShareBelow ==
  ASSUME NEW t \in Nat, NEW u \in Nat, NEW all \in Nat, all > 0,
         NEW q, q = CutShare(t, u, all)
  PROVE  q \in Nat /\ q \div Fine \in Nat /\ q % Fine \in Nat /\ q \div Fine <= (t * u) \div all
<1>1. PICK N \in Nat : Fine = N * N /\ N > 10
  BY PowersOfDigits
<1>2. PICK f \in Nat : f = Fine /\ f > 0
  BY <1>1
<1>3. PICK p \in Nat : p = t * u
  OBVIOUS
<1>4. PICK s \in Nat : s = RoundDown(p) /\ s <= p
  BY RoundedDownBelow
<1>5. PICK m \in Nat : m = s * f
  OBVIOUS
<1>6. PICK y, c \in Nat : y = m \div all /\ m = all * y + c
  BY Division
<1>7. PICK z \in Nat : z = RoundDown(y) /\ z <= y
  BY RoundedDownBelow
<1>8. q = z
  BY <1>2, <1>3, <1>4, <1>5, <1>6, <1>7 DEF CutShare
<1>9. PICK a, b \in Nat : a = z \div f /\ b = z % f /\ z = f * a + b
  BY <1>2, Division
<1>10. PICK g, r \in Nat : g = p \div all /\ p = all * g + r /\ r < all
  BY Division
<1>11. a <= g
  <2>1. SUFFICES ASSUME a >= g + 1 PROVE FALSE
    OBVIOUS
  <2>2. all * (a - (g + 1)) >= 0
    BY <2>1
  <2>3. all * (a - (g + 1)) = all * a - all * g - all
    OBVIOUS
  <2>4. all * a > p
    <3>1. PICK h, i \in Nat : h = all * a /\ i = all * g
      OBVIOUS
    <3> QED
      BY <1>10, <2>2, <2>3, <3>1
  <2>5. PICK h \in Nat : h = all * a
    OBVIOUS
  <2>6. f * (h - p) > 0
    BY <1>2, <2>4, <2>5
  <2>7. f * (h - p) = f * h - f * p
    OBVIOUS
  <2>8. f * h <= all * z
    <3>1. all * z = all * (f * a) + all * b
      BY <1>9
    <3>2. all * (f * a) = f * (all * a)
      OBVIOUS
    <3>3. all * b >= 0
      OBVIOUS
    <3>4. PICK v, x \in Nat : v = f * h /\ x = all * b
      OBVIOUS
    <3> QED
      BY <2>5, <3>1, <3>2, <3>4
  <2>9. all * z <= m
    <3>1. all * (y - z) >= 0
      BY <1>7
    <3>2. all * (y - z) = all * y - all * z
      OBVIOUS
    <3>3. PICK v, x \in Nat : v = all * y /\ x = all * z
      OBVIOUS
    <3> QED
      BY <1>6, <3>1, <3>2, <3>3
  <2>10. m <= f * p
    <3>1. f * (p - s) >= 0
      BY <1>4
    <3>2. f * (p - s) = f * p - s * f
      OBVIOUS
    <3>3. PICK v \in Nat : v = f * p
      OBVIOUS
    <3> QED
      BY <1>5, <3>1, <3>2, <3>3
  <2>11. PICK v, x, l \in Nat : v = f * h /\ x = f * p /\ l = all * z
    OBVIOUS
  <2> QED
    BY <2>6, <2>7, <2>8, <2>9, <2>10, <2>11
<1> QED
  BY <1>2, <1>3, <1>8, <1>9, <1>10, <1>11

(* What is left over when every share is rounded down.                     *)
LEMMA AllocateUnitsIs ==
  ASSUME NEW t \in Nat, NEW w, Weights(w), NEW all, all = SumFunctionOnSet(w, DOMAIN w),
         NEW rest, rest = [i \in DOMAIN w |-> CutShare(t, w[i], all) % Fine],
         NEW unit, unit = [i \in DOMAIN w |-> CutShare(t, w[i], all) \div Fine],
         NEW left, left = t - SumFunction(unit), NEW n, n = Cardinality(DOMAIN w)
  PROVE  /\ DOMAIN AllocateUnits(t, w) = DOMAIN w
         /\ \A i \in DOMAIN w : AllocateUnits(t, w)[i] =
              unit[i] + left \div n + Extra(DOMAIN w, rest, left % n, i)
         /\ n \in Nat /\ n > 0 /\ left \in Nat
         /\ \A i \in DOMAIN w : unit[i] \in Nat /\ rest[i] \in Nat /\ unit[i] <= Floors(t, w)[i]
<1> DEFINE D == DOMAIN w
<1>1. SumFunction(w) = all
  BY DEF SumFunction
<1>2. AllocateUnits(t, w) =
        [i \in D |-> unit[i] + left \div n + IF PriorityOf(rest, i) < left % n THEN 1 ELSE 0]
  <2>1. PICK exact : exact = [i \in D |-> CutShare(t, w[i], all)]
    OBVIOUS
  <2>2. rest = [i \in D |-> exact[i] % Fine] /\ unit = [i \in D |-> exact[i] \div Fine]
    BY <2>1
  <2>3. exact = [i \in D |-> RoundDown((RoundDown(t * w[i]) * Fine) \div SumFunction(w))]
    BY <1>1, <2>1 DEF CutShare
  <2>4. AllocateUnits(t, w) =
          [i \in D |-> exact[i] \div Fine + left \div n
                         + IF PriorityOf(rest, i) < left % n THEN 1 ELSE 0]
    BY <2>2, <2>3 DEF AllocateUnits
  <2> QED
    BY <2>2, <2>4
<1>3. DOMAIN rest = D /\ DOMAIN unit = D
  OBVIOUS
<1>4. \A i \in D : (IF PriorityOf(rest, i) < left % n THEN 1 ELSE 0) = Extra(D, rest, left % n, i)
  BY <1>3, PriorityIs
<1>5. DOMAIN AllocateUnits(t, w) = D
  BY <1>2
<1>6. ASSUME NEW i \in D
      PROVE  AllocateUnits(t, w)[i] = unit[i] + left \div n + Extra(D, rest, left % n, i)
  BY <1>2, <1>4
<1>7. IsFiniteSet(D) /\ \A i \in D : w[i] \in Nat
  BY DEF Weights
<1>8. PICK f, r : f = Floors(t, w) /\ r = Rests(t, w)
  OBVIOUS
<1>9. /\ all \in Nat /\ all > 0 /\ t - SumFunction(f) \in Nat
      /\ \A i \in D : f[i] \in Nat
  BY <1>8, FloorFacts
<1>10. ASSUME NEW i \in D PROVE unit[i] \in Nat /\ rest[i] \in Nat /\ unit[i] <= f[i]
  <2>1. PICK u \in Nat : u = w[i]
    BY <1>7
  <2>2. PICK q : q = CutShare(t, u, all)
    OBVIOUS
  <2>3. q \div Fine \in Nat /\ q % Fine \in Nat /\ q \div Fine <= (t * u) \div all
    BY <1>9, <2>2, CutShareBelow
  <2>4. unit[i] = q \div Fine /\ rest[i] = q % Fine
    BY <2>1, <2>2
  <2>5. f[i] = (t * u) \div all
    BY <1>1, <1>8, <2>1 DEF Floors
  <2> QED
    BY <2>3, <2>4, <2>5
<1>11. left \in Nat
  <2>1. \A i \in D : unit[i] \in Int /\ f[i] \in Int /\ unit[i] <= f[i]
    BY <1>9, <1>10
  <2>2. SumFunctionOnSet(unit, D) <= SumFunctionOnSet(f, D)
    BY <1>7, <2>1, SumAtMost
  <2>3. DOMAIN f = D
    BY <1>8 DEF Floors
  <2>4. SumFunction(unit) = SumFunctionOnSet(unit, D) /\ SumFunction(f) = SumFunctionOnSet(f, D)
    BY <1>3, <2>3 DEF SumFunction
  <2>5. SumFunctionOnSet(unit, D) \in Int /\ SumFunctionOnSet(f, D) \in Int
    BY <1>7, <2>1, SumType
  <2>6. PICK U, F \in Int : U = SumFunction(unit) /\ F = SumFunction(f)
    BY <2>4, <2>5
  <2>7. U <= F /\ t - F >= 0
    BY <1>9, <2>2, <2>4, <2>6
  <2> QED
    BY <2>6, <2>7
<1>12. n \in Nat /\ n > 0
  <2>1. n \in Nat
    BY <1>7, FS_CardinalityType
  <2>2. n # 0
    <3>1. SUFFICES ASSUME n = 0 PROVE FALSE
      OBVIOUS
    <3>2. D = {}
      BY <1>7, <3>1, FS_EmptySet
    <3>3. SumFunctionOnSet(w, D) = 0
      BY <3>2, SumOfNone
    <3> QED
      BY <1>9, <3>3
  <2> QED
    BY <2>1, <2>2
<1> QED
  BY <1>5, <1>6, <1>8, <1>10, <1>11, <1>12

(* Whatever is cut off, nothing is lost: what is left over is handed out   *)
(* round after round.                                                      *)
LEMMA UnitsAddUp ==
  ASSUME NEW t \in Nat, NEW w, Weights(w), NEW share, share = AllocateUnits(t, w)
  PROVE  /\ DOMAIN share = DOMAIN w
         /\ \A i \in DOMAIN w : share[i] \in Nat
         /\ SumFunctionOnSet(share, DOMAIN w) = t
<1> DEFINE D == DOMAIN w
<1>1. PICK all : all = SumFunctionOnSet(w, D)
  OBVIOUS
<1>2. PICK rest : rest = [i \in D |-> CutShare(t, w[i], all) % Fine]
  OBVIOUS
<1>3. PICK unit : unit = [i \in D |-> CutShare(t, w[i], all) \div Fine]
  OBVIOUS
<1>4. PICK left : left = t - SumFunction(unit)
  OBVIOUS
<1>5. PICK n : n = Cardinality(D)
  OBVIOUS
<1>6. /\ DOMAIN share = D
      /\ \A i \in D : share[i] = unit[i] + left \div n + Extra(D, rest, left % n, i)
      /\ n \in Nat /\ n > 0 /\ left \in Nat
      /\ \A i \in D : unit[i] \in Nat /\ rest[i] \in Nat
  BY <1>1, <1>2, <1>3, <1>4, <1>5, AllocateUnitsIs
<1>7. PICK round, more \in Nat : round = left \div n /\ more = left % n
                                 /\ left = n * round + more /\ more < n
  <2>1. n > 0 /\ left \in Nat /\ n \in Nat
    BY <1>6
  <2>2. /\ left \div n \in Int /\ left % n \in 0..(n - 1) /\ left = n * (left \div n) + (left % n)
        /\ left \div n >= 0
    BY <2>1, Division
  <2> QED
    BY <2>1, <2>2
<1>8. IsFiniteSet(D) /\ D \subseteq Int
  BY DEF Weights
<1>9. Ranks(D, rest)
  BY <1>6, <1>8 DEF Ranks
<1> DEFINE x   == [i \in D |-> Extra(D, rest, more, i)]
           one == [i \in D |-> IF i \in D THEN 1 ELSE 0]
           all1 == [i \in D |-> round * one[i]]
           both == [i \in D |-> all1[i] + x[i]]
<1>10. \A i \in D : x[i] \in Nat /\ x[i] = Extra(D, rest, more, i)
  BY DEF Extra
<1>11. SumFunctionOnSet(x, D) = more
  <2>1. more <= Cardinality(D) /\ \A i \in D : x[i] = Extra(D, rest, more, i)
    BY <1>5, <1>6, <1>7, <1>10
  <2> HIDE DEF x
  <2> QED
    BY <1>9, <2>1, ExtraCounts
<1>12. SumFunctionOnSet(one, D) = n
  <2>1. \A i \in D : one[i] = IF i \in D THEN 1 ELSE 0
    OBVIOUS
  <2>2. D \cap D = D
    OBVIOUS
  <2> HIDE DEF one
  <2>3. SumFunctionOnSet(one, D) = Cardinality(D \cap D)
    BY <1>8, <2>1, SumCounts
  <2> QED
    BY <1>5, <2>2, <2>3
<1>13. \A i \in D : one[i] \in Int /\ one[i] = 1 /\ all1[i] = round * one[i]
  OBVIOUS
<1>14. \A i \in D : all1[i] \in Int /\ x[i] \in Int /\ both[i] = all1[i] + x[i] /\ both[i] \in Int
                    /\ all1[i] = round
  BY <1>10, <1>13
<1> HIDE DEF x, one, all1, both
<1>15. SumFunctionOnSet(all1, D) = round * n
  BY <1>8, <1>12, <1>13, SumTimes
<1>16. SumFunctionOnSet(both, D) = left
  <2>1. SumFunctionOnSet(both, D) = SumFunctionOnSet(all1, D) + SumFunctionOnSet(x, D)
    BY <1>8, <1>14, SumAdds
  <2>2. PICK m \in Nat : m = n * round /\ m = round * n
    BY <1>6, <1>7
  <2> QED
    BY <1>7, <1>11, <1>15, <2>1, <2>2
<1>17. \A i \in D : unit[i] \in Int /\ both[i] \in Int /\ share[i] = unit[i] + both[i]
  <2>1. ASSUME NEW i \in D PROVE unit[i] \in Int /\ both[i] \in Int /\ share[i] = unit[i] + both[i]
    <3>1. PICK a \in Nat : a = unit[i]
      BY <1>6
    <3>2. PICK b \in Nat : b = x[i] /\ b = Extra(D, rest, more, i)
      BY <1>10
    <3>3. share[i] = a + round + b
      BY <1>6, <1>7, <3>1, <3>2
    <3>4. both[i] = round + b
      BY <1>14, <3>2
    <3> QED
      BY <3>1, <3>3, <3>4
  <2> QED
    BY <2>1
<1>18. SumFunctionOnSet(share, D) = SumFunctionOnSet(unit, D) + SumFunctionOnSet(both, D)
  BY <1>8, <1>17, SumAdds
<1>19. SumFunctionOnSet(share, D) = t
  <2>1. SumFunction(unit) = SumFunctionOnSet(unit, D)
    BY <1>3 DEF SumFunction
  <2>2. PICK U \in Int : U = SumFunctionOnSet(unit, D)
    BY <1>8, <1>17, SumType
  <2> QED
    BY <1>4, <1>16, <1>18, <2>1, <2>2
<1>20. \A i \in D : share[i] \in Nat
  <2>1. \A i \in D : both[i] \in Nat
    BY <1>10, <1>14
  <2> QED
    BY <1>6, <1>17, <2>1
<1> QED
  BY <1>6, <1>19, <1>20

(* A share whose product is not cut off: its units are exact, and what is  *)
(* kept of its rest is none only where little was there.                   *)
HalfDigits(N) == N \in Nat /\ N = TenTo[Digits - 1] /\ Fine = N * N /\ N > 10

ShareIsRight(q, p, all, N) ==
  /\ q \in Nat /\ q \div Fine = p \div all
  /\ q % Fine > 0 => p % all > 0
  /\ q % Fine = 0 => N * (p % all) <= p

LEMMA ShareIs ==
  ASSUME NEW t \in Nat, NEW u \in Nat, NEW all \in Nat, all > 0, u <= all,
         NEW N, HalfDigits(N), t < N, all < N,
         NEW p \in Nat, p = t * u, p < TenTo[Digits],
         NEW q, q = CutShare(t, u, all)
  PROVE  ShareIsRight(q, p, all, N)
<1> N \in Nat /\ N = TenTo[Digits - 1] /\ Fine = N * N /\ N > 10
  BY DEF HalfDigits
<1> PICK a, b \in Nat : a = p \div all /\ b = p % all
  BY Division
<1>1. PICK f \in Nat : f = Fine /\ f = N * N /\ f > 0 /\ f >= N
  <2>1. N * (N - 1) >= 0 /\ N * (N - 1) = N * N - N
    OBVIOUS
  <2>2. PICK s \in Nat : s = N * N
    OBVIOUS
  <2> QED
    BY <2>1, <2>2
<1>2. p = all * a + b /\ b < all
  <2>1. p % all \in 0..(all - 1) /\ p = all * (p \div all) + (p % all)
    BY Division
  <2> QED
    BY <2>1
<1>3. RoundDown(p) = p
  BY RoundedDownBelow
<1>4. PICK y, e1 \in Nat : y = (p * f) \div all /\ p * f = all * y + e1 /\ e1 < all
  <2>1. PICK m \in Nat : m = p * f
    OBVIOUS
  <2>2. PICK y, e1 \in Nat : y = m \div all /\ m = all * y + e1 /\ e1 < all
    BY Division
  <2> QED
    BY <2>1, <2>2
<1>5. q = RoundDown(y)
  BY <1>1, <1>3, <1>4 DEF CutShare
<1>6. PICK c, e \in Nat : b * f = all * c + e /\ e < all /\ c < f
  <2>1. PICK m \in Nat : m = b * f
    OBVIOUS
  <2>2. PICK c, e \in Nat : c = m \div all /\ m = all * c + e /\ e < all
    BY Division
  <2>3. c < f
    <3>1. SUFFICES ASSUME c >= f PROVE FALSE
      OBVIOUS
    <3>2. all * (c - f) >= 0 /\ all * (c - f) = all * c - all * f
      BY <3>1
    <3>3. f * (all - b) > 0 /\ f * (all - b) = all * f - b * f
      BY <1>1, <1>2
    <3>4. PICK v, x \in Nat : v = all * c /\ x = all * f
      OBVIOUS
    <3> QED
      BY <2>1, <2>2, <3>2, <3>3, <3>4
  <2> QED
    BY <2>1, <2>2, <2>3
<1>7. y = a * f + c
  <2>1. p * f = all * (a * f) + b * f
    <3>1. (all * a + b) * f = all * (a * f) + b * f
      OBVIOUS
    <3> QED
      BY <1>2, <3>1
  <2>2. all * (a * f + c) = all * (a * f) + all * c
    OBVIOUS
  <2>3. PICK g \in Nat : g = a * f + c
    OBVIOUS
  <2>4. PICK m \in Nat : m = p * f
    OBVIOUS
  <2>5. PICK v, x \in Nat : v = all * (a * f) /\ x = all * c
    OBVIOUS
  <2>6. m = all * g + e
    BY <1>6, <2>1, <2>2, <2>3, <2>4, <2>5
  <2>7. m \div all = g
    BY <1>6, <2>6, DivisionIs
  <2> QED
    BY <1>4, <2>3, <2>4, <2>7
<1>8. all * y <= p * f
  <2>1. PICK v, x \in Nat : v = all * y /\ x = p * f
    OBVIOUS
  <2> QED
    BY <1>4, <2>1
<1>9. y < N * f
  <2>1. SUFFICES ASSUME y >= N * f PROVE FALSE
    OBVIOUS
  <2>2. PICK g \in Nat : g = N * f
    OBVIOUS
  <2>3. all * (y - g) >= 0 /\ all * (y - g) = all * y - all * g
    BY <2>1, <2>2
  <2>4. p <= t * all
    <3>1. t * (all - u) >= 0 /\ t * (all - u) = t * all - t * u
      OBVIOUS
    <3>2. PICK v \in Nat : v = t * all
      OBVIOUS
    <3> QED
      BY <3>1, <3>2
  <2>5. PICK ta \in Nat : ta = t * all /\ p <= ta
    BY <2>4
  <2>6. f * (ta - p) >= 0 /\ f * (ta - p) = f * ta - p * f
    BY <2>5
  <2>7. all * (f * (N - t)) > 0
    <3>1. f * (N - t) > 0
      BY <1>1
    <3>2. PICK v \in Nat : v = f * (N - t) /\ v > 0
      BY <3>1
    <3>3. all * v > 0
      BY <3>2
    <3> QED
      BY <3>2, <3>3
  <2>8. all * (f * (N - t)) = all * (N * f) - f * (t * all)
    OBVIOUS
  <2>9. PICK v, x, z, s \in Nat : v = all * y /\ x = all * g /\ z = p * f /\ s = f * ta
    OBVIOUS
  <2>10. x - s > 0
    BY <2>2, <2>5, <2>7, <2>8, <2>9
  <2>11. v >= x /\ s >= z /\ v <= z
    BY <1>8, <2>3, <2>6, <2>9
  <2> QED
    BY <2>10, <2>11
<1>10. PICK k, d \in Nat : IsRounded(y, N, k, d)
  BY RoundDownIs
<1>11. /\ d = TenTo[k] /\ d > 0 /\ (k = 0 => d = 1)
       /\ RoundDown(y) = (y \div d) * d /\ (k > 0 => N * d <= y)
  BY <1>10 DEF IsRounded
<1>12. PICK G \in Nat : f = d * G /\ G > 0
  <2>1. PICK l \in Nat : l = (Digits - 1) + (Digits - 1) /\ f = TenTo[l]
    <3>1. (Digits - 1) + (Digits - 1) \in Nat
      BY CalculationsAssumption
    <3> QED
      BY <1>1, <3>1 DEF Fine
  <2>2. k <= l
    <3>1. SUFFICES ASSUME l < k PROVE FALSE
      OBVIOUS
    <3>2. f <= d
      BY <1>11, <2>1, <3>1, PowersShrink
    <3>3. N * d <= y
      BY <1>11, <3>1
    <3>4. N * (d - f) >= 0 /\ N * (d - f) = N * d - N * f
      BY <3>2
    <3>5. PICK v, x \in Nat : v = N * d /\ x = N * f
      OBVIOUS
    <3> QED
      BY <1>9, <3>3, <3>4, <3>5
  <2>3. l - k \in Nat /\ TenTo[l] = TenTo[k] * TenTo[l - k]
    BY <2>2, PowersShrink
  <2>4. PICK G \in Nat : G = TenTo[l - k] /\ G > 0
    BY <2>3, TenToType
  <2> QED
    BY <1>11, <2>1, <2>3, <2>4
<1>13. PICK c1, c2 \in Nat : c = d * c1 + c2 /\ c2 < d
  <2>1. d > 0
    BY <1>11
  <2>2. PICK c1, c2 \in Int : c1 = c \div d /\ c2 = c % d
    BY <2>1, Division
  <2>3. c1 >= 0 /\ c2 \in 0..(d - 1) /\ c = d * c1 + c2
    BY <2>1, <2>2, Division
  <2> QED
    BY <2>3
<1>14. q = a * f + c1 * d
  <2>1. PICK h \in Nat : h = a * G + c1
    OBVIOUS
  <2>2. d * (a * G + c1) = a * (d * G) + c1 * d
    OBVIOUS
  <2>3. PICK v, x \in Nat : v = a * f /\ x = c1 * d /\ x = d * c1
    OBVIOUS
  <2>4. d * h = v + x
    BY <1>12, <2>1, <2>2, <2>3
  <2>5. y = d * h + c2
    BY <1>7, <1>13, <2>3, <2>4
  <2>6. d > 0
    BY <1>11
  <2>7. y \div d = h
    BY <1>13, <2>5, <2>6, DivisionIs
  <2>8. h * d = d * h
    OBVIOUS
  <2> QED
    BY <1>5, <1>11, <2>3, <2>4, <2>7, <2>8
<1>15. PICK r \in Nat : r = c1 * d /\ r <= c /\ r < f
  <2>1. PICK r \in Nat : r = c1 * d /\ r = d * c1
    OBVIOUS
  <2> QED
    BY <1>6, <1>13, <2>1
<1>16. q \in Nat /\ q \div f = a /\ q % f = r
  <2>1. q = f * a + r
    BY <1>14, <1>15
  <2>2. q \in Nat
    BY <2>1
  <2>3. f > 0 /\ 0 <= r /\ r < f
    BY <1>1, <1>15
  <2>4. q \div f = a /\ q % f = r
    BY <2>1, <2>2, <2>3, DivisionIs
  <2> QED
    BY <2>2, <2>4
<1>17. ASSUME r > 0 PROVE b > 0
  <2>1. SUFFICES ASSUME b = 0 PROVE FALSE
    OBVIOUS
  <2>2. b * f = 0
    BY <2>1
  <2>3. PICK v \in Nat : v = all * c
    OBVIOUS
  <2>4. v = 0
    BY <1>6, <2>2, <2>3
  <2>5. c > 0
    BY <1>15, <1>17
  <2>6. all * c > 0
    BY <2>5
  <2> QED
    BY <2>3, <2>4, <2>6
<1>18. ASSUME r = 0 PROVE N * b <= p
  <2>1. c1 = 0
    <3>1. SUFFICES ASSUME c1 > 0 PROVE FALSE
      OBVIOUS
    <3>2. d > 0
      BY <1>11
    <3>3. c1 * d > 0
      BY <3>1, <3>2
    <3> QED
      BY <1>15, <1>18, <3>3
  <2>2. c < d
    <3>1. d * c1 = 0
      BY <2>1
    <3> QED
      BY <1>13, <3>1
  <2>3. PICK bf, ad \in Nat : bf = b * f /\ ad = all * d
    OBVIOUS
  <2>4. bf < ad
    <3>1. all * (d - (c + 1)) >= 0 /\ all * (d - (c + 1)) = all * d - all * c - all
      BY <2>2
    <3>2. PICK v \in Nat : v = all * c
      OBVIOUS
    <3> QED
      BY <1>6, <2>3, <3>1, <3>2
  <2>5. CASE k = 0
    <3>1. d = 1
      BY <1>11, <2>5
    <3>2. ad = all
      BY <2>3, <3>1
    <3>3. bf < N
      BY <2>4, <3>2
    <3>4. b = 0
      <4>1. SUFFICES ASSUME b >= 1 PROVE FALSE
        OBVIOUS
      <4>2. f * (b - 1) >= 0 /\ f * (b - 1) = b * f - f
        BY <4>1
      <4> QED
        BY <1>1, <2>3, <3>3, <4>2
    <3>5. N * b = 0
      BY <3>4
    <3> QED
      BY <3>5
  <2>6. CASE k > 0
    <3>1. N * d <= y
      BY <1>11, <2>6
    <3>2. SUFFICES ASSUME N * b > p PROVE FALSE
      OBVIOUS
    <3>3. PICK nb \in Nat : nb = N * b
      OBVIOUS
    <3>4. f * (nb - p) > 0 /\ f * (nb - p) = f * nb - p * f
      BY <1>1, <3>2, <3>3
    <3>5. N * (ad - bf) > 0 /\ N * (ad - bf) = N * ad - N * bf
      BY <2>4
    <3>6. PICK nd \in Nat : nd = N * d /\ nd <= y
      BY <3>1
    <3>7. all * (y - nd) >= 0 /\ all * (y - nd) = all * y - all * nd
      BY <3>6
    <3>8. N * bf = f * nb /\ N * ad = all * nd
      <4>1. N * (b * f) = f * (N * b)
        OBVIOUS
      <4>2. N * (all * d) = all * (N * d)
        OBVIOUS
      <4> QED
        BY <2>3, <3>3, <3>6, <4>1, <4>2
    <3>9. PICK g, h, i, j \in Nat : g = f * nb /\ h = all * nd /\ i = p * f /\ j = all * y
      OBVIOUS
    <3>10. g > i
      BY <3>4, <3>9
    <3>11. h > g
      BY <3>5, <3>8, <3>9
    <3>12. j >= h
      BY <3>7, <3>9
    <3>13. j <= i
      BY <1>8, <3>9
    <3> QED
      BY <3>10, <3>11, <3>12, <3>13
  <2> QED
    BY <2>5, <2>6
<1> QED
  BY <1>1, <1>16, <1>17, <1>18 DEF ShareIsRight

(* A larger weight is cut to a larger number.                              *)
LEMMA ShareOrder ==
  ASSUME NEW t \in Nat, t > 0, NEW u \in Nat, NEW v \in Nat, u > v,
         NEW all \in Nat, all > 0, u <= all,
         NEW N, HalfDigits(N), t < N, all < N,
         t * u < TenTo[Digits], t * v < TenTo[Digits]
  PROVE  CutShare(t, u, all) > CutShare(t, v, all)
<1> N \in Nat /\ N = TenTo[Digits - 1] /\ Fine = N * N /\ N > 10
  BY DEF HalfDigits
<1>1. PICK f \in Nat : f = Fine /\ f = N * N /\ f > 0 /\ f >= N
  <2>1. N * (N - 1) >= 0 /\ N * (N - 1) = N * N - N
    OBVIOUS
  <2>2. PICK s \in Nat : s = N * N
    OBVIOUS
  <2> QED
    BY <2>1, <2>2
<1>2. PICK g, h \in Nat : g = t * u /\ h = t * v
  OBVIOUS
<1>3. RoundDown(g) = g /\ RoundDown(h) = h
  <2>1. g < TenTo[Digits] /\ h < TenTo[Digits]
    BY <1>2
  <2> QED
    BY <2>1, RoundedDownBelow
<1>4. PICK gf, hf \in Nat : gf = g * f /\ hf = h * f
  OBVIOUS
<1>5. PICK y, i \in Nat : y = gf \div all /\ gf = all * y + i /\ i < all
  BY Division
<1>6. PICK z, j \in Nat : z = hf \div all /\ hf = all * z + j /\ j < all
  BY Division
<1>7. CutShare(t, u, all) = RoundDown(y) /\ CutShare(t, v, all) = RoundDown(z)
  BY <1>1, <1>2, <1>3, <1>4, <1>5, <1>6 DEF CutShare
<1>8. PICK k, d \in Nat : IsRounded(y, N, k, d)
  BY RoundDownIs
<1>9. /\ d = TenTo[k] /\ d > 0 /\ (k = 0 => d = 1)
      /\ RoundDown(y) = (y \div d) * d /\ (k > 0 => N * d <= y)
  BY <1>8 DEF IsRounded
<1>10. PICK tf \in Nat : tf = t * f /\ tf >= f
  <2>1. f * (t - 1) >= 0 /\ f * (t - 1) = t * f - f
    OBVIOUS
  <2>2. PICK s \in Nat : s = t * f
    OBVIOUS
  <2> QED
    BY <2>1, <2>2
<1>11. y <= tf
  <2>1. SUFFICES ASSUME y >= tf + 1 PROVE FALSE
    OBVIOUS
  <2>2. all * (y - (tf + 1)) >= 0 /\ all * (y - (tf + 1)) = all * y - all * tf - all
    BY <2>1
  <2>3. tf * (all - u) >= 0 /\ tf * (all - u) = all * tf - tf * u
    OBVIOUS
  <2>4. tf * u = gf
    <3>1. (t * f) * u = (t * u) * f
      OBVIOUS
    <3> QED
      BY <1>2, <1>4, <1>10, <3>1
  <2>5. PICK s, x \in Nat : s = all * y /\ x = all * tf
    OBVIOUS
  <2> QED
    BY <1>5, <2>2, <2>3, <2>4, <2>5
<1>12. all * d <= tf
  <2>1. CASE k = 0
    <3>1. all * d = all
      BY <1>9, <2>1
    <3> QED
      BY <1>1, <1>10, <3>1
  <2>2. CASE k > 0
    <3>1. N * d <= y
      BY <1>9, <2>2
    <3>2. d * (N - all) >= 0 /\ d * (N - all) = N * d - all * d
      OBVIOUS
    <3>3. PICK s, x \in Nat : s = N * d /\ x = all * d
      OBVIOUS
    <3> QED
      BY <1>11, <3>1, <3>2, <3>3
  <2> QED
    BY <2>1, <2>2
<1>13. gf - hf >= tf
  <2>1. tf * (u - v - 1) >= 0
    OBVIOUS
  <2>2. (t * f) * (u - v - 1) = (t * u) * f - (t * v) * f - t * f
    OBVIOUS
  <2> QED
    BY <1>2, <1>4, <1>10, <2>1, <2>2
<1>14. y - z >= d
  <2>1. SUFFICES ASSUME y - z <= d - 1 PROVE FALSE
    OBVIOUS
  <2>2. all * (d - 1 - (y - z)) >= 0
    BY <2>1
  <2>3. all * (d - 1 - (y - z)) = all * d - all - all * y + all * z
    OBVIOUS
  <2>4. PICK a1, a2, a3 \in Nat : a1 = all * d /\ a2 = all * y /\ a3 = all * z
    OBVIOUS
  <2> QED
    BY <1>5, <1>6, <1>12, <1>13, <2>2, <2>3, <2>4
<1>15. PICK m, l \in Nat : m = y \div d /\ y = d * m + l /\ l < d
  <2>1. d > 0
    BY <1>9
  <2>2. y \div d \in Int /\ y % d \in 0..(d - 1) /\ y = d * (y \div d) + (y % d) /\ y \div d >= 0
    BY <2>1, Division
  <2> QED
    BY <2>2
<1>16. RoundDown(y) = m * d /\ m * d = d * m
  BY <1>9, <1>15
<1>17. RoundDown(z) \in Nat /\ RoundDown(z) <= z
  BY RoundedDownBelow
<1>18. PICK s \in Nat : s = d * m
  OBVIOUS
<1>19. s > z
  BY <1>14, <1>15, <1>18
<1> QED
  BY <1>7, <1>16, <1>17, <1>18, <1>19

(* Not more units are left over than there are shares with something kept  *)
(* of their rest.                                                          *)
LEMMA CutLeftOver ==
  ASSUME NEW t \in Nat, NEW w, Weights(w), NEW f, f = Floors(t, w), NEW r, r = Rests(t, w),
         NEW N \in Nat, N > 0, t < N, NEW rank,
         \A i \in DOMAIN w : rank[i] \in Nat /\ (rank[i] = 0 => N * r[i] <= t * w[i]),
         NEW P, P = {i \in DOMAIN w : rank[i] > 0}
  PROVE  t - SumFunction(f) <= Cardinality(P)
<1> DEFINE D == DOMAIN w
<1>1. PICK all \in Nat : all = SumFunctionOnSet(w, D) /\ all > 0
  BY FloorFacts
<1>2. PICK left \in Nat : left = t - SumFunction(f) /\ all * left = SumFunctionOnSet(r, D)
  BY <1>1, FloorFacts
<1>3. \A i \in D : r[i] \in 0..(all - 1)
  BY <1>1, FloorFacts
<1>4. IsFiniteSet(D) /\ \A i \in D : w[i] \in Nat
  BY DEF Weights
<1>5. IsFiniteSet(P) /\ Cardinality(P) \in Nat
  <2>1. P \subseteq D
    OBVIOUS
  <2> QED
    BY <1>4, <2>1, FS_Subset, FS_CardinalityType
<1>6. PICK na \in Nat : na = N * all
  BY <1>1
<1> DEFINE one == [i \in D |-> IF i \in P THEN 1 ELSE 0]
           low == [i \in D |-> N * r[i]]
           cap == [i \in D |-> na * one[i]]
           own == [i \in D |-> t * w[i]]
           top == [i \in D |-> own[i] + cap[i]]
<1>7. \A i \in D : /\ one[i] = (IF i \in P THEN 1 ELSE 0) /\ one[i] \in Int
                   /\ low[i] = N * r[i] /\ r[i] \in Int
                   /\ cap[i] = na * one[i] /\ own[i] = t * w[i] /\ w[i] \in Int
                   /\ top[i] = own[i] + cap[i]
  BY <1>3, <1>4
<1> HIDE DEF one, low, cap, own, top
<1>8. \A i \in D : own[i] \in Int /\ cap[i] \in Int /\ low[i] \in Int /\ top[i] \in Int
                   /\ low[i] <= top[i]
  <2> SUFFICES ASSUME NEW i \in D
               PROVE  own[i] \in Int /\ cap[i] \in Int /\ low[i] \in Int /\ top[i] \in Int
                      /\ low[i] <= top[i]
    OBVIOUS
  <2>1. PICK b \in Nat : b = r[i] /\ b <= all - 1
    BY <1>3
  <2>2. PICK u \in Nat : u = w[i]
    BY <1>4
  <2>3. PICK m, l \in Nat : m = t * u /\ l = N * b
    OBVIOUS
  <2>4. own[i] = m /\ low[i] = l
    BY <1>7, <2>1, <2>2, <2>3
  <2>5. CASE i \in P
    <3>1. cap[i] = na
      <4>1. one[i] = 1 /\ cap[i] = na * one[i]
        BY <1>7, <2>5
      <4> QED
        BY <4>1
    <3>2. l <= na
      <4>1. N * (all - b) >= 0 /\ N * (all - b) = N * all - N * b
        BY <2>1
      <4> QED
        BY <1>6, <2>3, <4>1
    <3>3. top[i] = m + na
      BY <1>7, <2>4, <3>1
    <3> QED
      BY <2>4, <3>1, <3>2, <3>3
  <2>6. CASE i \notin P
    <3>1. cap[i] = 0
      <4>1. one[i] = 0 /\ cap[i] = na * one[i]
        BY <1>7, <2>6
      <4> QED
        BY <4>1
    <3>2. rank[i] = 0
      BY <2>6
    <3>3. l <= m
      BY <2>1, <2>2, <2>3, <3>2
    <3>4. top[i] = m
      BY <1>7, <2>4, <3>1
    <3> QED
      BY <2>4, <3>1, <3>3, <3>4
  <2> QED
    BY <2>5, <2>6
<1>9. SumFunctionOnSet(low, D) <= SumFunctionOnSet(top, D)
  BY <1>4, <1>8, SumAtMost
<1>10. SumFunctionOnSet(low, D) = N * (all * left)
  <2>1. SumFunctionOnSet(low, D) = N * SumFunctionOnSet(r, D)
    BY <1>4, <1>7, SumTimes
  <2> QED
    BY <1>2, <2>1
<1>11. PICK p \in Nat : p = Cardinality(P)
  BY <1>5
<1>12. SumFunctionOnSet(cap, D) = na * p
  <2>1. SumFunctionOnSet(cap, D) = na * SumFunctionOnSet(one, D)
    BY <1>4, <1>7, SumTimes
  <2>2. SumFunctionOnSet(one, D) = Cardinality(D \cap P)
    BY <1>4, <1>7, SumCounts
  <2>3. D \cap P = P
    OBVIOUS
  <2> QED
    BY <1>11, <2>1, <2>2, <2>3
<1>13. SumFunctionOnSet(own, D) = t * all
  BY <1>1, <1>4, <1>7, SumTimes
<1>14. SumFunctionOnSet(top, D) = SumFunctionOnSet(own, D) + SumFunctionOnSet(cap, D)
  BY <1>4, <1>7, <1>8, SumAdds
<1>15. left <= p
  <2>1. SUFFICES ASSUME left >= p + 1 PROVE FALSE
    OBVIOUS
  <2>2. PICK ta, nl, np \in Nat : ta = t * all /\ nl = N * (all * left) /\ np = na * p
    OBVIOUS
  <2>3. nl <= ta + np
    BY <1>9, <1>10, <1>12, <1>13, <1>14, <2>2
  <2>4. nl = na * left
    <3>1. N * (all * left) = (N * all) * left
      OBVIOUS
    <3> QED
      BY <1>6, <2>2, <3>1
  <2>5. na * (left - (p + 1)) >= 0 /\ na * (left - (p + 1)) = na * left - na * p - na
    BY <2>1
  <2>6. all * (N - t) > 0 /\ all * (N - t) = N * all - t * all
    BY <1>1
  <2>7. nl >= np + na
    BY <2>2, <2>4, <2>5
  <2>8. na > ta
    BY <1>6, <2>2, <2>6
  <2> QED
    BY <2>3, <2>7, <2>8
<1> QED
  BY <1>2, <1>11, <1>15

(* What allocateUnits promises as long as no digit of a product is lost.   *)
LEMMA UnitsFairly ==
  ASSUME NEW t \in Nat, NEW w, Weights(w), NEW all, all = SumFunctionOnSet(w, DOMAIN w),
         FewDigits(t), FewDigits(all), t * all < TenTo[Digits],
         NEW share, share = AllocateUnits(t, w)
  PROVE  IsFairly(share, t, w)
<1> DEFINE D == DOMAIN w
<1>1. PICK N \in Nat : /\ N = TenTo[Digits - 1] /\ TenTo[Digits] = 10 * N /\ TenTo[Digits] \in Nat
                       /\ Fine = N * N /\ N > 10
  BY PowersOfDigits
<1>2. PICK f : f = Floors(t, w)
  OBVIOUS
<1>3. PICK r : r = Rests(t, w)
  OBVIOUS
<1>4. /\ all \in Nat /\ all > 0
      /\ \A i \in D : f[i] \in Nat /\ r[i] \in 0..(all - 1)
  BY <1>2, <1>3, FloorFacts
<1>5. t < N /\ all < N
  BY <1>1, <1>4 DEF FewDigits, Magnitude
<1>6. PICK rank : rank = [i \in D |-> CutShare(t, w[i], all) % Fine]
  OBVIOUS
<1>7. PICK unit : unit = [i \in D |-> CutShare(t, w[i], all) \div Fine]
  OBVIOUS
<1>8. SumFunction(w) = all
  BY DEF SumFunction
<1>9. IsFiniteSet(D) /\ D \subseteq Int /\ \A i \in D : w[i] \in Nat
  BY DEF Weights
<1>10. ASSUME NEW i \in D
       PROVE  w[i] \in Nat /\ w[i] <= all /\ t * w[i] < TenTo[Digits]
  <2>1. PICK u \in Nat : u = w[i]
    BY <1>9
  <2>2. \A x \in D : w[x] \in Int
    BY <1>9
  <2>3. all = w[i] + SumFunctionOnSet(w, D \ {i})
    BY <1>9, <2>2, SumWithout
  <2>4. IsFiniteSet(D \ {i}) /\ \A x \in D \ {i} : w[x] \in Nat
    BY <1>9, FS_RemoveElement
  <2>5. PICK v \in Nat : v = SumFunctionOnSet(w, D \ {i})
    BY <2>4, SumNotNegative
  <2>6. all = u + v
    BY <2>1, <2>3, <2>5
  <2>7. t * (u + v) = t * u + t * v
    OBVIOUS
  <2>8. PICK x, y \in Nat : x = t * u /\ y = t * v
    OBVIOUS
  <2>9. x + y < TenTo[Digits]
    BY <2>6, <2>7, <2>8
  <2>10. x < TenTo[Digits]
    BY <1>1, <2>8, <2>9
  <2> QED
    BY <2>1, <2>6, <2>8, <2>10
<1>11. ASSUME NEW i \in D
       PROVE  /\ rank[i] \in Nat /\ unit[i] = f[i]
              /\ CutShare(t, w[i], all) = Fine * f[i] + rank[i]
              /\ rank[i] > 0 => r[i] > 0
              /\ rank[i] = 0 => N * r[i] <= t * w[i]
  <2>1. PICK u \in Nat : u = w[i] /\ u <= all
    BY <1>10
  <2>2. PICK p \in Nat : p = t * u
    OBVIOUS
  <2>3. p < TenTo[Digits]
    BY <1>10, <2>1, <2>2
  <2>4. PICK q : q = CutShare(t, u, all)
    OBVIOUS
  <2>5. PICK a, b \in Nat : a = p \div all /\ b = p % all /\ a = f[i] /\ b = r[i]
    <3>1. f[i] = (t * w[i]) \div all /\ r[i] = (t * w[i]) % all
      BY <1>2, <1>3, <1>8 DEF Floors, Rests
    <3> QED
      BY <1>4, <2>1, <2>2, <3>1
  <2>6. /\ q \in Nat /\ q \div Fine = a
        /\ q % Fine > 0 => b > 0
        /\ q % Fine = 0 => N * b <= p
    <3>1. HalfDigits(N)
      BY <1>1 DEF HalfDigits
    <3>2. all \in Nat /\ all > 0 /\ u <= all
      BY <1>4, <2>1
    <3>3. ShareIsRight(q, p, all, N)
      BY <1>5, <2>2, <2>3, <2>4, <3>1, <3>2, ShareIs
    <3> QED
      BY <2>5, <3>3 DEF ShareIsRight
  <2>7. PICK g \in Nat : g = Fine /\ g > 0
    BY <1>1
  <2>8. q % g \in Nat /\ q = g * (q \div g) + (q % g)
    BY <2>6, <2>7, Division
  <2>9. rank[i] = q % Fine /\ unit[i] = q \div Fine
    BY <1>6, <1>7, <2>1, <2>4
  <2> QED
    BY <2>1, <2>2, <2>4, <2>5, <2>6, <2>7, <2>8, <2>9
<1>12. ASSUME NEW i \in D, NEW j \in D, t > 0, w[i] > w[j], f[i] = f[j] PROVE rank[i] > rank[j]
  <2>1. PICK u, v \in Nat : u = w[i] /\ v = w[j] /\ u > v /\ u <= all
    BY <1>10, <1>12
  <2>2. t * u < TenTo[Digits] /\ t * v < TenTo[Digits]
    BY <1>10, <2>1
  <2>3. CutShare(t, u, all) > CutShare(t, v, all)
    <3>1. HalfDigits(N)
      BY <1>1 DEF HalfDigits
    <3> QED
      BY <1>4, <1>5, <1>12, <2>1, <2>2, <3>1, ShareOrder
  <2>4. PICK a, b, d, g \in Nat : a = f[i] /\ b = rank[i] /\ d = rank[j] /\ g = Fine
    <3>1. f[i] \in Nat /\ rank[i] \in Nat /\ rank[j] \in Nat
      BY <1>4, <1>11
    <3>2. N * N \in Nat /\ Fine \in Nat
      BY <1>1
    <3> QED
      BY <3>1, <3>2
  <2>5. CutShare(t, u, all) = g * a + b /\ CutShare(t, v, all) = g * a + d
    BY <1>11, <1>12, <2>1, <2>4
  <2>6. PICK m \in Nat : m = g * a
    OBVIOUS
  <2>7. b > d
    BY <2>3, <2>5, <2>6
  <2> QED
    BY <2>4, <2>7
<1>13. unit = f
  <2>1. f = [i \in D |-> (t * w[i]) \div all]
    BY <1>2, <1>8 DEF Floors
  <2>2. \A i \in D : unit[i] = f[i]
    BY <1>11
  <2> QED
    BY <1>7, <2>1, <2>2
<1>14. PICK left \in Nat : left = t - SumFunction(f)
  BY <1>2, <1>3, FloorFacts
<1>15. PICK P : P = {i \in D : rank[i] > 0}
  OBVIOUS
<1>16. left <= Cardinality(P)
  <2>1. \A i \in D : rank[i] \in Nat /\ (rank[i] = 0 => N * r[i] <= t * w[i])
    BY <1>11
  <2>2. N > 0
    BY <1>1
  <2>3. t - SumFunction(f) <= Cardinality(P)
    BY <1>2, <1>3, <1>5, <1>15, <2>1, <2>2, CutLeftOver
  <2> QED
    BY <1>14, <2>3
<1>17. PICK n : n = Cardinality(D)
  OBVIOUS
<1>18. /\ DOMAIN share = D
       /\ \A i \in D : share[i] = f[i] + left \div n + Extra(D, rank, left % n, i)
       /\ n \in Nat /\ n > 0
  BY <1>6, <1>7, <1>13, <1>14, <1>17, AllocateUnitsIs
<1>19. left <= n
  <2>1. P \subseteq D
    BY <1>15
  <2>2. Cardinality(P) <= Cardinality(D) /\ Cardinality(P) \in Nat
    BY <1>9, <2>1, FS_Subset, FS_CardinalityType
  <2> QED
    BY <1>16, <1>17, <1>18, <2>2
<1>20. ASSUME NEW i \in D PROVE share[i] = f[i] + Extra(D, rank, left, i)
  <2>1. PICK before \in Nat : before = Cardinality(Ahead(D, rank, i)) /\ before < n
    <3>1. Ahead(D, rank, i) \subseteq D \ {i} /\ IsFiniteSet(D \ {i})
      <4>1. rank[i] \in Int /\ i \in Int
        BY <1>9, <1>11
      <4>2. i \notin Ahead(D, rank, i)
        BY <4>1 DEF Ahead
      <4> QED
        BY <1>9, <4>2, FS_RemoveElement DEF Ahead
    <3>2. Cardinality(D \ {i}) = n - 1
      BY <1>9, <1>17, FS_RemoveElement
    <3>3. IsFiniteSet(Ahead(D, rank, i)) /\ Cardinality(Ahead(D, rank, i)) <= Cardinality(D \ {i})
      BY <3>1, FS_Subset
    <3>4. Cardinality(Ahead(D, rank, i)) \in Nat
      BY <3>3, FS_CardinalityType
    <3> QED
      BY <1>18, <3>2, <3>3, <3>4
  <2>2. PICK a \in Nat : a = f[i]
    BY <1>4
  <2>3. /\ Extra(D, rank, left % n, i) = IF before < left % n THEN 1 ELSE 0
        /\ Extra(D, rank, left, i) = IF before < left THEN 1 ELSE 0
    BY <2>1 DEF Extra
  <2>4. share[i] = a + left \div n + Extra(D, rank, left % n, i)
    BY <1>18, <2>2
  <2>5. CASE left < n
    <3>1. left \div n = 0 /\ left % n = left
      BY <1>18, <2>5
    <3> QED
      BY <2>2, <2>3, <2>4, <3>1
  <2>6. CASE left = n
    <3>1. left = n * 1 + 0 /\ n > 0 /\ 0 < n
      BY <1>18, <2>6
    <3>2. left \div n = 1 /\ left % n = 0
      BY <1>18, <3>1, DivisionIs
    <3> QED
      BY <2>1, <2>2, <2>3, <2>4, <2>6, <3>2
  <2> QED
    BY <1>18, <1>19, <2>5, <2>6
<1>21. \A i \in D : rank[i] \in Nat /\ (rank[i] > 0 => r[i] > 0)
  BY <1>11
<1>22. left <= Cardinality({i \in D : rank[i] > 0})
  BY <1>15, <1>16
<1>23. \A i, j \in D : t > 0 /\ w[i] > w[j] /\ f[i] = f[j] => rank[i] > rank[j]
  BY <1>12
<1>24. \A i \in D : share[i] = f[i] + Extra(D, rank, left, i)
  BY <1>20
<1>25. DOMAIN share = D
  BY <1>18
<1> QED
  BY <1>2, <1>3, <1>14, <1>21, <1>22, <1>23, <1>24, <1>25, FairIfRanked, SMTT(60)

-----------------------------------------------------------------------------
(* Sums over two parts, and over the parts that a category makes.          *)
LEMMA SumOfBoth ==
  ASSUME NEW f, NEW A, NEW B, IsFiniteSet(A), IsFiniteSet(B), A \cap B = {},
         \A x \in A \cup B : f[x] \in Int
  PROVE  SumFunctionOnSet(f, A \cup B) = SumFunctionOnSet(f, A) + SumFunctionOnSet(f, B)
<1> DEFINE T == {s \in SUBSET B :
                   SumFunctionOnSet(f, A \cup s) = SumFunctionOnSet(f, A) + SumFunctionOnSet(f, s)}
<1>1. SumFunctionOnSet(f, A) \in Int
  BY SumType
<1>2. ASSUME NEW s \in SUBSET B, \A x \in s : s \ {x} \in T PROVE s \in T
  <2>1. IsFiniteSet(s)
    BY FS_Subset
  <2>2. CASE s = {}
    <3>1. A \cup s = A
      BY <2>2
    <3>2. SumFunctionOnSet(f, s) = 0
      BY <2>2, SumOfNone
    <3>3. PICK a \in Int : a = SumFunctionOnSet(f, A)
      BY <1>1
    <3>4. SumFunctionOnSet(f, A \cup s) = a
      BY <3>1, <3>3
    <3>5. a = a + SumFunctionOnSet(f, s)
      BY <3>2
    <3>6. SumFunctionOnSet(f, A \cup s) = SumFunctionOnSet(f, A) + SumFunctionOnSet(f, s)
      BY <3>3, <3>4, <3>5
    <3> QED
      BY <3>6
  <2>3. CASE s # {}
    <3>1. PICK x : x \in s
      BY <2>3
    <3>2. PICK U : U = A \cup s
      OBVIOUS
    <3>3. IsFiniteSet(U) /\ x \in U /\ \A y \in U : f[y] \in Int
      BY <2>1, <3>1, <3>2, FS_Union
    <3>4. SumFunctionOnSet(f, U) = f[x] + SumFunctionOnSet(f, U \ {x})
      BY <3>3, SumWithout
    <3>5. SumFunctionOnSet(f, s) = f[x] + SumFunctionOnSet(f, s \ {x})
      BY <2>1, <3>1, SumWithout
    <3>6. U \ {x} = A \cup (s \ {x})
      BY <3>1, <3>2
    <3>7. SumFunctionOnSet(f, A \cup (s \ {x})) = SumFunctionOnSet(f, A) + SumFunctionOnSet(f, s \ {x})
      BY <1>2, <3>1
    <3>8. IsFiniteSet(s \ {x}) /\ \A y \in s \ {x} : f[y] \in Int
      BY <2>1, FS_RemoveElement
    <3>9. PICK a, b, c \in Int : /\ a = SumFunctionOnSet(f, A) /\ c = f[x]
                                 /\ b = SumFunctionOnSet(f, s \ {x})
      BY <1>1, <3>1, <3>8, SumType
    <3>10. SumFunctionOnSet(f, U) = SumFunctionOnSet(f, A) + SumFunctionOnSet(f, s)
      <4>1. SumFunctionOnSet(f, s) = c + b
        BY <3>5, <3>9
      <4>2. SumFunctionOnSet(f, U \ {x}) = a + b
        BY <3>6, <3>7, <3>9
      <4>3. SumFunctionOnSet(f, U) = c + (a + b)
        BY <3>4, <3>9, <4>2
      <4>4. c + (a + b) = a + (c + b)
        OBVIOUS
      <4> QED
        BY <3>9, <4>1, <4>3, <4>4
    <3>11. SumFunctionOnSet(f, A \cup s) = SumFunctionOnSet(f, A) + SumFunctionOnSet(f, s)
      BY <3>2, <3>10
    <3> QED
      BY <3>11
  <2> QED
    BY <2>2, <2>3
<1> HIDE DEF T
<1>3. SUBSET B \subseteq T
  BY <1>2, EverySubset
<1> QED
  BY <1>3 DEF T

Part(S, category, c)   == {x \in S : category[x] = c}
Within(S, category, C) == {x \in S : category[x] \in C}

LEMMA SumOfParts ==
  ASSUME NEW f, NEW S, IsFiniteSet(S), \A x \in S : f[x] \in Int,
         NEW category, NEW C, IsFiniteSet(C), \A x \in S : category[x] \in C,
         NEW g, \A c \in C : g[c] = SumFunctionOnSet(f, Part(S, category, c))
  PROVE  SumFunctionOnSet(g, C) = SumFunctionOnSet(f, S)
<1> DEFINE T == {s \in SUBSET C :
                   SumFunctionOnSet(g, s) = SumFunctionOnSet(f, Within(S, category, s))}
<1>1. ASSUME NEW s \in SUBSET C, \A x \in s : s \ {x} \in T PROVE s \in T
  <2>1. IsFiniteSet(s)
    BY FS_Subset
  <2>2. CASE s = {}
    <3>1. Within(S, category, s) = {}
      BY <2>2 DEF Within
    <3> QED
      BY <2>2, <3>1, SumOfNone
  <2>3. CASE s # {}
    <3>1. PICK c \in s : c = Some(s)
      BY <2>3 DEF Some
    <3>2. SumFunctionOnSet(g, s) = g[c] + SumFunctionOnSet(g, s \ {c})
      BY <2>1, <2>3, <3>1, SumUnfolds
    <3>3. PICK A : A = Part(S, category, c)
      OBVIOUS
    <3>4. PICK B : B = Within(S, category, s \ {c})
      OBVIOUS
    <3>5. A \subseteq S /\ B \subseteq S /\ A \cap B = {} /\ A \cup B = Within(S, category, s)
      BY <3>1, <3>3, <3>4 DEF Part, Within
    <3>6. IsFiniteSet(A) /\ IsFiniteSet(B) /\ \A x \in A \cup B : f[x] \in Int
      BY <3>5, FS_Subset
    <3>7. SumFunctionOnSet(f, A \cup B) = SumFunctionOnSet(f, A) + SumFunctionOnSet(f, B)
      BY <3>5, <3>6, SumOfBoth
    <3>8. g[c] = SumFunctionOnSet(f, A)
      BY <3>1, <3>3
    <3>9. SumFunctionOnSet(g, s \ {c}) = SumFunctionOnSet(f, B)
      BY <1>1, <3>1, <3>4
    <3> QED
      BY <3>2, <3>5, <3>7, <3>8, <3>9
  <2> QED
    BY <2>2, <2>3
<1> HIDE DEF T
<1>2. SUBSET C \subseteq T
  BY <1>1, EverySubset
<1>3. Within(S, category, C) = S
  BY DEF Within
<1> QED
  BY <1>2, <1>3 DEF T

LEMMA SumOfTwo ==
  ASSUME NEW w, w[1] \in Int, w[2] \in Int
  PROVE  SumFunctionOnSet(w, {1, 2}) = w[1] + w[2]
<1>1. PICK S : S = {1, 2}
  OBVIOUS
<1>2. IsFiniteSet(S)
  <2>1. S = {1} \cup {2}
    BY <1>1
  <2> QED
    BY <2>1, FS_Singleton, FS_Union
<1>3. S \ {1} = {2} /\ 1 \in S
  BY <1>1
<1>4. \A x \in S : w[x] \in Int
  BY <1>1
<1>5. SumFunctionOnSet(w, S) = w[1] + SumFunctionOnSet(w, S \ {1})
  BY <1>2, <1>3, <1>4, SumWithout
<1>6. SumFunctionOnSet(w, {2}) = w[2]
  BY SumOfOne
<1> QED
  BY <1>1, <1>3, <1>5, <1>6

LEMMA SumOfPair ==
  ASSUME NEW a \in Int, NEW b \in Int
  PROVE  SumFunction(<<a, b>>) = a + b
<1>1. PICK w : w = <<a, b>>
  OBVIOUS
<1>2. DOMAIN w = {1, 2} /\ w[1] = a /\ w[2] = b
  BY <1>1
<1>3. SumFunctionOnSet(w, {1, 2}) = w[1] + w[2]
  BY <1>2, SumOfTwo
<1>4. SumFunction(w) = SumFunctionOnSet(w, {1, 2})
  BY <1>2 DEF SumFunction
<1> QED
  BY <1>1, <1>2, <1>3, <1>4

LEMMA SequenceWeights ==
  ASSUME NEW w \in Seq(Nat), SumFunction(w) > 0
  PROVE  Weights(w)
<1>1. DOMAIN w = 1..Len(w) /\ Len(w) \in Nat
  OBVIOUS
<1>2. IsFiniteSet(DOMAIN w) /\ DOMAIN w \subseteq Int
  BY <1>1, FS_Interval
<1> QED
  BY <1>2 DEF Weights, SumFunction

(* Fair shares, of either sign, meet the quota.                            *)
LEMMA FairQuota ==
  ASSUME NEW t \in Nat, NEW w, Weights(w), NEW fair, IsFairly(fair, t, w),
         NEW a \in {1, -1}, NEW share, DOMAIN share = DOMAIN w,
         \A i \in DOMAIN w : share[i] = a * fair[i], NEW total, total = a * t
  PROVE  SumFunction(share) = total /\ Quota(total, w, share)
<1> DEFINE D == DOMAIN w
<1>1. PICK all \in Nat : all = SumFunctionOnSet(w, D) /\ all > 0 /\ SumFunction(w) = all
  <2>1. \A i \in D : w[i] \in Nat
    BY DEF Weights
  <2>2. SumFunctionOnSet(w, D) \in Nat
    BY <2>1, SumNotNegative DEF Weights
  <2> QED
    BY <2>2 DEF Weights, SumFunction
<1>2. \A i \in D : fair[i] \in Nat /\ w[i] \in Nat
  BY DEF IsFairly, Weights
<1>3. SumFunction(share) = total
  <2>1. \A i \in D : fair[i] \in Int /\ share[i] = a * fair[i]
    BY <1>2
  <2>2. SumFunctionOnSet(share, D) = a * SumFunctionOnSet(fair, D)
    BY <2>1, SumTimes DEF Weights
  <2> QED
    BY <2>2 DEF IsFairly, SumFunction
<1>4. ASSUME NEW i \in D
      PROVE  /\ Magnitude(share[i] * all - total * w[i]) < all
             /\ w[i] = 0 => share[i] = 0
             /\ \A j \in D : w[i] > w[j] => Magnitude(share[i]) >= Magnitude(share[j])
  <2>1. PICK s, v \in Nat : s = fair[i] /\ v = w[i]
    BY <1>2
  <2>2. PICK p, q \in Int : p = s * all /\ q = t * v
    OBVIOUS
  <2>3. p - q < all /\ q - p < all /\ (v = 0 => s = 0)
    BY <1>1, <2>1, <2>2 DEF IsFairly
  <2>4. share[i] = a * s /\ (a * s) * all = a * p /\ (a * t) * v = a * q
    <3>1. share[i] = a * s
      BY <2>1
    <3>2. (a * s) * all = a * (s * all) /\ (a * t) * v = a * (t * v)
      OBVIOUS
    <3> QED
      BY <2>2, <3>1, <3>2
  <2>5. share[i] * all - total * w[i] = a * p - a * q
    BY <2>1, <2>4
  <2>6. Magnitude(share[i] * all - total * w[i]) < all
    <3>1. a * p - a * q \in {p - q, q - p}
      OBVIOUS
    <3> QED
      BY <1>1, <2>3, <2>5, <3>1 DEF Magnitude
  <2>7. w[i] = 0 => share[i] = 0
    BY <2>1, <2>3, <2>4
  <2>8. ASSUME NEW j \in D, w[i] > w[j] PROVE Magnitude(share[i]) >= Magnitude(share[j])
    <3>1. fair[i] >= fair[j]
      BY <2>8 DEF IsFairly
    <3>2. PICK b \in Nat : b = fair[j] /\ share[j] = a * b /\ s >= b
      BY <1>2, <2>1, <3>1
    <3>3. Magnitude(a * s) = s /\ Magnitude(a * b) = b
      BY DEF Magnitude
    <3> QED
      BY <2>4, <3>2, <3>3
  <2> QED
    BY <2>6, <2>7, <2>8
<1> QED
  BY <1>1, <1>3, <1>4 DEF Quota

(* allocateProportionally.                                                 *)
LEMMA ProportionalShares ==
  ASSUME NEW in \in Inputs, in.of = "proportional",
         NEW out, out = AllocateProportionally(in), out # Refused
  PROVE  SumFunction(out.share) = in.total /\ Quota(in.total, in.weight, out.share)
<1>1. in.total \in Int /\ in.weight \in Seq(Int)
  BY CalculationsAssumption
<1>2. PICK w : w = in.weight
  OBVIOUS
<1>3. (\A i \in DOMAIN w : ~(w[i] < 0)) /\ SumFunction(w) # 0
  BY <1>2 DEF AllocateProportionally
<1>4. w \in Seq(Nat)
  BY <1>1, <1>2, <1>3
<1>5. Weights(w)
  <2>1. IsFiniteSet(DOMAIN w) /\ \A i \in DOMAIN w : w[i] \in Nat
    BY <1>4, FS_Interval
  <2>2. SumFunction(w) \in Nat
    BY <2>1, SumNotNegative DEF SumFunction
  <2>3. SumFunction(w) > 0
    BY <1>3, <2>2
  <2> QED
    BY <1>4, <2>3, SequenceWeights
<1>6. PICK t \in Nat : t = Magnitude(in.total)
  BY <1>1 DEF Magnitude
<1>7. PICK a \in {1, -1} : a = IF in.total < 0 THEN -1 ELSE 1
  OBVIOUS
<1>8. PICK fair : fair = LargestRemainder(t, w)
  OBVIOUS
<1>9. IsFairly(fair, t, w)
  BY <1>5, <1>8, SharesFairly
<1>10. out = [share |-> [i \in DOMAIN fair |-> IF in.total < 0 THEN -fair[i] ELSE fair[i]]]
  BY <1>2, <1>3, <1>6, <1>8 DEF AllocateProportionally
<1>11. PICK share : share = out.share
  OBVIOUS
<1>12. share = [i \in DOMAIN fair |-> IF in.total < 0 THEN -fair[i] ELSE fair[i]]
  BY <1>10, <1>11
<1>13. DOMAIN fair = DOMAIN w /\ \A i \in DOMAIN w : fair[i] \in Nat
  BY <1>9 DEF IsFairly
<1>14. DOMAIN share = DOMAIN w /\ \A i \in DOMAIN w : share[i] = a * fair[i]
  BY <1>7, <1>12, <1>13
<1>15. in.total = a * t
  BY <1>1, <1>6, <1>7 DEF Magnitude
<1>16. SumFunction(share) = in.total /\ Quota(in.total, w, share)
  BY <1>5, <1>9, <1>14, <1>15, FairQuota
<1> QED
  BY <1>2, <1>11, <1>16

(* The parts of a key: each category's total is what its accounts share.   *)
LEMMA PairWeights ==
  ASSUME NEW a \in Nat, NEW b \in Nat, a + b > 0, NEW t \in Nat
  PROVE  /\ AllocateUnits(t, <<a, b>>)[1] \in Nat
         /\ AllocateUnits(t, <<a, b>>)[2] \in Nat
         /\ AllocateUnits(t, <<a, b>>)[1] + AllocateUnits(t, <<a, b>>)[2] = t
<1>1. PICK w : w = <<a, b>>
  OBVIOUS
<1>2. w \in Seq(Nat) /\ DOMAIN w = {1, 2}
  BY <1>1
<1>3. SumFunction(w) = a + b
  BY <1>1, SumOfPair
<1>4. Weights(w)
  BY <1>2, <1>3, SequenceWeights
<1>5. PICK n : n = AllocateUnits(t, w)
  OBVIOUS
<1>6. /\ DOMAIN n = DOMAIN w /\ \A i \in DOMAIN w : n[i] \in Nat
      /\ SumFunctionOnSet(n, DOMAIN w) = t
  BY <1>4, <1>5, UnitsAddUp
<1>7. DOMAIN n = {1, 2} /\ n[1] \in Nat /\ n[2] \in Nat
  BY <1>2, <1>6
<1>8. SumFunctionOnSet(n, {1, 2}) = n[1] + n[2]
  BY <1>7, SumOfTwo
<1> QED
  BY <1>1, <1>2, <1>5, <1>6, <1>7, <1>8

(* allocateMoudarabaProfit: what each account gets of the investors' part, *)
(* directly or through its category's key.                                 *)
LEMMA OwnShares ==
  ASSUME NEW T \in Nat, NEW w, Weights(w), NEW fair, IsFairly(fair, T, w),
         NEW share, DOMAIN share = DOMAIN w, \A i \in DOMAIN w : share[i] = fair[i]
  PROVE  SumFunction(share) = T /\ Quota(T, w, share)
<1>1. \A i \in DOMAIN w : fair[i] \in Nat
  BY DEF IsFairly
<1>2. PICK a \in {1, -1} : a = 1
  OBVIOUS
<1>3. T = a * T /\ \A i \in DOMAIN w : share[i] = a * fair[i]
  BY <1>1, <1>2
<1> QED
  BY <1>3, FairQuota

(* A part of what is not negative is not more than all of it.              *)
LEMMA PartBelow ==
  ASSUME NEW f, NEW S, IsFiniteSet(S), \A x \in S : f[x] \in Nat, NEW A, A \subseteq S
  PROVE  /\ SumFunctionOnSet(f, A) \in Nat /\ SumFunctionOnSet(f, S) \in Nat
         /\ SumFunctionOnSet(f, A) <= SumFunctionOnSet(f, S)
<1>1. PICK B : B = S \ A
  OBVIOUS
<1>2. IsFiniteSet(A) /\ IsFiniteSet(B) /\ A \cap B = {} /\ A \cup B = S
  BY <1>1, FS_Subset
<1>3. \A x \in A \cup B : f[x] \in Int
  BY <1>2
<1>4. SumFunctionOnSet(f, A \cup B) = SumFunctionOnSet(f, A) + SumFunctionOnSet(f, B)
  BY <1>2, <1>3, SumOfBoth
<1>5. \A x \in B : f[x] \in Nat
  BY <1>1
<1>6. PICK a, b \in Nat : a = SumFunctionOnSet(f, A) /\ b = SumFunctionOnSet(f, B)
  BY <1>2, <1>5, SumNotNegative
<1>7. SumFunctionOnSet(f, S) = a + b
  BY <1>2, <1>4, <1>6
<1> QED
  BY <1>6, <1>7

LEMMA FewBelow ==
  ASSUME NEW a \in Nat, NEW b \in Nat, a <= b, FewDigits(b)
  PROVE  FewDigits(a)
<1>1. PICK N \in Nat : N = TenTo[Digits - 1]
  BY PowersOfDigits
<1> QED
  BY <1>1 DEF FewDigits, Magnitude

(* What allocateUnits gives: all of it, and fairly if no digit is lost.    *)
LEMMA OwnUnits ==
  ASSUME NEW T \in Nat, NEW w, Weights(w), FewDigits(T), FewDigits(SumFunction(w)),
         NEW share, DOMAIN share = DOMAIN w, \A i \in DOMAIN w : share[i] = AllocateUnits(T, w)[i]
  PROVE  /\ \A i \in DOMAIN w : share[i] \in Nat
         /\ SumFunction(share) = T
         /\ ProductsFit(T, w) => Quota(T, w, share)
<1> DEFINE D == DOMAIN w
<1>1. PICK fair : fair = AllocateUnits(T, w)
  OBVIOUS
<1>2. /\ DOMAIN fair = D /\ \A i \in D : fair[i] \in Nat
      /\ SumFunctionOnSet(fair, D) = T
  BY <1>1, UnitsAddUp
<1>3. \A i \in D : share[i] = fair[i]
  BY <1>1
<1>4. SumFunctionOnSet(share, D) = SumFunctionOnSet(fair, D)
  BY <1>3, SumSame DEF Weights
<1>5. SumFunction(share) = T
  BY <1>2, <1>4 DEF SumFunction
<1>6. ASSUME ProductsFit(T, w) PROVE Quota(T, w, share)
  <2>1. PICK all : all = SumFunctionOnSet(w, D) /\ all = SumFunction(w)
    BY DEF SumFunction
  <2>2. FewDigits(all) /\ T * all < TenTo[Digits]
    BY <1>6, <2>1 DEF ProductsFit
  <2>3. IsFairly(fair, T, w)
    BY <1>1, <2>1, <2>2, UnitsFairly
  <2> QED
    BY <1>3, <2>3, OwnShares
<1> QED
  BY <1>2, <1>3, <1>5, <1>6

LEMMA CategoryWeights ==
  ASSUME NEW in \in Inputs, in.of = "moudaraba", NEW c, Divisible(BasesOf(in, c))
  PROVE  Weights(BasesOf(in, c)) /\ DOMAIN BasesOf(in, c) = Members(in, c)
<1>1. in.base \in Seq(Nat) /\ DOMAIN in.category = DOMAIN in.base
  BY CalculationsAssumption
<1>2. PICK D : D = DOMAIN in.base
  OBVIOUS
<1>3. IsFiniteSet(D) /\ D \subseteq Int /\ \A i \in D : in.base[i] \in Nat
  BY <1>1, <1>2, FS_Interval
<1>4. PICK M : M = Members(in, c)
  OBVIOUS
<1>5. M \subseteq D
  BY <1>1, <1>2, <1>4 DEF Members
<1>6. IsFiniteSet(M)
  BY <1>3, <1>5, FS_Subset
<1>7. PICK w : w = BasesOf(in, c)
  OBVIOUS
<1>8. w = [i \in M |-> in.base[i]]
  BY <1>4, <1>7 DEF BasesOf
<1>9. DOMAIN w = M /\ \A i \in M : w[i] \in Nat
  BY <1>3, <1>5, <1>8
<1>10. SumFunctionOnSet(w, DOMAIN w) > 0
  BY <1>7 DEF Divisible, SumFunction
<1>11. Weights(w)
  BY <1>3, <1>5, <1>6, <1>9, <1>10 DEF Weights
<1> QED
  BY <1>4, <1>7, <1>9, <1>11

CategoryIsFair(in, T, share, c) ==
  LET own == [i \in Members(in, c) |-> share[i]]
  IN Members(in, c) # {} =>
       /\ ProductsFit(SumFunction(own), BasesOf(in, c)) =>
            Quota(SumFunction(own), BasesOf(in, c), own)
       /\ Magnitude(10 * SumFunction(own) - in.key[c] * T) < 10

LEMMA CategoryShares ==
  ASSUME NEW in \in Inputs, in.of = "moudaraba", NEW T \in Nat, FewDigits(T), KeysAreUsable(in),
         \A c \in DOMAIN in.key : Members(in, c) # {} => Divisible(BasesOf(in, c)),
         NEW share, share = FixedCategoryShares(in, T)
  PROVE  /\ SumFunction(share) = T
         /\ \A c \in DOMAIN in.key : CategoryIsFair(in, T, share, c)
<1>1. /\ in.base \in Seq(Nat) /\ in.key \in Seq(Nat) /\ DOMAIN in.category = DOMAIN in.base
      /\ FewDigits(SumFunction(in.base))
  BY CalculationsAssumption
<1>2. PICK D : D = DOMAIN in.category
  OBVIOUS
<1>3. IsFiniteSet(D)
  <2>1. PICK n \in Nat : n = Len(in.base) /\ DOMAIN in.base = 1..n
    BY <1>1
  <2>2. IsFiniteSet(1..n)
    BY FS_Interval
  <2> QED
    BY <1>1, <1>2, <2>1, <2>2
<1>4. PICK key : key = in.key
  OBVIOUS
<1>5. key \in Seq(Nat) /\ SumFunction(key) = 10
  BY <1>1, <1>4 DEF KeysAreUsable
<1>6. /\ \A i \in D : in.category[i] \in DOMAIN key
      /\ \A c \in DOMAIN key : Members(in, c) = {} => key[c] = 0
  BY <1>2, <1>4 DEF KeysAreUsable
<1>7. Weights(key)
  BY <1>5, SequenceWeights
<1>8. PICK part : part = AllocateUnits(T, key)
  OBVIOUS
<1>9. IsFairly(part, T, key)
  <2>1. PICK N \in Nat : N = TenTo[Digits - 1] /\ TenTo[Digits] = 10 * N /\ N > 10
    BY PowersOfDigits
  <2>2. PICK all \in Nat : all = 10 /\ all = SumFunctionOnSet(key, DOMAIN key)
    BY <1>5 DEF SumFunction
  <2>3. T < N
    BY <2>1 DEF FewDigits, Magnitude
  <2>4. FewDigits(all)
    BY <2>1, <2>2 DEF FewDigits, Magnitude
  <2>5. T * all < TenTo[Digits]
    BY <2>1, <2>2, <2>3
  <2> QED
    BY <1>7, <1>8, <2>2, <2>4, <2>5, UnitsFairly
<1>10. /\ \A c \in DOMAIN key : part[c] \in Nat /\ key[c] \in Nat
       /\ SumFunctionOnSet(key, DOMAIN key) = 10 /\ SumFunctionOnSet(part, DOMAIN key) = T
       /\ \A c \in DOMAIN key : part[c] * 10 - T * key[c] < 10 /\ T * key[c] - part[c] * 10 < 10
                                /\ (key[c] = 0 => part[c] = 0)
  <2>1. SumFunctionOnSet(key, DOMAIN key) = 10
    BY <1>5 DEF SumFunction
  <2>2. \A c \in DOMAIN key : part[c] \in Nat /\ key[c] \in Nat
    BY <1>7, <1>9 DEF IsFairly, Weights
  <2>3. /\ SumFunctionOnSet(part, DOMAIN key) = T
        /\ \A c \in DOMAIN key : part[c] * 10 - T * key[c] < 10 /\ T * key[c] - part[c] * 10 < 10
                                /\ (key[c] = 0 => part[c] = 0)
    BY <1>9, <2>1 DEF IsFairly
  <2> QED
    BY <2>1, <2>2, <2>3
<1>11. /\ DOMAIN share = D
       /\ \A i \in D : share[i] = AllocateUnits(part[in.category[i]], BasesOf(in, in.category[i]))[i]
  BY <1>2, <1>4, <1>8 DEF FixedCategoryShares
<1>12. ASSUME NEW c \in DOMAIN key, Members(in, c) # {}
       PROVE  /\ \A i \in Members(in, c) : share[i] \in Nat
              /\ SumFunctionOnSet(share, Members(in, c)) = part[c]
              /\ CategoryIsFair(in, T, share, c)
  <2>1. PICK w : w = BasesOf(in, c)
    OBVIOUS
  <2>2. PICK M : M = Members(in, c)
    OBVIOUS
  <2>3. Weights(w) /\ DOMAIN w = M
    BY <1>4, <1>12, <2>1, <2>2, CategoryWeights
  <2>4. PICK p \in Nat : p = part[c]
    BY <1>10
  <2>5. M \subseteq D /\ \A i \in M : in.category[i] = c
    BY <1>2, <2>2 DEF Members
  <2>6. \A i \in M : share[i] = AllocateUnits(p, w)[i]
    BY <1>11, <2>1, <2>4, <2>5
  <2>7. PICK own : own = [i \in M |-> share[i]]
    OBVIOUS
  <2>8. DOMAIN own = DOMAIN w /\ \A i \in DOMAIN w : own[i] = AllocateUnits(p, w)[i]
    BY <2>3, <2>6, <2>7
  <2>9. FewDigits(p)
    <3>1. \A x \in DOMAIN key : part[x] \in Nat
      BY <1>10
    <3>2. IsFiniteSet(DOMAIN key) /\ {c} \subseteq DOMAIN key
      BY <1>7 DEF Weights
    <3>3. SumFunctionOnSet(part, {c}) <= SumFunctionOnSet(part, DOMAIN key)
      BY <3>1, <3>2, PartBelow
    <3>4. SumFunctionOnSet(part, {c}) = part[c]
      <4>1. part[c] \in Int
        BY <2>4
      <4> QED
        BY <4>1, SumOfOne
    <3>5. p <= T
      BY <1>10, <2>4, <3>3, <3>4
    <3> QED
      BY <3>5, FewBelow
  <2>10. FewDigits(SumFunction(w))
    <3>1. PICK base : base = in.base
      OBVIOUS
    <3>2. w = [i \in M |-> base[i]]
      BY <2>1, <2>2, <3>1 DEF BasesOf
    <3>3. DOMAIN base = D /\ \A x \in D : base[x] \in Nat
      BY <1>1, <1>2, <3>1
    <3>4. /\ SumFunctionOnSet(base, M) \in Nat /\ SumFunctionOnSet(base, D) \in Nat
          /\ SumFunctionOnSet(base, M) <= SumFunctionOnSet(base, D)
      BY <1>3, <2>5, <3>3, PartBelow
    <3>5. IsFiniteSet(M) /\ \A i \in M : w[i] = base[i]
      BY <1>3, <2>5, <3>2, FS_Subset
    <3>6. SumFunctionOnSet(w, M) = SumFunctionOnSet(base, M)
      BY <3>5, SumSame
    <3>7. FewDigits(SumFunctionOnSet(base, D))
      BY <1>1, <3>1, <3>3 DEF SumFunction
    <3>8. FewDigits(SumFunctionOnSet(base, M))
      BY <3>4, <3>7, FewBelow
    <3> QED
      BY <2>3, <3>6, <3>8 DEF SumFunction
  <2>11. /\ \A i \in DOMAIN w : own[i] \in Nat
         /\ SumFunction(own) = p
         /\ ProductsFit(p, w) => Quota(p, w, own)
    BY <2>3, <2>8, <2>9, <2>10, OwnUnits
  <2>12. PICK k \in Nat : k = key[c]
    BY <1>10
  <2>13. p * 10 - T * k < 10 /\ T * k - p * 10 < 10
    BY <1>10, <2>4, <2>12
  <2>14. Magnitude(10 * p - k * T) < 10
    <3>1. PICK q \in Int : q = T * k
      OBVIOUS
    <3>2. k * T = q
      BY <3>1
    <3>3. Magnitude(10 * p - q) < 10
      BY <2>13, <3>1 DEF Magnitude
    <3> QED
      BY <3>2, <3>3
  <2>15. SumFunctionOnSet(share, M) = p
    <3>1. IsFiniteSet(M) /\ \A i \in M : share[i] = own[i]
      BY <1>3, <2>5, <2>7, FS_Subset
    <3>2. SumFunctionOnSet(share, M) = SumFunctionOnSet(own, M)
      BY <3>1, SumSame
    <3> QED
      BY <2>3, <2>8, <2>11, <3>2 DEF SumFunction
  <2>16. CategoryIsFair(in, T, share, c)
    BY <1>4, <2>1, <2>2, <2>7, <2>11, <2>12, <2>14 DEF CategoryIsFair
  <2> QED
    BY <2>2, <2>3, <2>4, <2>7, <2>11, <2>15, <2>16
<1>13. \A i \in D : share[i] \in Int
  <2> SUFFICES ASSUME NEW i \in D PROVE share[i] \in Int
    OBVIOUS
  <2>1. PICK c \in DOMAIN key : c = in.category[i]
    BY <1>6
  <2>2. i \in Members(in, c)
    BY <1>2, <2>1 DEF Members
  <2> QED
    BY <1>12, <2>2
<1>14. \A c \in DOMAIN key : part[c] = SumFunctionOnSet(share, Part(D, in.category, c))
  <2> SUFFICES ASSUME NEW c \in DOMAIN key
               PROVE  part[c] = SumFunctionOnSet(share, Part(D, in.category, c))
    OBVIOUS
  <2>1. PICK M : M = Members(in, c)
    OBVIOUS
  <2>2. Part(D, in.category, c) = M
    BY <1>2, <2>1 DEF Part, Members
  <2>3. CASE M = {}
    <3>1. part[c] = 0
      BY <1>6, <1>10, <2>1, <2>3
    <3>2. SumFunctionOnSet(share, {}) = 0
      BY SumOfNone
    <3> QED
      BY <2>2, <2>3, <3>1, <3>2
  <2>4. CASE M # {}
    BY <1>12, <2>1, <2>2, <2>4
  <2> QED
    BY <2>3, <2>4
<1>15. IsFiniteSet(DOMAIN key)
  BY <1>7 DEF Weights
<1>16. SumFunctionOnSet(part, DOMAIN key) = SumFunctionOnSet(share, D)
  <2>1. PICK category : category = in.category
    OBVIOUS
  <2>2. \A x \in D : category[x] \in DOMAIN key
    BY <1>6, <2>1
  <2>3. \A c \in DOMAIN key : part[c] = SumFunctionOnSet(share, Part(D, category, c))
    BY <1>14, <2>1
  <2> QED
    BY <1>3, <1>13, <1>15, <2>2, <2>3, SumOfParts
<1>17. SumFunction(share) = T
  BY <1>10, <1>11, <1>16 DEF SumFunction
<1>18. \A c \in DOMAIN key : Members(in, c) = {} => CategoryIsFair(in, T, share, c)
  BY DEF CategoryIsFair
<1> QED
  BY <1>4, <1>12, <1>17, <1>18

(* What the accounts get adds up to the investors' part.                   *)
LEMMA MoudarabaShares ==
  ASSUME NEW in \in Inputs, in.of = "moudaraba", NEW out, out = AllocateMoudarabaProfit(in)
  PROVE  /\ out # Broken
         /\ out = Crashed => ~AccountsDivisible(in)
         /\ out \notin {Refused, Broken, Crashed} =>
              /\ out.bank + out.irr + SumFunction(out.share) = in.profit
              /\ in.method = "WEIGHTED_AVERAGE" /\ ProductsFit(SumFunction(out.share), in.base) =>
                   Quota(SumFunction(out.share), in.base, out.share)
              /\ in.method = "FIXED_CATEGORY_KEY" =>
                   \A c \in DOMAIN in.key : CategoryIsFair(in, SumFunction(out.share), out.share, c)
<1>1. /\ in.profit \in Nat /\ in.irr \in Nat /\ in.investorNisba \in Nat /\ in.bankNisba \in Nat
      /\ in.base \in Seq(Nat) /\ in.method \in {"WEIGHTED_AVERAGE", "FIXED_CATEGORY_KEY"}
      /\ FewDigits(in.profit) /\ FewDigits(SumFunction(in.base))
  BY CalculationsAssumption
<1>2. PICK nisba : nisba = AllocateUnits(in.profit, <<in.bankNisba, in.investorNisba>>)
  OBVIOUS
<1>3. PICK share : share = AccountShares(in, nisba[2] - in.irr)
  OBVIOUS
<1>4. out = IF in.investorNisba + in.bankNisba # 10 \/ in.irr > nisba[2] THEN Refused
            ELSE IF in.method = "FIXED_CATEGORY_KEY" /\ ~KeysAreUsable(in) THEN Refused
            ELSE IF ~AccountsDivisible(in) THEN Crashed
            ELSE IF nisba[1] + in.irr + SumFunction(share) # in.profit THEN Broken
            ELSE [bank |-> nisba[1], irr |-> in.irr, share |-> share]
  BY <1>2, <1>3 DEF AllocateMoudarabaProfit
<1>5. Refused # Broken /\ Refused # Crashed /\ Broken # Crashed
  BY DEF Refused, Broken, Crashed
<1>6. CASE \/ in.investorNisba + in.bankNisba # 10 \/ in.irr > nisba[2]
           \/ in.method = "FIXED_CATEGORY_KEY" /\ ~KeysAreUsable(in)
  <2>1. out = Refused
    BY <1>4, <1>6
  <2> QED
    BY <1>5, <2>1
<1>7. CASE /\ ~(in.investorNisba + in.bankNisba # 10 \/ in.irr > nisba[2])
           /\ ~(in.method = "FIXED_CATEGORY_KEY" /\ ~KeysAreUsable(in))
           /\ ~AccountsDivisible(in)
  <2>1. out = Crashed
    BY <1>4, <1>7
  <2> QED
    BY <1>5, <1>7, <2>1
<1>8. CASE /\ ~(in.investorNisba + in.bankNisba # 10 \/ in.irr > nisba[2])
           /\ ~(in.method = "FIXED_CATEGORY_KEY" /\ ~KeysAreUsable(in))
           /\ AccountsDivisible(in)
  <2>1. nisba[1] \in Nat /\ nisba[2] \in Nat /\ nisba[1] + nisba[2] = in.profit
    BY <1>1, <1>2, <1>8, PairWeights
  <2>2. PICK T \in Nat : T = nisba[2] - in.irr
    BY <1>1, <1>8, <2>1
  <2>8. FewDigits(T)
    <3>1. PICK a, b, c, d \in Nat : a = nisba[1] /\ b = nisba[2] /\ c = in.irr /\ d = in.profit
      BY <1>1, <2>1
    <3>2. a + b = d /\ T = b - c
      BY <2>1, <2>2, <3>1
    <3>3. T <= d
      BY <3>2
    <3>4. FewDigits(d)
      BY <1>1, <3>1
    <3> QED
      BY <3>3, <3>4, FewBelow
  <2>3. /\ SumFunction(share) = T
        /\ in.method = "WEIGHTED_AVERAGE" /\ ProductsFit(T, in.base) => Quota(T, in.base, share)
        /\ in.method = "FIXED_CATEGORY_KEY" =>
             \A c \in DOMAIN in.key : CategoryIsFair(in, T, share, c)
    <3>1. CASE in.method = "WEIGHTED_AVERAGE"
      <4>1. SumFunction(in.base) > 0
        BY <1>8, <3>1 DEF AccountsDivisible, Divisible
      <4>2. PICK w : w = in.base
        OBVIOUS
      <4>3. Weights(w)
        BY <1>1, <4>1, <4>2, SequenceWeights
      <4>4. share = AllocateUnits(T, w)
        BY <1>3, <2>2, <3>1, <4>2 DEF AccountShares
      <4>5. DOMAIN share = DOMAIN w
        BY <4>3, <4>4, UnitsAddUp
      <4>6. FewDigits(SumFunction(w))
        BY <1>1, <4>2
      <4>7. SumFunction(share) = T /\ (ProductsFit(T, w) => Quota(T, w, share))
        BY <2>8, <4>3, <4>4, <4>5, <4>6, OwnUnits
      <4> QED
        BY <3>1, <4>2, <4>7
    <3>2. CASE in.method = "FIXED_CATEGORY_KEY"
      <4>1. \A c \in DOMAIN in.key : Members(in, c) # {} => Divisible(BasesOf(in, c))
        BY <1>8, <3>2 DEF AccountsDivisible
      <4>2. share = FixedCategoryShares(in, T)
        BY <1>3, <2>2, <3>2 DEF AccountShares
      <4>3. KeysAreUsable(in)
        BY <1>8, <3>2
      <4>4. SumFunction(share) = T /\ \A c \in DOMAIN in.key : CategoryIsFair(in, T, share, c)
        BY <2>8, <4>1, <4>2, <4>3, CategoryShares
      <4> QED
        BY <3>2, <4>4
    <3> QED
      BY <1>1, <3>1, <3>2
  <2>4. nisba[1] + in.irr + T = in.profit
    BY <1>1, <2>1, <2>2
  <2>5. out = [bank |-> nisba[1], irr |-> in.irr, share |-> share]
    BY <1>4, <1>8, <2>3, <2>4
  <2>6. out.bank = nisba[1] /\ out.irr = in.irr /\ out.share = share
    BY <2>5
  <2>7. out # Broken /\ out # Crashed
    <3>1. DOMAIN out = {"bank", "irr", "share"}
      BY <2>5
    <3>2. DOMAIN Broken = {"broken"} /\ DOMAIN Crashed = {"crashed"}
      BY DEF Broken, Crashed
    <3> QED
      BY <3>1, <3>2
  <2> QED
    BY <2>3, <2>4, <2>6, <2>7
<1> QED
  BY <1>6, <1>7, <1>8

(* An allocation gives everyone the exact share up or down to a unit, no   *)
(* share to no weight and never less to a larger weight: with integers     *)
(* (allocateProportionally) whatever the weights, their number and the     *)
(* amount, and with decimals (allocateUnits, in allocateMoudarabaProfit's  *)
(* two methods) as long as no product of them has more than Digits digits; *)
(* what a category's accounts get is always its key's part, to a unit.     *)
THEOREM SharesStayFair == CalculationsSpec => []SharesAreFair
<1>1. Computed => SharesAreFair
  <2> SUFFICES ASSUME Computed PROVE SharesAreFair
    OBVIOUS
  <2>1. ASSUME Done("proportional") PROVE Quota(input.total, input.weight, output.share)
    <3>1. /\ input \in Inputs /\ input.of = "proportional" /\ output = Result(input)
          /\ output # Refused
      BY <2>1, DoneIs
    <3>2. output = AllocateProportionally(input)
      BY <3>1, ResultIs
    <3> QED
      BY <3>1, <3>2, ProportionalShares
  <2>2. ASSUME Done("moudaraba")
        PROVE  /\ /\ input.method = "WEIGHTED_AVERAGE"
                  /\ ProductsFit(SumFunction(output.share), input.base)
                  => Quota(SumFunction(output.share), input.base, output.share)
               /\ input.method = "FIXED_CATEGORY_KEY" =>
                    \A c \in DOMAIN input.key :
                      CategoryIsFair(input, SumFunction(output.share), output.share, c)
    <3>1. /\ input \in Inputs /\ input.of = "moudaraba" /\ output = Result(input)
          /\ output \notin {Refused, Broken, Crashed}
      BY <2>2, DoneIs
    <3>2. output = AllocateMoudarabaProfit(input)
      BY <3>1, ResultIs
    <3> QED
      BY <3>1, <3>2, MoudarabaShares
  <2> QED
    BY <2>1, <2>2 DEF SharesAreFair, CategoryIsFair
<1> QED
  BY <1>1, CalculationsAnswer, PTL

(* A Moudaraba allocation never ends in allocateMoudarabaProfit's own      *)
(* "invariant violated", and in a crash only when there is nothing to      *)
(* divide by.                                                              *)
THEOREM MoudarabaNeverBreaks ==
  CalculationsSpec =>
    [](input.of = "moudaraba" => /\ output # Broken
                                 /\ output = Crashed => ~AccountsDivisible(input))
<1>1. Computed => (input.of = "moudaraba" => /\ output # Broken
                                             /\ output = Crashed => ~AccountsDivisible(input))
  <2> SUFFICES ASSUME Computed, input.of = "moudaraba"
               PROVE  output # Broken /\ (output = Crashed => ~AccountsDivisible(input))
    OBVIOUS
  <2>1. input \in Inputs /\ Result(input) = AllocateMoudarabaProfit(input)
    BY ResultIs DEF Computed
  <2>2. CASE output = Pending
    BY <2>2 DEF Pending, Broken, Crashed
  <2>3. CASE output = Result(input)
    BY <2>1, <2>3, MoudarabaShares
  <2> QED
    BY <2>2, <2>3 DEF Computed
<1> QED
  BY <1>1, CalculationsAnswer, PTL

(* A report: every row is in exactly one bucket, and it is the one whose   *)
(* ends the row is between.                                                *)
LEMMA BucketIs ==
  ASSUME NEW in, in.buckets \in Seq(Int),
         \A i, j \in DOMAIN in.buckets : i < j => in.buckets[i] < in.buckets[j],
         NEW days \in Int, NEW n, n = Len(in.buckets)
  PROVE  /\ BucketOf(in, days) \in 1..(n + 1)
         /\ \A i \in 1..(n + 1) :
              BucketOf(in, days) = i
                <=> /\ i = 1 \/ days > in.buckets[i - 1]
                    /\ i > n \/ days <= in.buckets[i]
<1>1. PICK b : b = in.buckets
  OBVIOUS
<1>2. n \in Nat /\ DOMAIN b = 1..n /\ \A i \in 1..n : b[i] \in Int
  BY <1>1
<1>3. \A i, j \in 1..n : i < j => b[i] < b[j]
  BY <1>1, <1>2
<1>4. PICK fits : fits = {i \in 1..n : days <= b[i]}
  OBVIOUS
<1>5. PICK k : k = BucketOf(in, days)
  OBVIOUS
<1>6. k = IF fits = {} THEN n + 1 ELSE SmallestOf(fits)
  BY <1>1, <1>2, <1>4, <1>5 DEF BucketOf
<1>7. /\ k \in 1..(n + 1)
      /\ k <= n => days <= b[k]
      /\ \A j \in 1..n : j < k => days > b[j]
  <2>1. CASE fits = {}
    <3>1. k = n + 1 /\ k \in 1..(n + 1) /\ ~(k <= n)
      BY <1>2, <1>6, <2>1
    <3>2. ASSUME NEW j \in 1..n PROVE days > b[j]
      <4>1. j \notin fits
        BY <2>1
      <4>2. ~(days <= b[j])
        BY <1>4, <4>1
      <4>3. b[j] \in Int
        BY <1>2
      <4> QED
        BY <4>2, <4>3
    <3> QED
      BY <3>1, <3>2
  <2>2. CASE fits # {}
    <3>1. fits \subseteq Nat
      BY <1>2, <1>4
    <3>2. \E a \in fits : \A c \in fits : a <= c
      BY <2>2, <3>1, LeastNumber
    <3>3. k \in fits /\ \A c \in fits : k <= c
      BY <1>6, <2>2, <3>2 DEF SmallestOf
    <3> QED
      BY <1>2, <1>4, <3>3
  <2> QED
    BY <2>1, <2>2
<1>8. ASSUME NEW i \in 1..(n + 1)
      PROVE  k = i <=> /\ i = 1 \/ days > b[i - 1]
                       /\ i > n \/ days <= b[i]
  <2>1. CASE k = i
    <3>1. i > n \/ days <= b[i]
      BY <1>2, <1>7, <2>1
    <3>2. i = 1 \/ days > b[i - 1]
      <4>1. CASE i > 1
        <5>1. PICK j \in 1..n : j = i - 1
          BY <1>2, <4>1
        <5>2. days > b[j]
          BY <1>7, <2>1, <5>1
        <5> QED
          BY <5>1, <5>2
      <4> QED
        BY <1>2, <4>1
    <3> QED
      BY <2>1, <3>1, <3>2
  <2>2. CASE k < i
    <3>1. k \in 1..n /\ i - 1 \in 1..n /\ k <= i - 1 /\ i # 1
      BY <1>2, <1>7, <2>2
    <3>2. b[k] <= b[i - 1]
      <4>1. PICK j \in 1..n : j = i - 1 /\ k <= j
        BY <3>1
      <4>2. k < j => b[k] < b[j]
        BY <1>3, <3>1
      <4>3. b[k] \in Int /\ b[j] \in Int
        BY <1>2, <3>1
      <4>4. k \in Int /\ j \in Int
        BY <1>2, <3>1
      <4> QED
        BY <4>1, <4>2, <4>3, <4>4
    <3>3. PICK x, y \in Int : x = b[k] /\ y = b[i - 1]
      BY <1>2, <3>1
    <3>4. k <= n
      BY <3>1
    <3>5. days <= x /\ x <= y
      BY <1>7, <3>2, <3>3, <3>4
    <3>6. days <= b[i - 1]
      BY <3>3, <3>5
    <3>7. k # i
      BY <1>2, <1>7, <2>2
    <3>8. ~(i = 1 \/ days > b[i - 1])
      BY <3>1, <3>6, <3>3
    <3> QED
      BY <3>7, <3>8
  <2>3. CASE k > i
    <3>1. i \in 1..n
      BY <1>2, <1>7, <2>3
    <3>2. days > b[i]
      BY <1>7, <2>3, <3>1
    <3> QED
      BY <1>2, <2>3, <3>1, <3>2
  <2> QED
    BY <1>7, <2>1, <2>2, <2>3
<1> QED
  BY <1>1, <1>5, <1>7, <1>8

LEMMA ReportAddsUp ==
  ASSUME NEW in \in Inputs, in.of = "report", NEW r, r = BuildYieldReport(in)
  PROVE  /\ BuildBucketedYield(in) = r
         /\ SumFunction([i \in DOMAIN r |-> r[i].count]) = Len(in.rows)
         /\ SumFunction([i \in DOMAIN r |-> r[i].capital])
              = SumFunction([i \in DOMAIN in.rows |-> in.rows[i].capital])
<1>1. /\ in.buckets \in Seq(Int) /\ in.rows \in Seq([days: Int, capital: Int, profit: Int])
      /\ \A i, j \in DOMAIN in.buckets : i < j => in.buckets[i] < in.buckets[j]
  BY CalculationsAssumption
<1>2. PICK n : n = Len(in.buckets)
  OBVIOUS
<1>3. PICK C : C = 1..(n + 1)
  OBVIOUS
<1>4. n \in Nat /\ IsFiniteSet(C)
  <2>1. PICK b \in Seq(Int) : b = in.buckets
    BY <1>1
  <2>2. n \in Nat
    BY <1>2, <2>1
  <2> QED
    BY <1>3, <2>2, FS_Interval
<1>5. PICK S : S = DOMAIN in.rows
  OBVIOUS
<1>6. /\ Len(in.rows) \in Nat /\ S = 1..Len(in.rows)
      /\ \A x \in S : in.rows[x].days \in Int /\ in.rows[x].capital \in Int
  <2>1. PICK rows : rows = in.rows
    OBVIOUS
  <2>2. PICK R : R = [days: Int, capital: Int, profit: Int]
    OBVIOUS
  <2>3. rows \in Seq(R)
    BY <1>1, <2>1, <2>2
  <2>4. Len(rows) \in Nat /\ DOMAIN rows = 1..Len(rows) /\ \A x \in DOMAIN rows : rows[x] \in R
    BY <2>3
  <2>5. \A y \in R : y.days \in Int /\ y.capital \in Int
    BY <2>2
  <2> QED
    BY <1>5, <2>1, <2>4, <2>5
<1>7. IsFiniteSet(S) /\ Cardinality(S) = Len(in.rows)
  BY <1>6, FS_Interval
<1>8. PICK category : category = [x \in S |-> BucketOf(in, in.rows[x].days)]
  OBVIOUS
<1>9. \A x \in S : /\ category[x] \in C
                   /\ \A i \in C : category[x] = i
                        <=> /\ i = 1 \/ in.rows[x].days > in.buckets[i - 1]
                            /\ i > n \/ in.rows[x].days <= in.buckets[i]
  <2> SUFFICES ASSUME NEW x \in S
               PROVE  /\ category[x] \in C
                      /\ \A i \in C : category[x] = i
                           <=> /\ i = 1 \/ in.rows[x].days > in.buckets[i - 1]
                               /\ i > n \/ in.rows[x].days <= in.buckets[i]
    OBVIOUS
  <2>1. PICK days \in Int : days = in.rows[x].days
    BY <1>6
  <2>2. category[x] = BucketOf(in, days)
    BY <1>8, <2>1
  <2>3. /\ BucketOf(in, days) \in C
        /\ \A i \in C : BucketOf(in, days) = i
             <=> /\ i = 1 \/ days > in.buckets[i - 1]
                 /\ i > n \/ days <= in.buckets[i]
    BY <1>1, <1>2, <1>3, BucketIs
  <2> QED
    BY <2>1, <2>2, <2>3
<1>10. DOMAIN r = C /\ \A i \in C : r[i] = ReportLine(in, Part(S, category, i))
  <2>1. \A i \in C : {x \in S : BucketOf(in, in.rows[x].days) = i} = Part(S, category, i)
    BY <1>8 DEF Part
  <2>2. r = [i \in C |-> ReportLine(in, {x \in S : BucketOf(in, in.rows[x].days) = i})]
    BY <1>2, <1>3, <1>5 DEF BuildYieldReport
  <2> QED
    BY <2>1, <2>2
<1>11. BuildBucketedYield(in) = r
  <2>1. ASSUME NEW i \in C
        PROVE  Part(S, category, i) = {x \in S :
                 /\ i = 1 \/ in.rows[x].days > in.buckets[i - 1]
                 /\ i > n \/ in.rows[x].days <= in.buckets[i]}
    BY <1>9 DEF Part
  <2>2. PICK q : q = BuildBucketedYield(in)
    OBVIOUS
  <2>3. q = [i \in C |-> ReportLine(in, {x \in S :
               /\ i = 1 \/ in.rows[x].days > in.buckets[i - 1]
               /\ i > n \/ in.rows[x].days <= in.buckets[i]})]
    BY <1>2, <1>3, <1>5, <2>2 DEF BuildBucketedYield
  <2>4. DOMAIN q = C /\ \A i \in C : q[i] = ReportLine(in, Part(S, category, i))
    BY <2>1, <2>3
  <2>5. q = [i \in C |-> q[i]]
    BY <2>3
  <2>6. r = [i \in C |-> r[i]]
    BY <1>2, <1>3 DEF BuildYieldReport
  <2>7. q = r
    BY <1>10, <2>4, <2>5, <2>6
  <2> QED
    BY <2>2, <2>7
<1>12. ASSUME NEW i \in C
       PROVE  r[i].count = Cardinality(Part(S, category, i))
              /\ r[i].capital = SumFunction([x \in Part(S, category, i) |-> in.rows[x].capital])
  <2>1. PICK P : P = Part(S, category, i)
    OBVIOUS
  <2>2. PICK l : l = r[i]
    OBVIOUS
  <2>3. l = ReportLine(in, P)
    BY <1>10, <2>1, <2>2
  <2>4. l.count = Cardinality(P) /\ l.capital = SumFunction([x \in P |-> in.rows[x].capital])
    BY <2>3 DEF ReportLine
  <2> QED
    BY <2>1, <2>2, <2>4
<1>13. \A i \in C : IsFiniteSet(Part(S, category, i)) /\ Part(S, category, i) \subseteq S
  <2>1. \A i \in C : Part(S, category, i) \subseteq S
    BY DEF Part
  <2> QED
    BY <1>7, <2>1, FS_Subset
<1>14. SumFunction([i \in DOMAIN r |-> r[i].count]) = Len(in.rows)
  <2>1. PICK one : one = [x \in S |-> 1]
    OBVIOUS
  <2>2. PICK g : g = [i \in DOMAIN r |-> r[i].count]
    OBVIOUS
  <2>3. ASSUME NEW s, s \subseteq S, IsFiniteSet(s)
        PROVE  SumFunctionOnSet(one, s) = Cardinality(s)
    <3>1. \A x \in s : one[x] = IF x \in s THEN 1 ELSE 0
      BY <2>1, <2>3
    <3>2. SumFunctionOnSet(one, s) = Cardinality(s \cap s)
      BY <2>3, <3>1, SumCounts
    <3>3. s \cap s = s
      OBVIOUS
    <3> QED
      BY <3>2, <3>3
  <2>4. \A i \in C : g[i] = SumFunctionOnSet(one, Part(S, category, i))
    BY <1>10, <1>12, <1>13, <2>2, <2>3
  <2>5. \A x \in S : one[x] \in Int /\ category[x] \in C
    BY <1>9, <2>1
  <2>6. SumFunctionOnSet(g, C) = SumFunctionOnSet(one, S)
    BY <1>4, <1>7, <2>4, <2>5, SumOfParts
  <2>7. SumFunctionOnSet(one, S) = Len(in.rows)
    BY <1>7, <2>3
  <2>8. DOMAIN g = C
    BY <1>10, <2>2
  <2> QED
    BY <2>2, <2>6, <2>7, <2>8 DEF SumFunction
<1>15. SumFunction([i \in DOMAIN r |-> r[i].capital])
         = SumFunction([i \in DOMAIN in.rows |-> in.rows[i].capital])
  <2>1. PICK f : f = [x \in S |-> in.rows[x].capital]
    OBVIOUS
  <2>2. PICK g : g = [i \in DOMAIN r |-> r[i].capital]
    OBVIOUS
  <2>3. ASSUME NEW i \in C PROVE g[i] = SumFunctionOnSet(f, Part(S, category, i))
    <3>1. PICK P : P = Part(S, category, i)
      OBVIOUS
    <3>2. PICK h : h = [x \in P |-> in.rows[x].capital]
      OBVIOUS
    <3>3. IsFiniteSet(P) /\ P \subseteq S
      BY <1>13, <3>1
    <3>4. DOMAIN h = P /\ \A x \in P : h[x] = f[x]
      BY <2>1, <3>2, <3>3
    <3>5. SumFunctionOnSet(h, P) = SumFunctionOnSet(f, P)
      BY <3>3, <3>4, SumSame
    <3>6. g[i] = SumFunction(h)
      BY <1>10, <1>12, <2>2, <3>1, <3>2
    <3> QED
      BY <3>1, <3>4, <3>5, <3>6 DEF SumFunction
  <2>4. \A x \in S : f[x] \in Int /\ category[x] \in C
    BY <1>6, <1>9, <2>1
  <2>5. SumFunctionOnSet(g, C) = SumFunctionOnSet(f, S)
    BY <1>4, <1>7, <2>3, <2>4, SumOfParts
  <2>6. DOMAIN g = C /\ DOMAIN f = S
    BY <1>10, <2>1, <2>2
  <2>7. SumFunction(g) = SumFunction(f)
    BY <2>5, <2>6 DEF SumFunction
  <2> QED
    BY <1>5, <2>1, <2>2, <2>7
<1> QED
  BY <1>11, <1>14, <1>15

-----------------------------------------------------------------------------
(* Rounded division.                                                       *)
LEMMA HalfEvenIs ==
  ASSUME NEW n \in Nat, NEW d \in Nat, d > 0, NEW h, h = HalfEven(n, d)
  PROVE  h \in Nat /\ 2 * (d * h - n) <= d /\ 2 * (n - d * h) <= d
<1>1. PICK q, r \in Int : q = n \div d /\ r = n % d /\ n = d * q + r /\ 0 <= r /\ r < d /\ q >= 0
  BY Division
<1>2. h = IF 2 * r > d \/ (2 * r = d /\ q % 2 = 1) THEN q + 1 ELSE q
  BY <1>1 DEF HalfEven
<1>3. CASE h = q /\ 2 * r <= d
  BY <1>1, <1>3
<1>4. CASE h = q + 1 /\ 2 * r >= d
  <2>1. d * (q + 1) = d * q + d
    OBVIOUS
  <2> QED
    BY <1>1, <1>4, <2>1
<1> QED
  BY <1>1, <1>2, <1>3, <1>4

LEMMA HalfEvenExact ==
  ASSUME NEW m \in Nat, NEW d \in Nat, d > 0, NEW n, n = d * m
  PROVE  HalfEven(n, d) = m
<1>1. n \in Int /\ n = d * m + 0
  OBVIOUS
<1>2. n \div d = m /\ n % d = 0
  BY <1>1, DivisionIs
<1> QED
  BY <1>2 DEF HalfEven

(* Two parts of an even number, each rounded, make that number again.      *)
LEMMA Halves ==
  ASSUME NEW a \in Nat, NEW b \in Nat, NEW d \in Nat, d > 0, NEW half \in Nat,
         a + b = d * (2 * half)
  PROVE  HalfEven(a, d) + HalfEven(b, d) = 2 * half
<1>1. PICK q, r \in Int : q = a \div d /\ r = a % d /\ a = d * q + r /\ 0 <= r /\ r < d /\ q >= 0
  BY Division
<1>2. PICK p, s \in Int : p = b \div d /\ s = b % d /\ b = d * p + s /\ 0 <= s /\ s < d /\ p >= 0
  BY Division
<1>3. PICK e \in Int : e = 2 * half - q - p
  <2>1. 2 * half - q - p \in Int
    OBVIOUS
  <2> QED
    BY <2>1
<1>4. d * e = r + s
  <2>1. d * (2 * half - q - p) = d * (2 * half) - d * q - d * p
    OBVIOUS
  <2> QED
    BY <1>1, <1>2, <1>3, <2>1
<1>5. e \in {0, 1}
  <2>1. ~(e >= 2)
    <3>1. SUFFICES ASSUME e >= 2 PROVE FALSE
      OBVIOUS
    <3>2. d * (e - 2) >= 0
      BY <3>1
    <3>3. d * (e - 2) = d * e - 2 * d
      OBVIOUS
    <3> QED
      BY <1>1, <1>2, <1>4, <3>2, <3>3
  <2>2. ~(e <= -1)
    <3>1. SUFFICES ASSUME e <= -1 PROVE FALSE
      OBVIOUS
    <3>2. d * (-1 - e) >= 0
      BY <3>1
    <3>3. d * (-1 - e) = -d - d * e
      OBVIOUS
    <3> QED
      BY <1>1, <1>2, <1>4, <3>2, <3>3
  <2> QED
    BY <2>1, <2>2
<1>6. /\ HalfEven(a, d) = IF 2 * r > d \/ (2 * r = d /\ q % 2 = 1) THEN q + 1 ELSE q
      /\ HalfEven(b, d) = IF 2 * s > d \/ (2 * s = d /\ p % 2 = 1) THEN p + 1 ELSE p
  BY <1>1, <1>2 DEF HalfEven
<1>7. CASE e = 0
  <2>1. r = 0 /\ s = 0
    BY <1>1, <1>2, <1>4, <1>7
  <2>2. HalfEven(a, d) = q /\ HalfEven(b, d) = p
    BY <1>6, <2>1
  <2> QED
    BY <1>3, <1>7, <2>2
<1>8. CASE e = 1
  <2>1. r + s = d
    BY <1>4, <1>8
  <2>2. q + p = 2 * half - 1
    BY <1>3, <1>8
  <2>3. CASE 2 * r > d
    <3>1. HalfEven(a, d) = q + 1 /\ HalfEven(b, d) = p
      BY <1>6, <2>1, <2>3
    <3> QED
      BY <2>2, <3>1
  <2>4. CASE 2 * r < d
    <3>1. HalfEven(a, d) = q /\ HalfEven(b, d) = p + 1
      BY <1>6, <2>1, <2>4
    <3> QED
      BY <2>2, <3>1
  <2>5. CASE 2 * r = d
    <3>1. 2 * s = d
      BY <2>1, <2>5
    <3>2. (q % 2 = 1 /\ p % 2 = 0) \/ (q % 2 = 0 /\ p % 2 = 1)
      BY <2>2
    <3>3. \/ HalfEven(a, d) = q + 1 /\ HalfEven(b, d) = p
          \/ HalfEven(a, d) = q /\ HalfEven(b, d) = p + 1
      BY <1>6, <2>5, <3>1, <3>2
    <3> QED
      BY <2>2, <3>3
  <2> QED
    BY <2>3, <2>4, <2>5
<1> QED
  BY <1>5, <1>7, <1>8

-----------------------------------------------------------------------------
(* Quotients.                                                              *)
Fits(n, d) == {k \in 0..Places : n <= (TenTo[Digits] * d - 1) \div TenTo[k]}

LEMMA PlacesAre == Places \in Nat /\ Places = Digits + 2 /\ Digits \in Nat /\ Digits >= 1
  BY CalculationsAssumption DEF Places

LEMMA FitsIs ==
  ASSUME NEW n \in Nat, NEW d \in Nat, d > 0, NEW k \in 0..Places
  PROVE  k \in Fits(n, d) <=> n * TenTo[k] <= TenTo[Digits] * d - 1
<1>1. PICK p \in Nat : p = TenTo[k] /\ p > 0
  BY PlacesAre, TenToType
<1>2. PICK m \in Int : m = TenTo[Digits] * d - 1
  <2>1. TenTo[Digits] \in Nat
    BY PlacesAre, TenToType
  <2> QED
    BY <2>1
<1>3. PICK q, r \in Int : q = m \div p /\ m = p * q + r /\ 0 <= r /\ r < p
  <2>1. m \div p \in Int /\ m % p \in 0..(p - 1) /\ m = p * (m \div p) + (m % p)
    BY <1>1, Division
  <2> QED
    BY <2>1
<1>4. ASSUME n <= q PROVE n * p <= m
  <2>1. p * (q - n) >= 0
    BY <1>4
  <2>2. p * (q - n) = p * q - n * p
    OBVIOUS
  <2> QED
    BY <1>3, <2>1, <2>2
<1>5. ASSUME n >= q + 1 PROVE n * p > m
  <2>1. p * (n - (q + 1)) >= 0
    BY <1>5
  <2>2. p * (n - (q + 1)) = n * p - p * q - p
    OBVIOUS
  <2> QED
    BY <1>1, <1>3, <2>1, <2>2
<1>6. n <= q <=> n * p <= m
  BY <1>1, <1>4, <1>5
<1> QED
  BY <1>1, <1>2, <1>3, <1>6 DEF Fits

(* k digits after the point are kept.                                      *)
Kept(n, d, k) ==
  /\ Quotient(n, d) = HalfEven(n * TenTo[k], d) * TenTo[Places - k]
  /\ n * TenTo[k] <= TenTo[Digits] * d - 1
  /\ k < Places => n * TenTo[k + 1] > TenTo[Digits] * d - 1

LEMMA QuotientIs ==
  ASSUME NEW n \in Nat, NEW d \in Nat, d > 0, NEW j \in 0..Places,
         n * TenTo[j] <= TenTo[Digits] * d - 1
  PROVE  \E k \in j..Places : Kept(n, d, k)
<1>1. PICK fits : fits = Fits(n, d)
  OBVIOUS
<1>2. fits \subseteq 0..Places /\ j \in fits
  BY <1>1, FitsIs DEF Fits
<1>3. PICK top : top = Places
  OBVIOUS
<1>4. top \in Nat
  BY <1>3, PlacesAre
<1>5. PICK T : T = {top - i : i \in fits}
  OBVIOUS
<1>6. T \subseteq Nat /\ T # {}
  BY <1>2, <1>3, <1>4, <1>5
<1>7. PICK l \in T : \A m \in T : l <= m
  BY <1>6, LeastNumber
<1>8. PICK a \in fits : l = top - a
  BY <1>5, <1>7
<1>9. \A i \in fits : i <= a
  <2> SUFFICES ASSUME NEW i \in fits PROVE i <= a
    OBVIOUS
  <2>1. top - i \in T
    BY <1>5
  <2>2. l <= top - i
    BY <1>7, <2>1
  <2>3. i \in Int /\ a \in Int
    BY <1>2
  <2> QED
    BY <1>4, <1>8, <2>2, <2>3
<1>10. PICK k : k = CHOOSE i \in fits : \A m \in fits : m <= i
  OBVIOUS
<1>11. k \in fits /\ \A m \in fits : m <= k
  BY <1>8, <1>9, <1>10
<1>12. k \in j..Places
  BY <1>2, <1>11, PlacesAre
<1>13. Quotient(n, d) = HalfEven(n * TenTo[k], d) * TenTo[Places - k]
  BY <1>1, <1>10 DEF Quotient, Fits
<1>14. n * TenTo[k] <= TenTo[Digits] * d - 1
  BY <1>1, <1>2, <1>11, FitsIs
<1>15. ASSUME k < Places PROVE n * TenTo[k + 1] > TenTo[Digits] * d - 1
  <2>1. PICK i \in 0..Places : i = k + 1
    BY <1>2, <1>11, <1>15, PlacesAre
  <2>2. i \notin fits
    BY <1>2, <1>11, <2>1
  <2>3. ~(n * TenTo[i] <= TenTo[Digits] * d - 1)
    BY <1>1, <2>1, <2>2, FitsIs
  <2>4. n * TenTo[i] \in Int /\ TenTo[Digits] * d - 1 \in Int
    <3>1. TenTo[i] \in Nat /\ TenTo[Digits] \in Nat
      BY <2>1, PlacesAre, TenToType
    <3> QED
      BY <3>1
  <2> QED
    BY <2>1, <2>3, <2>4
<1> QED
  BY <1>12, <1>13, <1>14, <1>15 DEF Kept

LEMMA PowersOfPlaces ==
  /\ One \in Nat /\ One = 100 * TenTo[Digits]
  /\ TenTo[Digits] \in Nat /\ TenTo[Digits] = 10 * TenTo[Digits - 1]
  /\ TenTo[Digits - 1] \in Nat /\ TenTo[Digits - 1] >= 1
  /\ TenTo[1] = 10 /\ TenTo[2] = 100 /\ TenTo[3] = 1000
  /\ One = 10 * TenTo[Places - 1] /\ TenTo[Places - 1] = 10 * TenTo[Digits]
  /\ One \div 10 = TenTo[Places - 1]
<1>1. PICK d, e \in Nat : d = Digits /\ d = e + 1 /\ e = Digits - 1
  <2>1. Digits - 1 \in Nat /\ Digits = (Digits - 1) + 1
    BY PlacesAre
  <2> QED
    BY <2>1, PlacesAre
<1>2. PICK a, b, c \in Nat : a = TenTo[e] /\ b = TenTo[d] /\ c = TenTo[d + 1] /\ a >= 1
  BY TenToType
<1>3. b = 10 * a /\ c = 10 * b
  BY <1>1, <1>2, TenToIs
<1>4. TenTo[(d + 1) + 1] = 10 * c
  BY <1>2, TenToIs
<1>5. Places = (d + 1) + 1 /\ Places - 1 = d + 1
  BY <1>1, PlacesAre
<1>6. One = 10 * c /\ TenTo[Places - 1] = c
  BY <1>2, <1>4, <1>5 DEF One
<1>7. TenTo[1] = 10 /\ TenTo[2] = 100 /\ TenTo[3] = 1000
  <2>1. TenTo[0 + 1] = 10
    BY TenToIs
  <2>2. TenTo[1 + 1] = 10 * TenTo[1]
    BY TenToIs
  <2>3. TenTo[2 + 1] = 10 * TenTo[2]
    BY TenToIs
  <2> QED
    BY <2>1, <2>2, <2>3
<1>8. One \div 10 = c
  <2>1. PICK o \in Nat : o = One /\ o = 10 * c
    BY <1>2, <1>6
  <2>2. o \div 10 = c
    BY <2>1
  <2> QED
    BY <2>1, <2>2
<1>9. One \in Nat /\ One = 100 * b
  BY <1>2, <1>3, <1>6
<1> QED
  BY <1>1, <1>2, <1>3, <1>6, <1>7, <1>8, <1>9

(* What is kept is a multiple of the last digit kept, and half of that     *)
(* digit away at most.                                                     *)
LEMMA KeptNear ==
  ASSUME NEW n \in Nat, NEW d \in Nat, d > 0, NEW k \in 0..Places, Kept(n, d, k),
         NEW r, r = Quotient(n, d)
  PROVE  /\ r \in Nat
         /\ \E h \in Nat : r = h * TenTo[Places - k]
         /\ 2 * (r * d - n * One) <= d * TenTo[Places - k]
         /\ 2 * (n * One - r * d) <= d * TenTo[Places - k]
<1>1. k \in Nat /\ k <= Places /\ Places \in Nat
  BY PlacesAre
<1>2. PICK t, p \in Nat : t = TenTo[k] /\ p = TenTo[Places - k] /\ One = t * p
  <2>1. TenTo[Places] = TenTo[k] * TenTo[Places - k] /\ Places - k \in Nat
    BY <1>1, PowersShrink
  <2> QED
    BY <1>1, <2>1, TenToType DEF One
<1>3. PICK m \in Nat : m = n * t
  OBVIOUS
<1>4. PICK h \in Nat : h = HalfEven(m, d) /\ 2 * (d * h - m) <= d /\ 2 * (m - d * h) <= d
  BY HalfEvenIs
<1>5. r = h * p
  BY <1>2, <1>3, <1>4 DEF Kept
<1>6. PICK x, y \in Int : x = d * h - m /\ y = d - 2 * x /\ y >= 0 /\ d + 2 * x >= 0
  <2>1. d * h - m \in Int
    OBVIOUS
  <2>2. PICK x \in Int : x = d * h - m
    BY <2>1
  <2>3. d - 2 * x \in Int /\ d - 2 * x >= 0 /\ d + 2 * x >= 0
    BY <1>4, <2>2
  <2> QED
    BY <2>2, <2>3
<1>7. (h * p) * d - n * (t * p) = x * p
  <2>1. (h * p) * d = (d * h) * p /\ n * (t * p) = (n * t) * p
    OBVIOUS
  <2>2. (d * h - m) * p = (d * h) * p - m * p
    OBVIOUS
  <2> QED
    BY <1>3, <1>6, <2>1, <2>2
<1>8. (d - 2 * x) * p >= 0 /\ (d + 2 * x) * p >= 0
  BY <1>6
<1>9. (d - 2 * x) * p = d * p - 2 * (x * p) /\ (d + 2 * x) * p = d * p + 2 * (x * p)
  OBVIOUS
<1>10. PICK z \in Int : z = x * p
  OBVIOUS
<1>11. r * d - n * One = z /\ 2 * z <= d * p /\ -(2 * z) <= d * p
  BY <1>2, <1>5, <1>7, <1>8, <1>9, <1>10
<1>12. PICK v, w \in Int : v = r * d /\ w = n * One
  <2>1. r * d \in Int /\ n * One \in Int
    BY <1>2, <1>5
  <2> QED
    BY <2>1
<1>13. PICK e \in Int : e = d * p
  OBVIOUS
<1>14. 2 * (v - w) <= e /\ 2 * (w - v) <= e
  BY <1>11, <1>12, <1>13
<1> QED
  BY <1>2, <1>5, <1>12, <1>13, <1>14

(* A quotient that ends is exact.                                          *)
LEMMA KeptExact ==
  ASSUME NEW n \in Nat, NEW d \in Nat, d > 0, NEW k \in 0..Places, Kept(n, d, k),
         NEW j \in 0..k, NEW m \in Nat, n * TenTo[j] = d * m
  PROVE  Quotient(n, d) = m * TenTo[Places - j]
<1>1. j \in Nat /\ k \in Nat /\ j <= k /\ k <= Places /\ Places \in Nat
  BY PlacesAre
<1>2. PICK a, b, c \in Nat : /\ a = TenTo[j] /\ b = TenTo[k - j] /\ c = TenTo[Places - k]
                             /\ TenTo[k] = a * b /\ TenTo[Places - j] = b * c
  <2>1. k - j \in Nat /\ TenTo[k] = TenTo[j] * TenTo[k - j]
    BY <1>1, PowersShrink
  <2>2. Places - k \in Nat /\ Places - j = (k - j) + (Places - k)
    BY <1>1
  <2>3. TenTo[Places - j] = TenTo[k - j] * TenTo[Places - k]
    BY <2>1, <2>2, TenToSum
  <2> QED
    BY <1>1, <2>1, <2>2, <2>3, TenToType
<1>3. n * TenTo[k] = d * (m * b)
  <2>1. n * (a * b) = (n * a) * b
    OBVIOUS
  <2>2. (d * m) * b = d * (m * b)
    OBVIOUS
  <2> QED
    BY <1>2, <2>1, <2>2
<1>4. PICK l \in Nat : l = m * b
  OBVIOUS
<1>5. HalfEven(n * TenTo[k], d) = l
  BY <1>3, <1>4, HalfEvenExact
<1>6. Quotient(n, d) = l * c
  BY <1>2, <1>5 DEF Kept
<1>7. (m * b) * c = m * (b * c)
  OBVIOUS
<1> QED
  BY <1>2, <1>4, <1>6, <1>7

LEMMA QuotientExact ==
  ASSUME NEW n \in Nat, NEW d \in Nat, d > 0, NEW j \in 0..Places,
         n * TenTo[j] <= TenTo[Digits] * d - 1, NEW m \in Nat, n * TenTo[j] = d * m
  PROVE  Quotient(n, d) = m * TenTo[Places - j]
<1>1. PICK k \in j..Places : Kept(n, d, k)
  BY QuotientIs
<1>2. k \in 0..Places /\ j \in 0..k
  BY PlacesAre
<1> QED
  BY <1>1, <1>2, KeptExact

LEMMA QuotientNear ==
  ASSUME NEW n \in Nat, NEW d \in Nat, d > 0, NEW j \in 0..Places,
         n * TenTo[j] <= TenTo[Digits] * d - 1, NEW r, r = Quotient(n, d)
  PROVE  /\ r \in Nat
         /\ 2 * (r * d - n * One) <= d * TenTo[Places - j]
         /\ 2 * (n * One - r * d) <= d * TenTo[Places - j]
<1>1. PICK k \in j..Places : Kept(n, d, k)
  BY QuotientIs
<1>2. k \in 0..Places /\ Places - k \in Nat /\ Places - j \in Nat /\ Places - k <= Places - j
  BY PlacesAre
<1>3. PICK p, q \in Nat : p = TenTo[Places - k] /\ q = TenTo[Places - j] /\ p <= q
  <2>1. TenTo[Places - k] <= TenTo[Places - j]
    BY <1>2, PowersShrink
  <2> QED
    BY <1>2, <2>1, TenToType
<1>4. r \in Nat /\ 2 * (r * d - n * One) <= d * p /\ 2 * (n * One - r * d) <= d * p
  BY <1>1, <1>2, <1>3, KeptNear
<1>5. d * p <= d * q
  <2>1. d * (q - p) >= 0
    BY <1>3
  <2> QED
    BY <2>1
<1>6. PICK v, w \in Int : v = r * d /\ w = n * One
  <2>1. r * d \in Int /\ n * One \in Int
    BY <1>4, PowersOfPlaces
  <2> QED
    BY <2>1
<1>7. PICK e, f \in Int : e = d * p /\ f = d * q
  OBVIOUS
<1>8. 2 * (v - w) <= f /\ 2 * (w - v) <= f
  BY <1>4, <1>5, <1>6, <1>7
<1> QED
  BY <1>3, <1>4, <1>6, <1>7, <1>8

(* Ownership: a part, the whole and nothing of it.                         *)
LEMMA NoneOf ==
  ASSUME NEW d \in Nat, d > 0 PROVE Quotient(0, d) = 0
<1>1. 0 \in 0..Places
  BY PlacesAre
<1>2. PICK t \in Nat : t = TenTo[Digits] /\ t >= 1
  BY PlacesAre, TenToType
<1>3. t * d >= 1
  <2>1. t * (d - 1) >= 0
    OBVIOUS
  <2> QED
    BY <1>2, <2>1
<1>4. 0 * TenTo[0] = 0
  BY TenToIs
<1>5. 0 * TenTo[0] <= TenTo[Digits] * d - 1 /\ 0 * TenTo[0] = d * 0
  BY <1>2, <1>3, <1>4
<1>6. Quotient(0, d) = 0 * TenTo[Places - 0]
  BY <1>1, <1>5, QuotientExact
<1>7. TenTo[Places - 0] \in Nat
  BY PlacesAre, TenToType
<1> QED
  BY <1>6, <1>7

LEMMA AllOf ==
  ASSUME NEW d \in Nat, d > 0 PROVE Quotient(d, d) = One
<1>1. PICK j \in 0..Places : j = Digits - 1 /\ Places - j = 3
  BY PlacesAre
<1>2. PICK u \in Nat : u = TenTo[j] /\ u >= 1 /\ TenTo[Digits] = 10 * u
  BY <1>1, PowersOfPlaces
<1>3. d * u <= (10 * u) * d - 1
  <2>1. u * d >= 1
    <3>1. (u - 1) * d >= 0
      BY <1>2
    <3> QED
      BY <3>1
  <2>2. d * u = u * d /\ (10 * u) * d = 10 * (u * d)
    OBVIOUS
  <2> QED
    BY <2>1, <2>2
<1>4. Quotient(d, d) = u * TenTo[3]
  <2>1. d * TenTo[j] <= TenTo[Digits] * d - 1 /\ d * TenTo[j] = d * u
    BY <1>2, <1>3
  <2>2. Quotient(d, d) = u * TenTo[Places - j]
    BY <2>1, QuotientExact
  <2> QED
    BY <1>1, <2>2
<1> QED
  BY <1>2, <1>4, PowersOfPlaces

LEMMA PartFits ==
  ASSUME NEW n \in Nat, NEW d \in Nat, n < d
  PROVE  Digits \in 0..Places /\ n * TenTo[Digits] <= TenTo[Digits] * d - 1
<1>1. PICK t \in Nat : t = TenTo[Digits] /\ t >= 1
  BY PlacesAre, TenToType
<1>2. t * (d - n - 1) >= 0
  BY <1>1
<1>3. t * (d - n - 1) = t * d - n * t - t
  OBVIOUS
<1>4. n * t <= t * d - 1
  BY <1>1, <1>2, <1>3
<1> QED
  BY <1>1, <1>4, PlacesAre

(* The last digit of a ratio is one of three.                              *)
LEMMA LastDigits ==
  ASSUME NEW n \in Nat, NEW d \in Nat, n < d
  PROVE  \E k \in Digits..Places :
           /\ Kept(n, d, k)
           /\ (k = Digits /\ TenTo[Places - k] = 100) \/ TenTo[Places - k] \in {1, 10}
<1>1. PICK k \in Digits..Places : Kept(n, d, k)
  BY PartFits, QuotientIs
<1>2. \/ k = Digits /\ Places - k = 2
      \/ Places - k = 1
      \/ Places - k = 0
  BY PlacesAre
<1>3. \/ k = Digits /\ TenTo[Places - k] = 100
      \/ TenTo[Places - k] = 10
      \/ TenTo[Places - k] = 1
  BY <1>2, PowersOfPlaces, TenToIs
<1> QED
  BY <1>1, <1>3

(* Two ratios that make the whole, each rounded, are its exact ratios to   *)
(* half of the last digit of the larger.                                   *)
LEMMA PartsOfOne ==
  ASSUME NEW n \in Nat, NEW m \in Nat, NEW d \in Nat, n < d, m < d, n + m = d
  PROVE  /\ Quotient(n, d) \in Nat /\ Quotient(m, d) \in Nat
         /\ Quotient(n, d) + Quotient(m, d) - One \in (-50)..50
<1>1. PICK k \in Digits..Places :
        /\ Kept(n, d, k)
        /\ (k = Digits /\ TenTo[Places - k] = 100) \/ TenTo[Places - k] \in {1, 10}
  BY LastDigits
<1>2. PICK l \in Digits..Places :
        /\ Kept(m, d, l)
        /\ (l = Digits /\ TenTo[Places - l] = 100) \/ TenTo[Places - l] \in {1, 10}
  BY LastDigits
<1>3. k \in 0..Places /\ l \in 0..Places /\ d > 0
  BY PlacesAre
<1>4. PICK t, one \in Nat : t = TenTo[Digits] /\ one = One /\ one = 100 * t
  BY PowersOfPlaces
<1>5. PICK p, q \in Nat : p = TenTo[Places - k] /\ q = TenTo[Places - l]
  BY <1>1, <1>2
<1>6. PICK r \in Nat : /\ r = Quotient(n, d) /\ \E h \in Nat : r = h * p
                       /\ 2 * (r * d - n * one) <= d * p /\ 2 * (n * one - r * d) <= d * p
  BY <1>1, <1>3, <1>4, <1>5, KeptNear
<1>7. PICK s \in Nat : /\ s = Quotient(m, d) /\ \E h \in Nat : s = h * q
                       /\ 2 * (s * d - m * one) <= d * q /\ 2 * (m * one - s * d) <= d * q
  BY <1>2, <1>3, <1>4, <1>5, KeptNear
<1>8. PICK e \in Int : e = r + s - one
  <2>1. r + s - one \in Int
    OBVIOUS
  <2> QED
    BY <2>1
<1>9. d * e = (r * d - n * one) + (s * d - m * one)
  <2>1. d * (r + s - one) = r * d + s * d - d * one
    OBVIOUS
  <2>2. (n + m) * one = n * one + m * one
    OBVIOUS
  <2>3. d * one = n * one + m * one
    BY <2>2
  <2> QED
    BY <1>8, <2>1, <2>3
<1>10. 2 * (d * e) <= d * (p + q) /\ -(2 * (d * e)) <= d * (p + q)
  <2>1. d * (p + q) = d * p + d * q
    OBVIOUS
  <2>2. PICK x, y \in Int : x = r * d - n * one /\ y = s * d - m * one
    <3>1. r * d - n * one \in Int /\ s * d - m * one \in Int
      OBVIOUS
    <3> QED
      BY <3>1
  <2>3. -x = n * one - r * d /\ -y = m * one - s * d
    BY <2>2
  <2>4. 2 * x <= d * p /\ -(2 * x) <= d * p /\ 2 * y <= d * q /\ -(2 * y) <= d * q
    BY <1>6, <1>7, <2>2, <2>3
  <2> QED
    BY <1>9, <2>1, <2>2, <2>4
<1>11. 2 * e <= p + q /\ -(2 * e) <= p + q
  <2>1. ASSUME 2 * e >= p + q + 1 PROVE FALSE
    <3>1. d * (2 * e - (p + q) - 1) >= 0
      BY <2>1
    <3>2. d * (2 * e - (p + q) - 1) = 2 * (d * e) - d * (p + q) - d
      OBVIOUS
    <3> QED
      BY <1>3, <1>10, <3>1, <3>2
  <2>2. ASSUME -(2 * e) >= p + q + 1 PROVE FALSE
    <3>1. d * (-(2 * e) - (p + q) - 1) >= 0
      BY <2>2
    <3>2. d * (-(2 * e) - (p + q) - 1) = -(2 * (d * e)) - d * (p + q) - d
      OBVIOUS
    <3> QED
      BY <1>3, <1>10, <3>1, <3>2
  <2> QED
    BY <2>1, <2>2
<1>12. e \in (-50)..50
  <2>1. CASE p = 100 /\ k = Digits /\ q = 100 /\ l = Digits
    <3>1. PICK u \in Nat : t = 2 * u
      <4>1. PICK v \in Nat : t = 10 * v
        BY <1>4, PowersOfPlaces
      <4>2. t = 2 * (5 * v)
        BY <4>1
      <4> QED
        BY <4>2
    <3>2. n * t + m * t = d * (2 * u)
      <4>1. (n + m) * t = n * t + m * t
        OBVIOUS
      <4> QED
        BY <3>1, <4>1
    <3>3. PICK a, b \in Nat : a = n * t /\ b = m * t
      OBVIOUS
    <3>4. HalfEven(a, d) + HalfEven(b, d) = 2 * u
      BY <1>3, <3>2, <3>3, Halves
    <3>5. HalfEven(a, d) \in Nat /\ HalfEven(b, d) \in Nat
      BY <1>3, HalfEvenIs
    <3>6. r = HalfEven(a, d) * 100 /\ s = HalfEven(b, d) * 100
      BY <1>1, <1>2, <1>4, <1>5, <1>6, <1>7, <2>1, <3>3 DEF Kept
    <3>7. r + s = one
      BY <1>4, <3>1, <3>4, <3>5, <3>6
    <3> QED
      BY <1>8, <3>7
  <2>2. CASE p \in {1, 10} /\ q \in {1, 10}
    BY <1>11, <2>2
  <2>3. CASE p = 100 /\ q = 10
    <3>1. PICK g, h \in Nat : r = g * 100 /\ s = h * 10
      BY <1>6, <1>7, <2>3
    <3>2. e = 10 * (10 * g + h - 10 * t)
      BY <1>4, <1>8, <3>1
    <3>3. e <= 55 /\ e >= -55
      BY <1>11, <2>3
    <3>4. PICK f \in Int : f = 10 * g + h - 10 * t
      <4>1. 10 * g + h - 10 * t \in Int
        OBVIOUS
      <4> QED
        BY <4>1
    <3>5. e = 10 * f
      BY <3>2, <3>4
    <3> QED
      BY <3>3, <3>5
  <2>4. CASE p = 10 /\ q = 100
    <3>1. PICK g, h \in Nat : r = g * 10 /\ s = h * 100
      BY <1>6, <1>7, <2>4
    <3>2. e = 10 * (g + 10 * h - 10 * t)
      BY <1>4, <1>8, <3>1
    <3>3. e <= 55 /\ e >= -55
      BY <1>11, <2>4
    <3>4. PICK f \in Int : f = g + 10 * h - 10 * t
      <4>1. g + 10 * h - 10 * t \in Int
        OBVIOUS
      <4> QED
        BY <4>1
    <3>5. e = 10 * f
      BY <3>2, <3>4
    <3> QED
      BY <3>3, <3>5
  <2>5. CASE (p = 100 /\ q = 1) \/ (p = 1 /\ q = 100)
    BY <1>11, <2>5
  <2>6. /\ (p = 100 /\ k = Digits) \/ p \in {1, 10}
        /\ (q = 100 /\ l = Digits) \/ q \in {1, 10}
    BY <1>1, <1>2, <1>5
  <2> QED
    BY <2>1, <2>2, <2>3, <2>4, <2>5, <2>6
<1> QED
  BY <1>4, <1>6, <1>7, <1>8, <1>12

LEMMA RatiosMakeOne ==
  ASSUME NEW n \in Nat, NEW m \in Nat, NEW d \in Nat, d > 0, n + m = d
  PROVE  /\ Quotient(n, d) \in Nat /\ Quotient(m, d) \in Nat
         /\ Quotient(n, d) + Quotient(m, d) - One \in (-50)..50
<1>1. One \in Nat
  BY PowersOfPlaces
<1>2. CASE n = 0
  <2>1. m = d
    BY <1>2
  <2>2. Quotient(n, d) = 0 /\ Quotient(m, d) = One
    BY <1>2, <2>1, NoneOf, AllOf
  <2> QED
    BY <1>1, <2>2
<1>3. CASE m = 0
  <2>1. n = d
    BY <1>3
  <2>2. Quotient(m, d) = 0 /\ Quotient(n, d) = One
    BY <1>3, <2>1, NoneOf, AllOf
  <2> QED
    BY <1>1, <2>2
<1>4. CASE n # 0 /\ m # 0
  <2>1. n < d /\ m < d
    BY <1>4
  <2> QED
    BY <2>1, PartsOfOne
<1> QED
  BY <1>2, <1>3, <1>4

(* Such a sum, rounded, is one.                                            *)
LEMMA OneAgain ==
  ASSUME NEW s \in Nat, s - One \in (-50)..50
  PROVE  Quotient(s, One) = One
<1>1. PICK one, t, u \in Nat : /\ one = One /\ t = TenTo[Digits] /\ u = TenTo[Digits - 1]
                               /\ one = 100 * t /\ t = 10 * u /\ u >= 1
  BY PowersOfPlaces
<1>0. one > 0
  BY <1>1
<1>2. CASE s = one
  <2>1. Quotient(one, one) = One
    BY <1>0, AllOf
  <2> QED
    BY <1>1, <1>2, <2>1
<1>3. CASE s < one
  <2>1. PICK k \in Digits..Places : Kept(s, one, k)
    <3>1. Digits \in 0..Places /\ s * TenTo[Digits] <= TenTo[Digits] * one - 1
      BY <1>3, PartFits
    <3>2. s * TenTo[Digits] <= TenTo[Digits] * one - 1
      BY <3>1
    <3> QED
      BY <1>0, <3>1, <3>2, QuotientIs
  <2>2. k = Digits
    <3>1. SUFFICES ASSUME k >= Digits + 1 PROVE FALSE
      BY PlacesAre
    <3>2. TenTo[Digits + 1] = 10 * t
      BY <1>1, PlacesAre, TenToIs
    <3>3. PICK w \in Nat : w = TenTo[k] /\ w >= 10 * t
      <4>1. Digits + 1 \in Nat /\ k \in Nat
        BY PlacesAre
      <4>2. TenTo[Digits + 1] <= TenTo[k] /\ TenTo[k] \in Nat
        BY <3>1, <4>1, PowersShrink, TenToType
      <4> QED
        BY <3>2, <4>2
    <3>4. s * w <= t * one - 1
      BY <1>1, <2>1, <3>3 DEF Kept
    <3>5. s * w >= s * (10 * t)
      <4>1. s * (w - 10 * t) >= 0
        BY <3>3
      <4>2. s * (w - 10 * t) = s * w - s * (10 * t)
        OBVIOUS
      <4> QED
        BY <4>1, <4>2
    <3>6. s * (10 * t) >= t * one
      <4>1. 10 * s >= one
        BY <1>1
      <4>2. t * (10 * s - one) >= 0
        BY <4>1
      <4>3. t * (10 * s - one) = s * (10 * t) - t * one
        OBVIOUS
      <4> QED
        BY <4>2, <4>3
    <3> QED
      BY <3>4, <3>5, <3>6
  <2>3. PICK e \in 1..50 : e = one - s
    BY <1>1, <1>3
  <2>4. PICK x \in Nat : x = e * t /\ x <= 50 * t /\ x >= t /\ (e # 50 => x <= 49 * t)
    <3>1. PICK x \in Nat : x = e * t
      OBVIOUS
    <3>2. (50 - e) * t >= 0 /\ (e - 1) * t >= 0
      BY <2>3
    <3>3. (50 - e) * t = 50 * t - x /\ (e - 1) * t = x - t
      BY <3>1
    <3>4. ASSUME e # 50 PROVE x <= 49 * t
      <4>1. (49 - e) * t >= 0
        BY <2>3, <3>4
      <4>2. (49 - e) * t = 49 * t - x
        BY <3>1
      <4> QED
        BY <4>1, <4>2
    <3> QED
      BY <3>1, <3>2, <3>3, <3>4
  <2>5. s * t = one * (t - 1) + (one - x)
    <3>1. (one - e) * t = one * t - e * t
      OBVIOUS
    <3>2. one * (t - 1) = one * t - one
      OBVIOUS
    <3> QED
      BY <2>3, <2>4, <3>1, <3>2
  <2>6. PICK n \in Nat : n = s * t
    OBVIOUS
  <2>7. n \div one = t - 1 /\ n % one = one - x
    <3>1. 0 <= one - x /\ one - x < one
      BY <1>1, <2>4
    <3>2. t - 1 \in Int /\ one - x \in Int
      OBVIOUS
    <3> QED
      BY <1>0, <2>5, <2>6, <3>1, <3>2, DivisionIs
  <2>8. HalfEven(n, one) = t
    <3>1. (t - 1) % 2 = 1
      BY <1>1
    <3>2. 2 * (one - x) > one \/ 2 * (one - x) = one
      BY <1>1, <2>4
    <3>3. HalfEven(n, one) = (t - 1) + 1
      BY <2>7, <3>1, <3>2 DEF HalfEven
    <3> QED
      BY <3>3
  <2>9. Places - k = 2
    BY <2>2, PlacesAre
  <2>10. Quotient(s, one) = t * 100
    BY <1>1, <2>1, <2>2, <2>6, <2>8, <2>9, PowersOfPlaces DEF Kept
  <2> QED
    BY <1>1, <2>10
<1>4. CASE s > one
  <2>1. PICK j \in 0..Places : j = Digits - 1 /\ Places - j = 3
    BY PlacesAre
  <2>2. PICK k \in j..Places : Kept(s, one, k)
    <3>1. s * u <= t * one - 1
      <4>1. s <= 2 * one
        BY <1>1
      <4>2. u * (2 * one - s) >= 0
        BY <4>1
      <4>3. u * (2 * one - s) = 2 * (u * one) - s * u
        OBVIOUS
      <4>4. u * one >= 1
        <5>1. (u - 1) * one >= 0 /\ one >= 1
          BY <1>1
        <5>2. (u - 1) * one = u * one - one
          OBVIOUS
        <5> QED
          BY <5>1, <5>2
      <4>5. (10 * u) * one = 10 * (u * one)
        OBVIOUS
      <4>6. t * one = 10 * (u * one)
        BY <1>1, <4>5
      <4> QED
        BY <4>2, <4>3, <4>4, <4>6
    <3>2. s * TenTo[j] <= TenTo[Digits] * one - 1
      BY <1>1, <2>1, <3>1
    <3> QED
      BY <1>0, <3>2, QuotientIs
  <2>3. k = j
    <3>1. SUFFICES ASSUME k >= Digits PROVE FALSE
      BY <2>1, PlacesAre
    <3>2. PICK w \in Nat : w = TenTo[k] /\ w >= t
      <4>1. TenTo[Digits] <= TenTo[k] /\ TenTo[k] \in Nat
        BY <2>1, <3>1, PlacesAre, PowersShrink, TenToType
      <4> QED
        BY <1>1, <4>1
    <3>3. s * w <= t * one - 1
      BY <1>1, <2>2, <3>2 DEF Kept
    <3>4. s * w >= s * t
      <4>1. s * (w - t) >= 0
        BY <3>2
      <4>2. s * (w - t) = s * w - s * t
        OBVIOUS
      <4> QED
        BY <4>1, <4>2
    <3>5. s * t >= t * one
      <4>1. t * (s - one) >= 0
        BY <1>4
      <4>2. t * (s - one) = s * t - t * one
        OBVIOUS
      <4> QED
        BY <4>1, <4>2
    <3> QED
      BY <3>3, <3>4, <3>5
  <2>4. PICK e \in 1..50 : e = s - one
    BY <1>1, <1>4
  <2>5. PICK x \in Nat : x = e * u /\ x <= 50 * u
    <3>1. PICK x \in Nat : x = e * u
      OBVIOUS
    <3>2. (50 - e) * u >= 0
      BY <2>4
    <3>3. (50 - e) * u = 50 * u - x
      BY <3>1
    <3> QED
      BY <3>1, <3>2, <3>3
  <2>6. s * u = one * u + x
    <3>1. s = one + e
      BY <2>4
    <3>2. (one + e) * u = one * u + e * u
      OBVIOUS
    <3> QED
      BY <2>5, <3>1, <3>2
  <2>7. PICK n \in Nat : n = s * u
    OBVIOUS
  <2>8. n \div one = u /\ n % one = x
    <3>1. 0 <= x /\ x < one
      BY <1>1, <2>5
    <3> QED
      BY <1>0, <2>6, <2>7, <3>1, DivisionIs
  <2>9. HalfEven(n, one) = u
    <3>1. ~(2 * x > one) /\ ~(2 * x = one)
      BY <1>1, <2>5
    <3> QED
      BY <2>8, <3>1 DEF HalfEven
  <2>10. Quotient(s, one) = u * 1000
    BY <1>1, <2>1, <2>2, <2>3, <2>7, <2>9, PowersOfPlaces DEF Kept
  <2> QED
    BY <1>1, <2>10
<1> QED
  BY <1>1, <1>2, <1>3, <1>4

-----------------------------------------------------------------------------
(* splitUnits: the floors of two rounded products never exceed the total,  *)
(* and what they leave goes to one of the two.                             *)
LEMMA FloorsFit ==
  ASSUME NEW total \in Nat, NEW one \in Nat, one > 0, NEW x \in Nat, NEW y \in Nat,
         x + y < (total + 1) * one
  PROVE  x \div one \in Int /\ y \div one \in Int /\ total - x \div one - y \div one \in Nat
<1>1. x \div one \in Int /\ x % one \in 0..(one - 1) /\ x = one * (x \div one) + (x % one)
  BY Division
<1>2. y \div one \in Int /\ y % one \in 0..(one - 1) /\ y = one * (y \div one) + (y % one)
  BY Division
<1>3. PICK p, q, i, j \in Int : /\ p = x \div one /\ x = one * p + i /\ i >= 0
                                /\ q = y \div one /\ y = one * q + j /\ j >= 0
  BY <1>1, <1>2
<1>4. p + q <= total
  <2>1. SUFFICES ASSUME p + q >= total + 1 PROVE FALSE
    OBVIOUS
  <2>2. one * (p + q - (total + 1)) >= 0
    BY <2>1
  <2>3. one * (p + q - (total + 1)) = one * p + one * q - (total + 1) * one
    OBVIOUS
  <2> QED
    BY <1>3, <2>2, <2>3
<1>5. total - p - q \in Nat
  BY <1>4
<1> QED
  BY <1>3, <1>5

LEMMA RestGoesToOne ==
  ASSUME NEW p \in Int, NEW q \in Int, NEW e \in Nat, NEW first \in BOOLEAN,
         NEW a, a = p + (IF e > 0 /\ first THEN e ELSE 0),
         NEW b, b = q + (IF e > 0 /\ ~first THEN e ELSE 0)
  PROVE  a \in Int /\ b \in Int /\ a + b = p + q + e
<1>1. CASE e > 0 /\ first
  BY <1>1
<1>2. CASE e > 0 /\ ~first
  BY <1>2
<1>3. CASE e = 0
  BY <1>3
<1> QED
  BY <1>1, <1>2, <1>3

LEMMA SplitAll ==
  ASSUME NEW total \in Nat, NEW f, NEW g,
         Product(total, f) \in Nat, Product(total, g) \in Nat,
         Product(total, f) + Product(total, g) < (total + 1) * One
  PROVE  \E a, b \in Int : SplitUnits(total, f, g) = <<a, b>> /\ a + b = total
<1>1. PICK one \in Nat : one = One /\ one > 0
  BY PowersOfPlaces
<1>2. PICK x \in Nat : x = Product(total, f)
  OBVIOUS
<1>3. PICK y \in Nat : y = Product(total, g)
  OBVIOUS
<1>4. x + y < (total + 1) * one
  BY <1>1, <1>2, <1>3
<1>5. PICK p, q \in Int : p = x \div one /\ q = y \div one /\ total - p - q \in Nat
  BY <1>1, <1>4, FloorsFit
<1>6. PICK e \in Nat : e = total - p - q
  BY <1>5
<1>7. PICK first : first = (x % one >= y % one)
  OBVIOUS
<1>8. first \in BOOLEAN
  BY <1>7
<1>9. PICK a : a = p + (IF e > 0 /\ first THEN e ELSE 0)
  OBVIOUS
<1>10. PICK b : b = q + (IF e > 0 /\ ~first THEN e ELSE 0)
  OBVIOUS
<1>11. SplitUnits(total, f, g) = <<a, b>>
  BY <1>1, <1>2, <1>3, <1>5, <1>6, <1>7, <1>9, <1>10 DEF SplitUnits
<1>12. a \in Int /\ b \in Int /\ a + b = p + q + e
  BY <1>8, <1>9, <1>10, RestGoesToOne
<1>13. a + b = total
  BY <1>6, <1>12
<1> QED
  BY <1>11, <1>12, <1>13

LEMMA FewTens ==
  ASSUME NEW total \in Nat, FewDigits(total)
  PROVE  10 * total <= TenTo[Digits] - 10
<1>1. total < TenTo[Digits - 1]
  BY DEF FewDigits, Magnitude
<1> QED
  BY <1>1, PowersOfPlaces

(* A negotiated ratio has few digits: the product is exact.                *)
LEMMA ProductOfTenths ==
  ASSUME NEW total \in Nat, FewDigits(total), NEW b \in 0..10
  PROVE  Product(total, b * (One \div 10)) = (total * b) * (One \div 10)
<1>1. PICK one, t, c \in Nat : /\ one = One /\ t = TenTo[Digits] /\ one > 0
                               /\ c = One \div 10 /\ c = TenTo[Places - 1] /\ one = 10 * c
  BY PowersOfPlaces, TenToType, PlacesAre
<1>2. 10 * total <= t - 10
  BY <1>1, FewTens
<1>3. PICK m \in Nat : m = total * b
  OBVIOUS
<1>4. m <= t - 10
  <2>1. total * (10 - b) >= 0
    OBVIOUS
  <2>2. total * (10 - b) = 10 * total - m
    BY <1>3
  <2> QED
    BY <1>2, <2>1, <2>2
<1>5. PICK n \in Nat : n = total * (b * c)
  OBVIOUS
<1>6. n * 10 = one * m
  <2>1. (total * (b * c)) * 10 = (10 * c) * (total * b)
    OBVIOUS
  <2> QED
    BY <1>1, <1>3, <1>5, <2>1
<1>7. one * m <= t * one - 1
  <2>1. one * (t - 10 - m) >= 0
    BY <1>4
  <2>2. one * (t - 10 - m) = t * one - 10 * one - one * m
    OBVIOUS
  <2> QED
    BY <1>1, <2>1, <2>2
<1>8. 1 \in 0..Places
  BY PlacesAre
<1>9. n * TenTo[1] <= TenTo[Digits] * one - 1 /\ n * TenTo[1] = one * m
  BY <1>1, <1>6, <1>7, PowersOfPlaces
<1>10. Quotient(n, one) = m * TenTo[Places - 1]
  BY <1>1, <1>8, <1>9, QuotientExact
<1> QED
  BY <1>1, <1>3, <1>5, <1>10 DEF Product

LEMMA ProductOfRatio ==
  ASSUME NEW total \in Nat, FewDigits(total), NEW r \in Nat, r <= One + 50
  PROVE  /\ Product(total, r) \in Nat
         /\ 2 * (Product(total, r) - total * r) <= One \div 10
<1>1. PICK one, t, c \in Nat : /\ one = One /\ t = TenTo[Digits] /\ one > 0 /\ one = 100 * t
                               /\ c = One \div 10 /\ c = TenTo[Places - 1] /\ one = 10 * c
  BY PowersOfPlaces, TenToType, PlacesAre
<1>2. 10 * total <= t - 10
  BY <1>1, FewTens
<1>3. PICK n \in Nat : n = total * r
  OBVIOUS
<1>4. n * 10 <= t * one - 1
  <2>1. total * (one + 50 - r) >= 0
    BY <1>1
  <2>2. total * (one + 50 - r) = total * one + 50 * total - n
    BY <1>3
  <2>3. one * (t - 10 - 10 * total) >= 0
    BY <1>2
  <2>4. one * (t - 10 - 10 * total) = t * one - 10 * one - 10 * (total * one)
    OBVIOUS
  <2>5. PICK v, w \in Int : v = total * one /\ w = t * one
    OBVIOUS
  <2> QED
    BY <1>1, <1>2, <2>1, <2>2, <2>3, <2>4, <2>5
<1>5. 1 \in 0..Places
  BY PlacesAre
<1>6. n * TenTo[1] <= TenTo[Digits] * one - 1
  BY <1>1, <1>4, PowersOfPlaces
<1>7. PICK x \in Nat : x = Quotient(n, one) /\ 2 * (x * one - n * one) <= one * c
  BY <1>1, <1>5, <1>6, QuotientNear
<1>8. 2 * (x - n) <= c
  <2>1. SUFFICES ASSUME 2 * (x - n) >= c + 1 PROVE FALSE
    OBVIOUS
  <2>2. one * (2 * (x - n) - c - 1) >= 0
    BY <2>1
  <2>3. one * (2 * (x - n) - c - 1) = 2 * (x * one - n * one) - one * c - one
    OBVIOUS
  <2>4. PICK v, w \in Int : v = 2 * (x * one - n * one) /\ w = one * c
    <3>1. 2 * (x * one - n * one) \in Int
      OBVIOUS
    <3> QED
      BY <3>1
  <2> QED
    BY <1>1, <1>7, <2>2, <2>3, <2>4
<1> QED
  BY <1>1, <1>3, <1>7, <1>8 DEF Product

(* A profit by the negotiated ratio, and a loss by the ratio of capital.   *)
LEMMA ProfitIsSplit ==
  ASSUME NEW total \in Nat, FewDigits(total), NEW a \in Nat, NEW b \in Nat, a + b = 10
  PROVE  \E p, q \in Int : /\ SplitUnits(total, a * (One \div 10), b * (One \div 10)) = <<p, q>>
                           /\ p + q = total
<1>1. PICK c \in Nat : c = One \div 10 /\ One = 10 * c /\ One > 0
  BY PowersOfPlaces, TenToType, PlacesAre
<1>2. a \in 0..10 /\ b \in 0..10
  OBVIOUS
<1>3. PICK x, y \in Nat : x = (total * a) * c /\ y = (total * b) * c
  OBVIOUS
<1>4. x = Product(total, a * c) /\ y = Product(total, b * c)
  BY <1>1, <1>2, <1>3, ProductOfTenths
<1>5. x + y < (total + 1) * One
  <2>1. (total * a) * c + (total * b) * c = (a + b) * (total * c)
    OBVIOUS
  <2>2. x + y = 10 * (total * c)
    BY <1>3, <2>1
  <2>3. (total + 1) * (10 * c) = 10 * (total * c) + 10 * c
    OBVIOUS
  <2> QED
    BY <1>1, <2>2, <2>3
<1> QED
  BY <1>1, <1>4, <1>5, SplitAll

(* Two products that make no more than the total and one unit.             *)
LEMMA ProductsTogether ==
  ASSUME NEW total \in Nat, FewDigits(total), NEW r \in Nat, NEW s \in Nat,
         r + s - One \in (-50)..50,
         NEW x, x = Product(total, r), NEW y, y = Product(total, s)
  PROVE  x + y < (total + 1) * One
<1>1. PICK one, t, c \in Nat : /\ one = One /\ t = TenTo[Digits] /\ one > 0 /\ one = 100 * t
                               /\ c = One \div 10 /\ one = 10 * c
  BY PowersOfPlaces, TenToType, PlacesAre
<1>2. r + s <= one + 50
  BY <1>1
<1>3. r <= One + 50 /\ s <= One + 50
  BY <1>1, <1>2
<1>4. x \in Nat /\ 2 * (x - total * r) <= c
  BY <1>1, <1>3, ProductOfRatio
<1>5. y \in Nat /\ 2 * (y - total * s) <= c
  BY <1>1, <1>3, ProductOfRatio
<1>6. x + y < (total + 1) * one
  <2>1. PICK u, v, w \in Int : u = total * r /\ v = total * s /\ w = total * one
    OBVIOUS
  <2>2. u + v <= w + 50 * total
    <3>1. total * (one + 50 - (r + s)) >= 0
      BY <1>2
    <3>2. total * (one + 50 - (r + s)) = w + 50 * total - u - v
      BY <2>1
    <3> QED
      BY <2>1, <3>1, <3>2
  <2>3. (total + 1) * one = w + one
    BY <2>1
  <2>4. 10 * total <= t - 10
    BY <1>1, FewTens
  <2>5. 50 * total < 5 * t /\ c = 10 * t
    BY <1>1, <2>4
  <2>6. x + y <= u + v + c
    BY <1>4, <1>5, <2>1
  <2> QED
    BY <1>1, <1>4, <1>5, <2>1, <2>2, <2>3, <2>5, <2>6
<1> QED
  BY <1>1, <1>6

(* The two shares of a loss are all of it.                                 *)
LEMMA LossIsSplit ==
  ASSUME NEW total \in Nat, FewDigits(total), NEW n \in Nat, NEW m \in Nat, n + m > 0
  PROVE  \E p, q \in Int : /\ SplitUnits(total, Quotient(n, n + m), Quotient(m, n + m)) = <<p, q>>
                           /\ p + q = total
<1>1. PICK d \in Nat : d = n + m /\ d > 0
  OBVIOUS
<1>2. PICK one, t, c \in Nat : /\ one = One /\ t = TenTo[Digits] /\ one > 0 /\ one = 100 * t
                               /\ c = One \div 10 /\ one = 10 * c
  BY PowersOfPlaces, TenToType, PlacesAre
<1>3. /\ Quotient(n, d) \in Nat /\ Quotient(m, d) \in Nat
      /\ Quotient(n, d) + Quotient(m, d) - One \in (-50)..50
  BY <1>1, RatiosMakeOne
<1>4. PICK r, s \in Nat : r = Quotient(n, d) /\ s = Quotient(m, d)
  BY <1>3
<1>5. PICK x, y : x = Product(total, r) /\ y = Product(total, s)
  OBVIOUS
<1>6. r <= One + 50 /\ s <= One + 50
  BY <1>2, <1>3, <1>4
<1>7. x \in Nat /\ 2 * (x - total * r) <= c
  BY <1>2, <1>5, <1>6, ProductOfRatio
<1>8. y \in Nat /\ 2 * (y - total * s) <= c
  BY <1>2, <1>5, <1>6, ProductOfRatio
<1>9. x + y < (total + 1) * One
  BY <1>3, <1>4, <1>5, ProductsTogether
<1>10. \E p, q \in Int : SplitUnits(total, r, s) = <<p, q>> /\ p + q = total
  BY <1>5, <1>7, <1>8, <1>9, SplitAll
<1> QED
  BY <1>1, <1>4, <1>10

-----------------------------------------------------------------------------
(* No calculation ends in its own "invariant violated", in a crash or in   *)
(* NaN, but by a division by zero.                                         *)
LEMMA AnswerIs ==
  ASSUME NEW out, NEW f, f \in DOMAIN out, f \notin {"broken", "crashed"}
  PROVE  out # Broken /\ out # Crashed
<1>1. DOMAIN Broken = {"broken"} /\ DOMAIN Crashed = {"crashed"}
  BY DEF Broken, Crashed
<1> QED
  BY <1>1

LEMMA RefusalIs == Refused # Broken /\ Refused # Crashed /\ Broken # Crashed
<1>1. /\ DOMAIN Broken = {"broken"} /\ DOMAIN Crashed = {"crashed"}
      /\ DOMAIN Refused = {"refused"}
  BY DEF Broken, Crashed, Refused
<1> QED
  BY <1>1

LEMMA DividedIs ==
  ASSUME NEW in, NEW pair, NEW a \in Int, NEW b \in Int, pair = <<a, b>>,
         NEW sign \in {1, -1}, in.result = sign * (a + b), NEW out, out = Divided(in, pair, sign)
  PROVE  out # Broken /\ out # Crashed /\ out.bank + out.partner = in.result
<1>1. pair[1] = a /\ pair[2] = b
  OBVIOUS
<1>2. out = [bank |-> sign * a, partner |-> sign * b]
  BY <1>1 DEF Divided
<1>3. out.bank = sign * a /\ out.partner = sign * b /\ "bank" \in DOMAIN out
  BY <1>2
<1>4. sign * a + sign * b = sign * (a + b)
  OBVIOUS
<1> QED
  BY <1>3, <1>4, AnswerIs

LEMMA MusharakaIsDivided ==
  ASSUME NEW in \in Inputs, in.of = "musharaka", NEW out, out = AllocateMusharakaResult(in)
  PROVE  /\ out # Broken
         /\ out = Crashed => in.bankCapital + in.partnerCapital = 0
         /\ out \notin {Refused, Broken, Crashed} => out.bank + out.partner = in.result
<1>1. /\ in.result \in Int /\ FewDigits(in.result)
      /\ in.bankCapital \in Nat /\ in.partnerCapital \in Nat
      /\ in.bankRatio \in Nat /\ in.partnerRatio \in Nat
  BY CalculationsAssumption
<1>2. PICK capital \in Nat : capital = in.bankCapital + in.partnerCapital
  BY <1>1
<1>3. PICK gain : gain = SplitUnits(in.result, in.bankRatio * (One \div 10), in.partnerRatio * (One \div 10))
  OBVIOUS
<1>4. PICK loss : loss = SplitUnits(-in.result, Ratio(in.bankCapital, capital), Ratio(in.partnerCapital, capital))
  OBVIOUS
<1>5. out = IF in.bankRatio + in.partnerRatio # 10 \/ PassiveTakesTooMuch(in) THEN Refused
            ELSE IF in.result >= 0 THEN Divided(in, gain, 1)
            ELSE IF in.cause \in BankLiabilityCauses THEN Divided(in, <<-in.result, 0>>, -1)
            ELSE IF capital = 0 THEN Crashed
            ELSE Divided(in, loss, -1)
  BY <1>2, <1>3, <1>4 DEF AllocateMusharakaResult
<1>6. CASE in.bankRatio + in.partnerRatio # 10 \/ PassiveTakesTooMuch(in)
  <2>1. out = Refused
    BY <1>5, <1>6
  <2> QED
    BY <2>1, RefusalIs
<1>7. CASE ~(in.bankRatio + in.partnerRatio # 10 \/ PassiveTakesTooMuch(in)) /\ in.result >= 0
  <2>1. out = Divided(in, gain, 1)
    BY <1>5, <1>7
  <2>2. PICK a, b \in Int : gain = <<a, b>> /\ a + b = in.result
    <3>1. in.result \in Nat /\ in.bankRatio + in.partnerRatio = 10
      BY <1>1, <1>7
    <3> QED
      BY <1>1, <1>3, <3>1, ProfitIsSplit
  <2>3. in.result = 1 * (a + b)
    BY <2>2
  <2>4. out # Broken /\ out # Crashed /\ out.bank + out.partner = in.result
    BY <2>1, <2>2, <2>3, DividedIs
  <2> QED
    BY <2>4
<1>8. CASE /\ ~(in.bankRatio + in.partnerRatio # 10 \/ PassiveTakesTooMuch(in))
           /\ ~(in.result >= 0) /\ in.cause \in BankLiabilityCauses
  <2>1. out = Divided(in, <<-in.result, 0>>, -1)
    BY <1>5, <1>8
  <2>2. PICK a \in Int : a = -in.result
    BY <1>1
  <2>3. PICK b \in Int : b = 0
    OBVIOUS
  <2>8. PICK sign \in {1, -1} : sign = -1
    OBVIOUS
  <2>4. in.result = sign * (a + b)
    BY <1>1, <2>2, <2>3, <2>8
  <2>5. PICK pair : pair = <<a, b>>
    OBVIOUS
  <2>6. out = Divided(in, pair, sign)
    BY <2>1, <2>2, <2>3, <2>5, <2>8
  <2>7. out # Broken /\ out # Crashed /\ out.bank + out.partner = in.result
    BY <2>4, <2>5, <2>6, DividedIs
  <2> QED
    BY <2>7
<1>9. CASE /\ ~(in.bankRatio + in.partnerRatio # 10 \/ PassiveTakesTooMuch(in))
           /\ ~(in.result >= 0) /\ in.cause \notin BankLiabilityCauses /\ capital = 0
  <2>1. out = Crashed
    BY <1>5, <1>9
  <2> QED
    BY <1>2, <1>9, <2>1, RefusalIs
<1>10. CASE /\ ~(in.bankRatio + in.partnerRatio # 10 \/ PassiveTakesTooMuch(in))
            /\ ~(in.result >= 0) /\ in.cause \notin BankLiabilityCauses /\ capital # 0
  <2>1. out = Divided(in, loss, -1)
    BY <1>5, <1>10
  <2>2. PICK total \in Nat : total = -in.result /\ FewDigits(total)
    <3>1. -in.result \in Nat
      BY <1>1, <1>10
    <3>2. Magnitude(-in.result) = Magnitude(in.result)
      BY <1>1 DEF Magnitude
    <3> QED
      BY <1>1, <3>1, <3>2 DEF FewDigits
  <2>3. /\ Ratio(in.bankCapital, capital) = Quotient(in.bankCapital, capital)
        /\ Ratio(in.partnerCapital, capital) = Quotient(in.partnerCapital, capital)
    BY <1>10 DEF Ratio
  <2>4. PICK n, m \in Nat : n = in.bankCapital /\ m = in.partnerCapital /\ capital = n + m /\ n + m > 0
    BY <1>1, <1>2, <1>10
  <2>5. loss = SplitUnits(total, Quotient(n, n + m), Quotient(m, n + m))
    BY <1>4, <2>2, <2>3, <2>4
  <2>6. PICK a, b \in Int : loss = <<a, b>> /\ a + b = total
    <3>3. FewDigits(total)
      BY <2>2
    <3>4. n + m > 0
      BY <2>4
    <3>1. \E p, q \in Int : /\ SplitUnits(total, Quotient(n, n + m), Quotient(m, n + m)) = <<p, q>>
                           /\ p + q = total
      BY <3>3, <3>4, LossIsSplit
    <3> QED
      BY <2>5, <3>1
  <2>7. in.result = (-1) * (a + b)
    BY <1>1, <2>2, <2>6
  <2>8. out # Broken /\ out # Crashed /\ out.bank + out.partner = in.result
    BY <2>1, <2>6, <2>7, DividedIs
  <2> QED
    BY <2>8
<1> QED
  BY <1>6, <1>7, <1>8, <1>9, <1>10

-----------------------------------------------------------------------------
(* buildMoutanaqissaSchedule.                                              *)
LEMMA BoughtIs ==
  ASSUME NEW in \in Inputs, in.of = "moutanaqissa", NEW n \in 0..Len(in.purchases)
  PROVE  Bought(in, n) \in Nat
<1>1. PICK P : P = [period: Int, amount: Nat]
  OBVIOUS
<1>2. PICK all : all = in.purchases
  OBVIOUS
<1>3. all \in Seq(P)
  BY <1>1, <1>2, CalculationsAssumption
<1>4. \A i \in 1..Len(all) : all[i] \in P
  BY <1>3
<1>5. \A i \in 1..Len(all) : all[i].amount \in Nat
  BY <1>1, <1>4
<1>6. PICK f : f = [i \in 1..n |-> all[i].amount]
  OBVIOUS
<1>7. n \in Nat /\ n <= Len(all) /\ Len(all) \in Nat
  BY <1>2, <1>3
<1>8. DOMAIN f = 1..n /\ \A i \in 1..n : f[i] \in Nat
  BY <1>5, <1>6, <1>7
<1>9. IsFiniteSet(1..n)
  BY <1>7, FS_Interval
<1>10. SumFunctionOnSet(f, 1..n) \in Nat
  BY <1>8, <1>9, SumNotNegative
<1> QED
  BY <1>2, <1>6, <1>8, <1>10 DEF Bought, SumFunction

LEMMA ScheduleIsEven ==
  ASSUME NEW in \in Inputs, in.of = "moutanaqissa", NEW out, out = BuildMoutanaqissaSchedule(in)
  PROVE  /\ out = Broken => in.bankCapital + in.partnerCapital = 0
         /\ out # Crashed
         /\ out \notin {Refused, Broken, Crashed} =>
              out.bank + out.partner = in.bankCapital + in.partnerCapital
<1>1. in.bankCapital \in Nat /\ in.partnerCapital \in Nat /\ Len(in.purchases) \in Nat
  <2>1. {in.bankCapital, in.partnerCapital} \subseteq Nat
    BY CalculationsAssumption
  <2>2. in.purchases \in Seq([period: Int, amount: Nat])
    BY CalculationsAssumption
  <2>3. Len(in.purchases) \in Nat
    BY <2>2
  <2> QED
    BY <2>1, <2>3
<1>2. PICK capital \in Nat : capital = CapitalOf(in) /\ capital = in.bankCapital + in.partnerCapital
  BY <1>1 DEF CapitalOf
<1>3. ASSUME capital # 0, NEW i \in DOMAIN in.purchases, ~Illegal(in, i)
      PROVE  ~Uneven(in, i)
  <2>1. i \in 0..Len(in.purchases)
    BY <1>1, CalculationsAssumption
  <2>2. PICK b \in Nat : b = Bought(in, i)
    BY <2>1, BoughtIs
  <2>3. PICK left : left = BankLeft(in)[i]
    OBVIOUS
  <2>4. left = in.bankCapital - b
    BY <2>2, <2>3 DEF BankLeft
  <2>5. ~(left < 0)
    BY <1>3, <2>3 DEF Illegal
  <2>6. PICK n, m \in Nat : n = left /\ m = capital - left /\ n + m = capital
    <3>1. left \in Nat /\ capital - left \in Nat
      <4>1. PICK v, w \in Nat : v = in.bankCapital /\ w = in.partnerCapital
        BY <1>1
      <4>2. capital = v + w /\ left = v - b /\ ~(v - b < 0)
        BY <1>2, <2>4, <2>5, <4>1
      <4>3. v - b \in Nat /\ (v + w) - (v - b) \in Nat
        BY <4>2
      <4> QED
        BY <4>2, <4>3
    <3>2. left + (capital - left) = capital
      BY <3>1
    <3> QED
      BY <3>1, <3>2
  <2>7. BankRatios(in)[i] = Quotient(n, capital) /\ PartnerRatios(in)[i] = Quotient(m, capital)
    <3>1. BankRatios(in)[i] = Ratio(left, capital)
      BY <1>2, <2>3 DEF BankRatios
    <3>2. PartnerRatios(in)[i] = Ratio(capital - left, capital)
      BY <1>2, <2>3 DEF PartnerRatios
    <3> QED
      BY <1>3, <2>6, <3>1, <3>2 DEF Ratio
  <2>8. /\ Quotient(n, capital) \in Nat /\ Quotient(m, capital) \in Nat
        /\ Quotient(n, capital) + Quotient(m, capital) - One \in (-50)..50
    <3>1. capital > 0
      BY <1>3
    <3> QED
      BY <2>6, <3>1, RatiosMakeOne
  <2>9. PICK s \in Nat : s = Quotient(n, capital) + Quotient(m, capital)
    BY <2>8
  <2>10. Quotient(s, One) = One
    <3>2. PICK one \in Nat : one = One
      BY PowersOfPlaces
    <3>3. PICK v, w \in Nat : v = Quotient(n, capital) /\ w = Quotient(m, capital)
      BY <2>8
    <3>4. v + w - one \in (-50)..50 /\ s = v + w
      BY <2>8, <2>9, <3>2, <3>3
    <3>5. s - one \in (-50)..50
      BY <3>4
    <3>1. s - One \in (-50)..50
      BY <3>2, <3>5
    <3> QED
      BY <3>1, OneAgain
  <2> QED
    BY <1>2, <1>3, <2>7, <2>9, <2>10 DEF Uneven
<1>4. ASSUME capital # 0
      PROVE  ~(\E i \in DOMAIN in.purchases : Uneven(in, i) /\ \A j \in 1..i : ~Illegal(in, j))
  <2>1. ASSUME NEW i \in DOMAIN in.purchases, Uneven(in, i), \A j \in 1..i : ~Illegal(in, j)
        PROVE  FALSE
    <3>2. PICK all \in Seq([period: Int, amount: Nat]) : all = in.purchases
      BY CalculationsAssumption
    <3>3. i \in Nat /\ i >= 1
      BY <3>2
    <3>1. i \in 1..i
      BY <3>3
    <3> QED
      BY <1>3, <1>4, <2>1, <3>1
  <2> QED
    BY <2>1
<1>5. PICK b \in Nat : b = Bought(in, Len(in.purchases))
  <2>1. Len(in.purchases) \in 0..Len(in.purchases)
    BY <1>1
  <2> QED
    BY <2>1, BoughtIs
<1>6. PICK answer : answer = [bank |-> in.bankCapital - b, partner |-> in.partnerCapital + b,
                              bankRatio |-> BankRatios(in), partnerRatio |-> PartnerRatios(in)]
  OBVIOUS
<1>7. out \in {Broken, Refused, answer} /\ (capital # 0 => out # Broken \/ answer = Broken)
  <2>1. out \in {Broken, Refused, answer}
    BY <1>5, <1>6 DEF BuildMoutanaqissaSchedule
  <2>2. ASSUME capital # 0 PROVE out \in {Refused, answer}
    BY <1>4, <1>5, <1>6, <2>2 DEF BuildMoutanaqissaSchedule
  <2> QED
    BY <2>1, <2>2, RefusalIs
<1>8. answer # Broken /\ answer # Crashed
  <2>1. "bank" \in DOMAIN answer
    BY <1>6
  <2> QED
    BY <2>1, AnswerIs
<1>9. answer.bank + answer.partner = in.bankCapital + in.partnerCapital
  <2>1. answer.bank = in.bankCapital - b /\ answer.partner = in.partnerCapital + b
    BY <1>6
  <2> QED
    BY <1>1, <2>1
<1> QED
  BY <1>2, <1>7, <1>8, <1>9, RefusalIs

-----------------------------------------------------------------------------
(* The quotients that are answered are numbers.                            *)
LEMMA QuotientOfFew ==
  ASSUME NEW n \in Nat, NEW d \in Nat, d > 0, FewDigits(n) \/ n <= d
  PROVE  Quotient(n, d) \in Nat
<1>1. PICK t \in Nat : t = TenTo[Digits] /\ t >= 10
  BY PowersOfPlaces
<1>2. n <= 10 * d - 1 \/ 10 * n <= t - 10
  BY <1>1, FewTens
<1>3. n <= t * d - 1
  <2>1. (t - 10) * d >= 0 /\ t * (d - 1) >= 0
    BY <1>1
  <2>2. (t - 10) * d = t * d - 10 * d /\ t * (d - 1) = t * d - t
    BY <1>1
  <2>3. PICK v \in Int : v = t * d
    OBVIOUS
  <2> QED
    BY <1>1, <1>2, <2>1, <2>2, <2>3
<1>4. 0 \in 0..Places /\ TenTo[0] = 1
  BY PlacesAre, TenToIs
<1>5. n * TenTo[0] <= TenTo[Digits] * d - 1
  BY <1>1, <1>3, <1>4
<1> QED
  BY <1>4, <1>5, QuotientNear

LEMMA WaterfallIsKept ==
  ASSUME NEW in \in Inputs, in.of = "waterfall",
         NEW out, out = CalculateDistributablePoolProfit(in)
  PROVE  /\ out # Broken /\ out # Crashed
         /\ out # Refused => out.rate # NotANumber
<1>1. PICK r, a, c, l, p, e, m, q, i, d \in Int :
        /\ r = in.revenue /\ a = in.adjustments /\ c = in.charges /\ l = in.losses
        /\ p = in.purification /\ e = in.bankEconomic /\ m = in.moudarib
        /\ q = in.per /\ i = in.irr /\ d = in.base
  BY CalculationsAssumption
<1>2. PICK g \in Int : g = r + a - c - l
  OBVIOUS
<1>3. PICK n \in Int : n = g - p
  OBVIOUS
<1>4. PICK v \in Int : v = n - e - m - q - i
  OBVIOUS
<1>5. FewDigits(g)
  BY <1>1, <1>2, CalculationsAssumption
<1>6. PICK answer : answer = [gross |-> g, net |-> n, bank |-> e + m, investor |-> v,
                              rate |-> Ratio(g, d)]
  OBVIOUS
<1>7. g = e + m + v + q + i + p
  BY <1>3, <1>4
<1>8. out = Refused \/ (out = answer /\ d > 0 /\ g >= 0)
  <2>1. PICK bad \in BOOLEAN :
          bad = (\/ d <= 0 \/ g < 0 \/ n < 0 \/ v < 0 \/ \E x \in {c, l, p, e, m, q, i} : x < 0)
    OBVIOUS
  <2>2. out = IF bad THEN Refused
              ELSE IF g # e + m + v + q + i + p THEN Broken ELSE answer
    BY <1>1, <1>2, <1>3, <1>4, <1>6, <2>1 DEF CalculateDistributablePoolProfit
  <2>3. ~bad => d > 0 /\ g >= 0
    BY <2>1
  <2> QED
    BY <1>7, <2>2, <2>3
<1>9. answer # Broken /\ answer # Crashed
  <2>1. "rate" \in DOMAIN answer
    BY <1>6
  <2> QED
    BY <2>1, AnswerIs
<1>10. ASSUME d > 0, g >= 0 PROVE answer.rate # NotANumber
  <2>1. g \in Nat /\ d \in Nat
    BY <1>10
  <2>2. Quotient(g, d) \in Nat
    BY <1>5, <1>10, <2>1, QuotientOfFew
  <2>3. answer.rate = Quotient(g, d)
    BY <1>6, <1>10 DEF Ratio
  <2> QED
    BY <2>2, <2>3 DEF NotANumber
<1> QED
  BY <1>8, <1>9, <1>10, RefusalIs

LEMMA SupportIs ==
  ASSUME NEW s \in Seq(Nat) PROVE SumFunction(s) \in Nat
<1>1. DOMAIN s = 1..Len(s) /\ Len(s) \in Nat /\ \A i \in 1..Len(s) : s[i] \in Nat
  OBVIOUS
<1>2. IsFiniteSet(1..Len(s))
  BY <1>1, FS_Interval
<1> QED
  BY <1>1, <1>2, SumNotNegative DEF SumFunction

LEMMA ConsolidatedIsKept ==
  ASSUME NEW in \in Inputs, in.of = "consolidated", NEW out, out = CalculateConsolidatedDcr(in)
  PROVE  /\ out # Broken /\ out # Crashed
         /\ in.profit # 0 => out.dcr # NotANumber
<1>1. in.releases \in Seq(Nat) /\ in.tanazul \in Seq(Nat) /\ in.profit \in Nat
  BY CalculationsAssumption
<1>2. PICK s : s = SumFunction(in.releases) + SumFunction(in.tanazul)
  OBVIOUS
<1>3. s \in Nat /\ FewDigits(s)
  <2>1. FewDigits(SumFunction(in.releases) + SumFunction(in.tanazul))
    BY CalculationsAssumption
  <2>2. SumFunction(in.releases) \in Nat /\ SumFunction(in.tanazul) \in Nat
    BY <1>1, SupportIs
  <2> QED
    BY <1>2, <2>1, <2>2
<1>4. out = [support |-> s, dcr |-> Ratio(s, in.profit)]
  BY <1>2 DEF CalculateConsolidatedDcr
<1>5. out # Broken /\ out # Crashed
  <2>1. "dcr" \in DOMAIN out
    BY <1>4
  <2> QED
    BY <2>1, AnswerIs
<1>6. ASSUME in.profit # 0 PROVE out.dcr # NotANumber
  <2>1. PICK d \in Nat : d = in.profit /\ d > 0
    BY <1>1, <1>6
  <2>2. Quotient(s, d) \in Nat
    BY <1>3, <2>1, QuotientOfFew
  <2>3. out.dcr = Quotient(s, d)
    BY <1>4, <2>1 DEF Ratio
  <2> QED
    BY <2>2, <2>3 DEF NotANumber
<1> QED
  BY <1>5, <1>6

(* What a target may be answered with, and what it must not.               *)
IsTarget(answer) == "status" \in DOMAIN answer

KeyIsNumber(answer) ==
  /\ answer.low # NotANumber
  /\ answer.status = "APPLICABLE" => answer.value # NotANumber

LEMMA KeyIsKept ==
  ASSUME NEW in, in.distributable \in Nat, NEW target \in Nat,
         NEW out, out = SolveDistributionKey(in, target)
  PROVE  IsTarget(out) /\ (in.distributable # 0 => KeyIsNumber(out))
<1>1. PICK d \in Nat : d = in.distributable
  OBVIOUS
<1>2. CASE d = 0
  <2>1. PICK x : x = [status |-> "APPLICABLE", value |-> NotANumber, low |-> 0, high |-> 0]
    OBVIOUS
  <2>2. PICK y : y = [status |-> "OUT_OF_RANGE", low |-> 0, high |-> 0]
    OBVIOUS
  <2>3. out \in {x, y}
    BY <1>1, <1>2, <2>1, <2>2 DEF SolveDistributionKey
  <2>4. "status" \in DOMAIN x /\ "status" \in DOMAIN y
    BY <2>1, <2>2
  <2> QED
    BY <1>1, <1>2, <2>3, <2>4 DEF IsTarget
<1>3. CASE d # 0 /\ target > 10 * d
  <2>1. out = [status |-> "OUT_OF_RANGE", low |-> 0, high |-> 10 * d]
    BY <1>1, <1>3 DEF SolveDistributionKey
  <2> QED
    BY <2>1 DEF IsTarget, KeyIsNumber, NotANumber
<1>4. CASE d # 0 /\ target <= 10 * d
  <2>1. PICK v : v = Quotient(target, 10 * d)
    OBVIOUS
  <2>2. PICK s : s = IF target > in.key * d THEN "NEXT_PERIOD_OR_TANAZUL" ELSE "APPLICABLE"
    OBVIOUS
  <2>3. out = [status |-> s, value |-> v, low |-> 0, high |-> 10 * d]
    BY <1>1, <1>4, <2>1, <2>2 DEF SolveDistributionKey
  <2>4. v \in Nat
    <3>1. PICK e \in Nat : e = 10 * d
      OBVIOUS
    <3>2. e > 0 /\ target <= e
      BY <1>4, <3>1
    <3> QED
      BY <2>1, <3>1, <3>2, QuotientOfFew
  <2> QED
    BY <2>3, <2>4 DEF IsTarget, KeyIsNumber, NotANumber
<1> QED
  BY <1>2, <1>3, <1>4

LEMMA ReachIsKept ==
  ASSUME NEW in, in.current \in Nat, NEW target, NEW least \in Int, NEW most \in Int, NEW status,
         NEW out, out = Reach(in, target, least, most, status)
  PROVE  IsTarget(out) /\ out.low # NotANumber
<1>1. PICK low : low = Positive(10 * (in.current + least))
  OBVIOUS
<1>2. low \in Nat
  <2>1. PICK n \in Int : n = 10 * (in.current + least)
    OBVIOUS
  <2> QED
    BY <1>1, <2>1 DEF Positive
<1>3. PICK high, value : high = Positive(10 * (in.current + most)) /\ value = target - 10 * in.current
  OBVIOUS
<1>4. PICK x : x = [status |-> status, value |-> value, low |-> low, high |-> high]
  OBVIOUS
<1>5. PICK y : y = [status |-> "OUT_OF_RANGE", low |-> low, high |-> high]
  OBVIOUS
<1>6. out \in {x, y}
  BY <1>1, <1>3, <1>4, <1>5 DEF Reach
<1>7. x.low = low /\ "status" \in DOMAIN x
  BY <1>4
<1>8. y.low = low /\ "status" \in DOMAIN y
  BY <1>5
<1> QED
  BY <1>2, <1>6, <1>7, <1>8 DEF IsTarget, NotANumber

LEMMA TargetIsKept ==
  ASSUME NEW in \in Inputs, in.of = "target", NEW out, out = SolveProfitTarget(in)
  PROVE  /\ out # Broken /\ out # Crashed
         /\ out # Refused /\ in.base # 0 /\ in.distributable # 0 =>
              /\ out.low # NotANumber
              /\ ~(out.status = "APPLICABLE" /\ out.value = NotANumber
                   /\ in.lever = "DISTRIBUTION_KEY")
<1>1. /\ in.base \in Nat /\ in.rate \in Nat /\ in.current \in Nat /\ in.distributable \in Nat
      /\ in.bankShare \in Nat /\ in.minimum \in Int /\ in.maximum \in Int
  BY CalculationsAssumption
<1>2. PICK target \in Nat : target = in.base * in.rate
  BY <1>1
<1>3. ASSUME NEW a, IsTarget(a)
      PROVE  /\ OverBase(in, a) # Broken /\ OverBase(in, a) # Crashed
             /\ in.base # 0 => OverBase(in, a) = a
  <2>1. "status" \in DOMAIN OverBase(in, a)
    BY <1>3 DEF IsTarget, OverBase
  <2>2. in.base # 0 => OverBase(in, a) = a
    BY <1>1 DEF OverBase
  <2> QED
    BY <2>1, <2>2, AnswerIs
<1>4. PICK key : key = SolveDistributionKey(in, target)
  OBVIOUS
<1>5. IsTarget(key) /\ (in.distributable # 0 => KeyIsNumber(key))
  BY <1>1, <1>4, KeyIsKept
<1>6. PICK gift : gift = Reach(in, target, 0, in.bankShare, "APPLICABLE")
  OBVIOUS
<1>7. IsTarget(gift) /\ gift.low # NotANumber
  BY <1>1, <1>6, ReachIsKept
<1>8. PICK move : move = Reach(in, target, in.minimum, in.maximum, "GOVERNANCE_REQUIRED")
  OBVIOUS
<1>9. IsTarget(move) /\ move.low # NotANumber
  BY <1>1, <1>8, ReachIsKept
<1>10. out = IF in.key > 10 THEN Refused
             ELSE IF in.lever = "DISTRIBUTION_KEY" THEN OverBase(in, key)
             ELSE IF in.lever = "TANAZUL" THEN OverBase(in, gift)
             ELSE IF in.minimum > in.maximum THEN Refused
             ELSE OverBase(in, move)
  BY <1>2, <1>4, <1>6, <1>8 DEF SolveProfitTarget
<1>11. CASE out = Refused
  BY <1>11, RefusalIs
<1>12. CASE in.lever = "DISTRIBUTION_KEY" /\ out = OverBase(in, key)
  BY <1>3, <1>5, <1>12 DEF KeyIsNumber
<1>13. CASE in.lever # "DISTRIBUTION_KEY" /\ out = OverBase(in, gift)
  BY <1>3, <1>7, <1>13
<1>14. CASE in.lever # "DISTRIBUTION_KEY" /\ out = OverBase(in, move)
  BY <1>3, <1>9, <1>14
<1> QED
  BY <1>10, <1>11, <1>12, <1>13, <1>14

(* The calculations that only answer or refuse.                            *)
OnlyAnswers ==
  {"proportional", "loss", "wakala", "reserve", "reconcile", "simulation", "quotation", "base",
   "dcr", "stress", "equity", "report"}

LEMMA OthersAnswer ==
  ASSUME NEW in \in Inputs, in.of \in OnlyAnswers, NEW out, out = Result(in)
  PROVE  out # Broken /\ out # Crashed
<1>1. CASE in.of = "proportional"
  <2>1. out = Refused \/ "share" \in DOMAIN out
    BY <1>1, ResultIs DEF AllocateProportionally
  <2> QED
    BY <2>1, AnswerIs, RefusalIs
<1>2. CASE in.of = "loss"
  <2>1. out = Refused \/ "irr" \in DOMAIN out
    BY <1>2, ResultIs DEF ClassifyLossAbsorption
  <2> QED
    BY <2>1, AnswerIs, RefusalIs
<1>3. CASE in.of = "wakala"
  <2>1. "mandant" \in DOMAIN AllocateWakalaLoss(in)
    BY DEF AllocateWakalaLoss
  <2>2. "mandant" \in DOMAIN AllocateWakalaGain(in)
    BY DEF AllocateWakalaGain
  <2>3. out \in {Refused, AllocateWakalaLoss(in), AllocateWakalaGain(in)}
    BY <1>3, ResultIs DEF AllocateWakalaProfit
  <2> QED
    BY <2>1, <2>2, <2>3, AnswerIs, RefusalIs
<1>4. CASE in.of = "reserve"
  <2>1. out = Refused \/ "closing" \in DOMAIN out
    BY <1>4, ResultIs DEF AuthorizeReserveMovement
  <2> QED
    BY <2>1, AnswerIs, RefusalIs
<1>5. CASE in.of = "reconcile"
  <2>1. out = Refused \/ "state" \in DOMAIN out
    BY <1>5, ResultIs DEF ReconcileAmounts
  <2> QED
    BY <2>1, AnswerIs, RefusalIs
<1>6. CASE in.of = "simulation"
  <2>1. out = Refused \/ "total" \in DOMAIN out
    BY <1>6, ResultIs DEF SimulateReserveMovement
  <2> QED
    BY <2>1, AnswerIs, RefusalIs
<1>7. CASE in.of = "quotation"
  <2>1. out = Refused \/ "gap" \in DOMAIN out
    BY <1>7, ResultIs DEF SolveQuotationTarget
  <2> QED
    BY <2>1, AnswerIs, RefusalIs
<1>8. CASE in.of = "base"
  <2>2. out = CalculateWeightedParticipationBase(in)
    BY <1>8, ResultIs
  <2>3. out = Refused \/ \E b : out = [basis |-> b]
    BY <2>2, Zenon DEF CalculateWeightedParticipationBase
  <2>1. out = Refused \/ "basis" \in DOMAIN out
    BY <2>3
  <2> QED
    BY <2>1, AnswerIs, RefusalIs
<1>9. CASE in.of = "dcr"
  <2>1. out = Refused \/ "state" \in DOMAIN out
    BY <1>9, ResultIs DEF CalculateDcr
  <2> QED
    BY <2>1, AnswerIs, RefusalIs
<1>10. CASE in.of = "stress"
  <2>1. out = Refused \/ "impact" \in DOMAIN out
    BY <1>10, ResultIs DEF ExecuteStressScenario
  <2> QED
    BY <2>1, AnswerIs, RefusalIs
<1>11. CASE in.of = "equity"
  <2>2. out = AnalyzeIntergenerationalEquity(in)
    BY <1>11, ResultIs
  <2>3. out = Refused \/ \E x, y : out = [spread |-> x, imbalance |-> y]
    BY <2>2, Zenon DEF AnalyzeIntergenerationalEquity
  <2>1. out = Refused \/ "spread" \in DOMAIN out
    BY <2>3
  <2> QED
    BY <2>1, AnswerIs, RefusalIs
<1>12. CASE in.of = "report"
  <2>1. "byRow" \in DOMAIN out
    BY <1>12, ResultIs DEF BuildReports
  <2> QED
    BY <2>1, AnswerIs
<1> QED
  BY <1>1, <1>2, <1>3, <1>4, <1>5, <1>6, <1>7, <1>8, <1>9, <1>10, <1>11, <1>12 DEF OnlyAnswers

LEMMA PendingIs == Pending # Broken /\ Pending # Crashed
<1>1. "pending" \in DOMAIN Pending
  BY DEF Pending
<1> QED
  BY <1>1, AnswerIs

(* Only a division by zero breaks a calculation.                           *)
LEMMA OnlyZeroDoesBreak == Computed => OnlyZeroBreaks
<1> SUFFICES ASSUME Computed, ~HasZeroDivisor PROVE ~Undefined
  BY DEF OnlyZeroBreaks
<1>1. input \in Inputs /\ input.of \in CalculationKinds /\ output \in {Pending, Result(input)}
  BY CalculationsAssumption DEF Computed
<1>2. output # Broken /\ output # Crashed
  <2>1. CASE output = Pending
    BY <2>1, PendingIs
  <2>2. CASE output = Result(input) /\ input.of \in OnlyAnswers
    BY <1>1, <2>2, OthersAnswer
  <2>3. CASE output = Result(input) /\ input.of = "moudaraba"
    <3>1. AccountsDivisible(input)
      BY <2>3 DEF HasZeroDivisor
    <3> QED
      BY <1>1, <2>3, <3>1, MoudarabaShares, ResultIs
  <2>4. CASE output = Result(input) /\ input.of = "musharaka"
    <3>1. input.bankCapital + input.partnerCapital # 0
      BY <2>4 DEF HasZeroDivisor
    <3> QED
      BY <1>1, <2>4, <3>1, MusharakaIsDivided, ResultIs
  <2>5. CASE output = Result(input) /\ input.of = "moutanaqissa"
    <3>1. input.bankCapital + input.partnerCapital # 0
      BY <2>5 DEF HasZeroDivisor
    <3> QED
      BY <1>1, <2>5, <3>1, ScheduleIsEven, ResultIs
  <2>6. CASE output = Result(input) /\ input.of = "waterfall"
    BY <1>1, <2>6, WaterfallIsKept, ResultIs
  <2>7. CASE output = Result(input) /\ input.of = "target"
    BY <1>1, <2>7, TargetIsKept, ResultIs
  <2>8. CASE output = Result(input) /\ input.of = "consolidated"
    BY <1>1, <2>8, ConsolidatedIsKept, ResultIs
  <2> QED
    BY <1>1, <2>1, <2>2, <2>3, <2>4, <2>5, <2>6, <2>7, <2>8 DEF CalculationKinds, OnlyAnswers
<1>3. ASSUME Done("target")
      PROVE  /\ output.low # NotANumber
             /\ ~(output.status = "APPLICABLE" /\ output.value = NotANumber
                  /\ input.lever = "DISTRIBUTION_KEY")
  <2>1. /\ input \in Inputs /\ input.of = "target" /\ output = Result(input)
        /\ output # Refused
    BY <1>3, DoneIs
  <2>2. input.base # 0 /\ input.distributable # 0
    BY <2>1 DEF HasZeroDivisor
  <2>3. output = SolveProfitTarget(input)
    BY <2>1, ResultIs
  <2> QED
    BY <2>1, <2>2, <2>3, TargetIsKept
<1>4. ASSUME Done("waterfall") PROVE output.rate # NotANumber
  <2>1. /\ input \in Inputs /\ input.of = "waterfall" /\ output = Result(input)
        /\ output # Refused
    BY <1>4, DoneIs
  <2>2. output = CalculateDistributablePoolProfit(input)
    BY <2>1, ResultIs
  <2> QED
    BY <2>1, <2>2, WaterfallIsKept
<1>5. ASSUME Done("consolidated") PROVE output.dcr # NotANumber
  <2>1. input \in Inputs /\ input.of = "consolidated" /\ output = Result(input)
    BY <1>5, DoneIs
  <2>2. input.profit # 0
    BY <2>1 DEF HasZeroDivisor
  <2>3. output = CalculateConsolidatedDcr(input)
    BY <2>1, ResultIs
  <2> QED
    BY <2>1, <2>2, <2>3, ConsolidatedIsKept
<1> QED
  BY <1>2, <1>3, <1>4, <1>5 DEF Undefined

LEMMA ReserveIsKept ==
  ASSUME NEW in \in Inputs, in.of = "reserve", NEW out, out = AuthorizeReserveMovement(in),
         out # Refused
  PROVE  out.investor + out.bank = out.closing /\ out.investor >= 0 /\ out.bank >= 0
<1>1. PICK o, m, i, b, j, c \in Int :
        /\ o = in.opening /\ m = in.move /\ i = in.investor /\ b = in.bank
        /\ j = in.investorMove /\ c = in.bankMove
  BY CalculationsAssumption
<1>2. i + b = o /\ j + c = m /\ i + j >= 0 /\ b + c >= 0
  BY <1>1 DEF AuthorizeReserveMovement
<1>3. out.closing = o + m /\ out.investor = i + j /\ out.bank = b + c
  BY <1>1 DEF AuthorizeReserveMovement
<1> QED
  BY <1>2, <1>3

(* The parts of every calculation add up to its whole, and a calculation   *)
(* ends in the code's "invariant violated", in a crash or in NaN only      *)
(* where a divisor is zero: for every amount, weight, number of accounts,  *)
(* categories, purchases and buckets, and however many digits a quotient   *)
(* keeps (allocateUnits, splitUnits, buildMoutanaqissaSchedule,            *)
(* calculateDistributablePoolProfit, authorizeReserveMovement and the      *)
(* reports).                                                               *)
THEOREM AmountsStayKept == CalculationsSpec => []AmountsAreKept
<1>1. Computed => NothingIsLost
  <2> SUFFICES ASSUME Computed PROVE NothingIsLost
    OBVIOUS
  <2>1. ASSUME Done("proportional") PROVE SumFunction(output.share) = input.total
    <3>1. output = AllocateProportionally(input)
      BY <2>1, DoneIs, ResultIs
    <3> QED
      BY <2>1, <3>1, DoneIs, ProportionalShares
  <2>2. ASSUME Done("moudaraba")
        PROVE  output.bank + output.irr + SumFunction(output.share) = input.profit
    <3>1. output = AllocateMoudarabaProfit(input)
      BY <2>2, DoneIs, ResultIs
    <3> QED
      BY <2>2, <3>1, DoneIs, MoudarabaShares
  <2>3. ASSUME Done("musharaka") PROVE output.bank + output.partner = input.result
    <3>1. output = AllocateMusharakaResult(input)
      BY <2>3, DoneIs, ResultIs
    <3> QED
      BY <2>3, <3>1, DoneIs, MusharakaIsDivided
  <2>4. ASSUME Done("moutanaqissa")
        PROVE  output.bank + output.partner = input.bankCapital + input.partnerCapital
    <3>1. output = BuildMoutanaqissaSchedule(input)
      BY <2>4, DoneIs, ResultIs
    <3> QED
      BY <2>4, <3>1, DoneIs, ScheduleIsEven
  <2>5. ASSUME Done("wakala") PROVE output.mandant + output.bank = input.realized
    <3>1. output = AllocateWakalaProfit(input) /\ input.realized \in Int
      BY <2>5, DoneIs, ResultIs, CalculationsAssumption
    <3>2. input.realized >= 0 \/ input.realized < 0
      BY <3>1
    <3>3. input \in Inputs /\ input.of = "wakala" /\ output # Refused
      BY <2>5, DoneIs
    <3> QED
      BY <3>1, <3>2, <3>3, WakalaGain, WakalaLoss
  <2>6. ASSUME Done("loss")
        PROVE  output.irr + output.per + output.capital + output.bank + output.unabsorbed
                 = input.loss
    <3>1. output = ClassifyLossAbsorption(input)
      BY <2>6, DoneIs, ResultIs
    <3> QED
      BY <2>6, <3>1, DoneIs, LossCascade
  <2>7. ASSUME Done("reserve")
        PROVE  /\ output.investor + output.bank = output.closing
               /\ output.investor >= 0 /\ output.bank >= 0
    <3>1. output = AuthorizeReserveMovement(input)
      BY <2>7, DoneIs, ResultIs
    <3> QED
      BY <2>7, <3>1, DoneIs, ReserveIsKept
  <2>8. ASSUME Done("report"), NEW r \in {output.byRow, output.byBucket}
        PROVE  /\ SumFunction([i \in DOMAIN r |-> r[i].count]) = Len(input.rows)
               /\ SumFunction([i \in DOMAIN r |-> r[i].capital])
                    = SumFunction([i \in DOMAIN input.rows |-> input.rows[i].capital])
    <3>1. output = BuildReports(input) /\ input \in Inputs /\ input.of = "report"
      BY <2>8, DoneIs, ResultIs
    <3>2. output.byRow = BuildYieldReport(input) /\ output.byBucket = BuildBucketedYield(input)
      BY <3>1 DEF BuildReports
    <3>3. r = BuildYieldReport(input)
      BY <2>8, <3>1, <3>2, ReportAddsUp
    <3> QED
      BY <3>1, <3>3, ReportAddsUp
  <2> QED
    BY <2>1, <2>2, <2>3, <2>4, <2>5, <2>6, <2>7, <2>8 DEF NothingIsLost
<1>2. Computed => AmountsAreKept
  BY <1>1, OnlyZeroDoesBreak DEF AmountsAreKept
<1> QED
  BY <1>2, CalculationsAnswer, PTL

-----------------------------------------------------------------------------
(* Decisions: what is decided from an amount that was rounded, or by       *)
(* comparing products, is what the exact numbers decide.                   *)

(* A key that is asked for is out of range when all of the profit would    *)
(* not reach the target.                                                   *)
LEMMA KeyIsExact ==
  ASSUME NEW in, in.distributable \in Nat, in.distributable # 0, in.key \in Nat,
         NEW target \in Nat, NEW out, out = SolveDistributionKey(in, target)
  PROVE  /\ target < out.low \/ target > out.high => out.status = "OUT_OF_RANGE"
         /\ out.status = "OUT_OF_RANGE" => target > out.high
         /\ out.status = "APPLICABLE" => target <= in.key * in.distributable
<1>1. PICK d, k \in Nat : d = in.distributable /\ k = in.key
  OBVIOUS
<1>2. PICK most \in Nat : most = 10 * d
  OBVIOUS
<1>3. CASE target > most
  <2>1. out = [status |-> "OUT_OF_RANGE", low |-> 0, high |-> most]
    BY <1>1, <1>2, <1>3 DEF SolveDistributionKey
  <2> QED
    BY <1>3, <2>1
<1>4. CASE target <= most
  <2>1. PICK v : v = Quotient(target, 10 * d)
    OBVIOUS
  <2>2. PICK s : s = IF target > k * d THEN "NEXT_PERIOD_OR_TANAZUL" ELSE "APPLICABLE"
    OBVIOUS
  <2>3. out = [status |-> s, value |-> v, low |-> 0, high |-> most]
    BY <1>1, <1>2, <1>4, <2>1, <2>2 DEF SolveDistributionKey
  <2>4. out.status = s /\ out.low = 0 /\ out.high = most
    BY <2>3
  <2>5. s # "OUT_OF_RANGE" /\ (s = "APPLICABLE" => ~(target > k * d))
    BY <2>2
  <2>6. PICK reached \in Nat : reached = k * d
    OBVIOUS
  <2>7. ~(target > reached) => target <= reached
    OBVIOUS
  <2> QED
    BY <1>1, <1>4, <2>4, <2>5, <2>6, <2>7
<1> QED
  BY <1>3, <1>4

(* An adjustment is out of range when none between its bounds reaches the  *)
(* target; the range that is answered is never below zero.                 *)
LEMMA ReachIsExact ==
  ASSUME NEW in, in.current \in Nat, NEW target \in Nat, NEW least \in Int, NEW most \in Int,
         NEW status, status # "OUT_OF_RANGE",
         NEW out, out = Reach(in, target, least, most, status)
  PROVE  /\ target < out.low \/ target > out.high => out.status = "OUT_OF_RANGE"
         /\ out.status = "OUT_OF_RANGE" =>
              target < out.low \/ target > out.high \/ (target = 0 /\ out.high = 0)
<1>1. PICK c \in Nat : c = in.current
  OBVIOUS
<1>2. PICK low, high : low = Positive(10 * (c + least)) /\ high = Positive(10 * (c + most))
  OBVIOUS
<1>3. /\ low \in Int /\ high \in Int
      /\ low = IF 10 * (c + least) > 0 THEN 10 * (c + least) ELSE 0
      /\ high = IF 10 * (c + most) > 0 THEN 10 * (c + most) ELSE 0
  BY <1>2 DEF Positive
<1>4. PICK value \in Int : value = target - 10 * c
  OBVIOUS
<1>5. out = IF 10 * least <= value /\ value <= 10 * most
            THEN [status |-> status, value |-> value, low |-> low, high |-> high]
            ELSE [status |-> "OUT_OF_RANGE", low |-> low, high |-> high]
  BY <1>1, <1>2, <1>4 DEF Reach
<1>6. /\ out.low = low /\ out.high = high
      /\ out.status = "OUT_OF_RANGE" <=> ~(10 * least <= value /\ value <= 10 * most)
  BY <1>5
<1>7. /\ target < low \/ target > high => ~(10 * least <= value /\ value <= 10 * most)
      /\ ~(10 * least <= value /\ value <= 10 * most)
           => target < low \/ target > high \/ (target = 0 /\ high = 0)
  BY <1>3, <1>4
<1> QED
  BY <1>6, <1>7

LEMMA TargetIsExact ==
  ASSUME NEW in \in Inputs, in.of = "target", NEW out, out = SolveProfitTarget(in),
         out # Refused, in.base # 0, in.distributable # 0, NEW target, target = in.base * in.rate
  PROVE  /\ target < out.low \/ target > out.high => out.status = "OUT_OF_RANGE"
         /\ out.status = "OUT_OF_RANGE" =>
              target < out.low \/ target > out.high \/ (target = 0 /\ out.high = 0)
         /\ out.status = "APPLICABLE" /\ in.lever = "DISTRIBUTION_KEY"
              => target <= in.key * in.distributable
<1>1. /\ in.base \in Nat /\ in.rate \in Nat /\ in.current \in Nat /\ in.distributable \in Nat
      /\ in.bankShare \in Nat /\ in.key \in Nat /\ in.minimum \in Int /\ in.maximum \in Int
  BY CalculationsAssumption
<1>2. target \in Nat
  BY <1>1
<1>3. \A a : OverBase(in, a) = a
  BY <1>1 DEF OverBase
<1>4. \/ in.lever = "DISTRIBUTION_KEY" /\ out = SolveDistributionKey(in, target)
      \/ in.lever # "DISTRIBUTION_KEY" /\ out = Reach(in, target, 0, in.bankShare, "APPLICABLE")
      \/ in.lever # "DISTRIBUTION_KEY"
           /\ out = Reach(in, target, in.minimum, in.maximum, "GOVERNANCE_REQUIRED")
  BY <1>3 DEF SolveProfitTarget
<1>5. CASE in.lever = "DISTRIBUTION_KEY" /\ out = SolveDistributionKey(in, target)
  BY <1>1, <1>2, <1>5, KeyIsExact
<1>6. CASE in.lever # "DISTRIBUTION_KEY"
           /\ out = Reach(in, target, 0, in.bankShare, "APPLICABLE")
  BY <1>1, <1>2, <1>6, ReachIsExact
<1>7. CASE in.lever # "DISTRIBUTION_KEY"
           /\ out = Reach(in, target, in.minimum, in.maximum, "GOVERNANCE_REQUIRED")
  BY <1>1, <1>2, <1>7, ReachIsExact
<1> QED
  BY <1>4, <1>5, <1>6, <1>7

(* A quotation is approvable when the rate it needs is within the largest  *)
(* share of the gross rate: its amount is a common factor.                 *)
LEMMA QuotationIsExact ==
  ASSUME NEW in \in Inputs, in.of = "quotation", NEW out, out = SolveQuotationTarget(in),
         out # Refused
  PROVE  out.verdict = "APPROVABLE" <=> out.gap = 0
<1>1. /\ in.amount \in Int /\ in.grossRate \in Int /\ in.targetRate \in Int
      /\ in.maxNisba \in Int
  BY CalculationsAssumption
<1>2. PICK a, g, t, m \in Int : a = in.amount /\ g = in.grossRate /\ t = in.targetRate
                                /\ m = in.maxNisba
  BY <1>1
<1>3. PICK gap : gap = Positive(a * t * 10 - a * g * m)
  OBVIOUS
<1>4. PICK verdict : verdict = IF 10 * t <= m * g THEN "APPROVABLE"
                               ELSE IF gap <= 1000 * (in.tanazul + in.reserves)
                               THEN "ALCO_APPROVAL_REQUIRED" ELSE "NOT_VIABLE"
  OBVIOUS
<1>5. a > 0 /\ out = [verdict |-> verdict, gap |-> gap]
  BY <1>2, <1>3, <1>4 DEF SolveQuotationTarget
<1>6. PICK x \in Int : x = 10 * t - m * g
  OBVIOUS
<1>7. a * t * 10 - a * g * m = a * x
  BY <1>6
<1>8. a * x > 0 <=> x > 0
  <2>1. CASE x > 0
    BY <1>5, <2>1
  <2>2. CASE x <= 0
    <3>1. PICK y \in Nat : y = -x
      BY <2>2
    <3>2. a * y >= 0
      BY <1>5
    <3>3. a * x = -(a * y)
      BY <3>1
    <3> QED
      BY <2>2, <3>2, <3>3
  <2> QED
    BY <2>1, <2>2
<1>9. PICK n \in Int : n = a * x
  OBVIOUS
<1>10. gap = IF n > 0 THEN n ELSE 0
  BY <1>3, <1>7, <1>9 DEF Positive
<1>11. gap = 0 <=> x <= 0
  BY <1>8, <1>9, <1>10
<1>12. verdict = "APPROVABLE" <=> x <= 0
  <2>1. PICK p \in Int : p = m * g
    OBVIOUS
  <2> QED
    BY <1>4, <1>6, <2>1
<1> QED
  BY <1>5, <1>11, <1>12

(* Rounding half away from zero is off by half a unit at most.             *)
LEMMA HalfUpIs ==
  ASSUME NEW n \in Int, NEW d \in Nat, d > 0, NEW h, h = HalfUp(n, d)
  PROVE  /\ h \in Int /\ 2 * (d * h - n) <= d /\ 2 * (n - d * h) <= d
         /\ n >= 0 => 2 * n + d < 2 * (d * (h + 1)) /\ 2 * (d * h) <= 2 * n + d
<1>1. PICK e \in Nat : e = 2 * d /\ e > 0
  OBVIOUS
<1>2. CASE n >= 0
  <2>1. PICK q, r \in Int : /\ q = (2 * n + d) \div e /\ r = (2 * n + d) % e
                            /\ 2 * n + d = e * q + r /\ 0 <= r /\ r < e
    BY <1>1, Division
  <2>2. h = q
    BY <1>1, <1>2, <2>1 DEF HalfUp
  <2>3. PICK p \in Int : p = d * q
    OBVIOUS
  <2>4. e * q = 2 * p /\ d * (q + 1) = p + d
    BY <1>1, <2>3
  <2> QED
    BY <1>1, <2>1, <2>2, <2>3, <2>4
<1>3. CASE n < 0
  <2>1. PICK q, r \in Int : /\ q = (d - 2 * n) \div e /\ r = (d - 2 * n) % e
                            /\ d - 2 * n = e * q + r /\ 0 <= r /\ r < e
    BY <1>1, Division
  <2>2. h = -q
    BY <1>1, <1>3, <2>1 DEF HalfUp
  <2>3. PICK p \in Int : p = d * q
    OBVIOUS
  <2>4. e * q = 2 * p /\ d * h = -p
    BY <1>1, <2>2, <2>3
  <2> QED
    BY <1>1, <1>3, <2>1, <2>2, <2>4
<1> QED
  BY <1>2, <1>3

(* A shock of at most the whole leaves no negative value, whatever its     *)
(* rounding.                                                               *)
LEMMA StressIsExact ==
  ASSUME NEW in \in Inputs, in.of = "stress", NEW out, out = ExecuteStressScenario(in)
  PROVE  /\ in.base >= 0 /\ in.shock \in -10..10 => out # Refused
         /\ out # Refused => Magnitude(10 * out.impact - in.base * in.shock) <= 5
<1>1. in.base \in Int /\ in.shock \in Int
  BY CalculationsAssumption
<1>2. PICK b, s \in Int : b = in.base /\ s = in.shock
  BY <1>1
<1>3. PICK n \in Int : n = b * s
  OBVIOUS
<1>4. PICK h : h = HalfUp(n, 10)
  OBVIOUS
<1>5. h \in Int /\ 2 * (10 * h - n) <= 10 /\ 2 * (n - 10 * h) <= 10
  BY <1>4, HalfUpIs
<1>6. PICK answer : answer = [stressed |-> b + h, impact |-> h]
  OBVIOUS
<1>7. out = IF b < 0 \/ s < -10 \/ s > 10 THEN Refused
            ELSE IF b + h < 0 THEN Refused ELSE answer
  BY <1>2, <1>3, <1>4, <1>6 DEF ExecuteStressScenario
<1>8. answer # Refused /\ answer.impact = h
  <2>1. DOMAIN answer = {"stressed", "impact"} /\ DOMAIN Refused = {"refused"}
    BY <1>6 DEF Refused
  <2> QED
    BY <1>6, <2>1
<1>9. ASSUME b >= 0, s \in -10..10 PROVE b + h >= 0
  <2>1. b * (s + 10) >= 0
    BY <1>9
  <2>2. b * (s + 10) = n + 10 * b
    BY <1>3
  <2> QED
    BY <1>5, <2>1, <2>2
<1>10. in.base >= 0 /\ in.shock \in -10..10 => out # Refused
  BY <1>2, <1>5, <1>7, <1>8, <1>9
<1>11. Magnitude(10 * h - n) <= 5
  BY <1>5 DEF Magnitude
<1>12. out # Refused => out = answer
  BY <1>7
<1> QED
  BY <1>2, <1>3, <1>8, <1>10, <1>11, <1>12

(* A rounded ratio is within the threshold when the exact one is not more  *)
(* than half a unit below it.                                              *)
LEMMA DcrIsExact ==
  ASSUME NEW in \in Inputs, in.of = "dcr", NEW out, out = CalculateDcr(in), out # Refused
  PROVE  out.state = "WITHIN_LIMIT"
           <=> 20 * in.capital >= (2 * in.threshold - 1) * in.exposure
<1>1. in.capital \in Int /\ in.exposure \in Int /\ in.threshold \in Int
  BY CalculationsAssumption
<1>2. PICK c, e, t \in Int : c = in.capital /\ e = in.exposure /\ t = in.threshold
  BY <1>1
<1>3. PICK v : v = HalfUp(c * 10, e)
  OBVIOUS
<1>4. PICK state : state = IF v >= t THEN "WITHIN_LIMIT" ELSE "BREACH"
  OBVIOUS
<1>5. c >= 0 /\ e > 0 /\ out = [value |-> v, state |-> state]
  BY <1>2, <1>3, <1>4 DEF CalculateDcr
<1>6. PICK n \in Nat : n = c * 10
  BY <1>5
<1>7. /\ v \in Int
      /\ 2 * n + e < 2 * (e * (v + 1)) /\ 2 * (e * v) <= 2 * n + e
  BY <1>3, <1>5, <1>6, HalfUpIs
<1>8. PICK p \in Int : p = e * t
  OBVIOUS
<1>9. (2 * t - 1) * e = 2 * p - e
  BY <1>8
<1>10. v >= t => 2 * p <= 2 * n + e
  <2>1. SUFFICES ASSUME v >= t PROVE 2 * p <= 2 * n + e
    OBVIOUS
  <2>2. e * (v - t) >= 0
    BY <1>5, <1>7, <2>1
  <2>3. e * (v - t) = e * v - p
    BY <1>7, <1>8
  <2> QED
    BY <1>7, <2>2, <2>3
<1>11. ~(v >= t) => 2 * p > 2 * n + e
  <2>1. SUFFICES ASSUME v < t PROVE 2 * p > 2 * n + e
    BY <1>7
  <2>2. e * (t - (v + 1)) >= 0
    BY <1>5, <1>7, <2>1
  <2>3. e * (t - (v + 1)) = p - e * (v + 1)
    BY <1>7, <1>8
  <2> QED
    BY <1>7, <2>2, <2>3
<1>12. v >= t <=> 20 * c >= (2 * t - 1) * e
  BY <1>6, <1>9, <1>10, <1>11
<1>13. out.state = "WITHIN_LIMIT" <=> v >= t
  BY <1>4, <1>5
<1> QED
  BY <1>2, <1>12, <1>13

(* The decisions, from what is answered.                                   *)
LEMMA DecisionsAreRight == Computed => DecisionsAreExact
<1> SUFFICES ASSUME Computed PROVE DecisionsAreExact
  OBVIOUS
<1>1. ASSUME Done("target"), ~HasZeroDivisor, NEW target, target = input.base * input.rate
      PROVE  /\ target < output.low \/ target > output.high => output.status = "OUT_OF_RANGE"
             /\ output.status = "OUT_OF_RANGE" =>
                  target < output.low \/ target > output.high \/ (target = 0 /\ output.high = 0)
             /\ output.status = "APPLICABLE" /\ input.lever = "DISTRIBUTION_KEY"
                  => target <= input.key * input.distributable
  <2>1. input \in Inputs /\ input.of = "target" /\ output # Refused
    BY <1>1, DoneIs
  <2>2. output = SolveProfitTarget(input)
    BY <1>1, DoneIs, ResultIs
  <2>3. input.base # 0 /\ input.distributable # 0
    BY <1>1, <2>1 DEF HasZeroDivisor
  <2> QED
    BY <1>1, <2>1, <2>2, <2>3, TargetIsExact
<1>2. ASSUME Done("quotation") PROVE output.verdict = "APPROVABLE" <=> output.gap = 0
  <2>1. output = SolveQuotationTarget(input)
    BY <1>2, DoneIs, ResultIs
  <2>2. input \in Inputs /\ input.of = "quotation" /\ output # Refused
    BY <1>2, DoneIs
  <2> QED
    BY <2>1, <2>2, QuotationIsExact
<1>3. ASSUME input.of = "stress", input.base >= 0, input.shock \in -10..10
      PROVE  output # Refused
  <2>1. CASE output = Pending
    <3>1. DOMAIN Pending = {"pending"} /\ DOMAIN Refused = {"refused"}
      BY DEF Pending, Refused
    <3> QED
      BY <2>1, <3>1
  <2>2. CASE output = Result(input)
    <3>1. output = ExecuteStressScenario(input)
      BY <1>3, <2>2, ResultIs
    <3>2. input \in Inputs
      BY DEF Computed
    <3> QED
      BY <1>3, <3>1, <3>2, StressIsExact
  <2> QED
    BY <2>1, <2>2 DEF Computed
<1>4. ASSUME Done("stress")
      PROVE  Magnitude(10 * output.impact - input.base * input.shock) <= 5
  <2>1. output = ExecuteStressScenario(input)
    BY <1>4, DoneIs, ResultIs
  <2>2. input \in Inputs /\ input.of = "stress" /\ output # Refused
    BY <1>4, DoneIs
  <2> QED
    BY <2>1, <2>2, StressIsExact
<1>5. ASSUME Done("dcr")
      PROVE  output.state = "WITHIN_LIMIT"
               <=> 20 * input.capital >= (2 * input.threshold - 1) * input.exposure
  <2>1. output = CalculateDcr(input)
    BY <1>5, DoneIs, ResultIs
  <2>2. input \in Inputs /\ input.of = "dcr" /\ output # Refused
    BY <1>5, DoneIs
  <2> QED
    BY <2>1, <2>2, DcrIsExact
<1> QED
  BY <1>1, <1>2, <1>3, <1>4, <1>5 DEF DecisionsAreExact

(* Every decision is the one of the exact numbers, for any amounts: a      *)
(* target is out of range when the range it is answered with misses it, a  *)
(* quotation approvable when it has no gap, a stressed value never         *)
(* negative, and a displaced commercial risk within its limit up to half a *)
(* unit of its ratio (solveProfitTarget, solveQuotationTarget,             *)
(* executeStressScenario, calculateDcr).                                   *)
THEOREM DecisionsStayExact == CalculationsSpec => []DecisionsAreExact
  BY DecisionsAreRight, CalculationsAnswer, PTL

-----------------------------------------------------------------------------
(* A loss is borne in proportion to the capitals, to the next unit, though *)
(* it is divided by two rounded ratios (splitUnits).                       *)

(* What is short of m by half a unit of a ratio, or less, is rounded to m  *)
(* at least.                                                               *)
LEMMA RoundsUpTo ==
  ASSUME NEW u \in Nat, u >= 1, NEW t \in Nat, t = 10 * u, NEW m \in 0..t, NEW n \in Nat,
         n >= m * (100 * t - 50)
  PROVE  HalfEven(n, 100 * t) >= m
<1>1. PICK d \in Nat : d = 100 * t /\ d > 0
  OBVIOUS
<1>2. PICK h : h = HalfEven(n, d)
  OBVIOUS
<1>3. h \in Nat /\ 2 * (n - d * h) <= d
  BY <1>1, <1>2, HalfEvenIs
<1>4. SUFFICES ASSUME h < m PROVE FALSE
  BY <1>1, <1>2, <1>3
<1>5. PICK v, w \in Int : v = d * h /\ w = d * m
  BY <1>3
<1>6. v <= w - d
  <2>1. d * (m - (h + 1)) >= 0
    BY <1>3, <1>4
  <2>2. d * (m - (h + 1)) = w - v - d
    BY <1>3, <1>5
  <2> QED
    BY <2>1, <2>2
<1>7. n >= w - 50 * m
  <2>1. m * (100 * t - 50) = w - 50 * m
    BY <1>1, <1>5
  <2> QED
    BY <2>1
<1>8. m = t
  BY <1>1, <1>3, <1>5, <1>6, <1>7
<1>9. n = d * (t - 1) + 50 * t
  <2>1. 2 * n <= 2 * w - d /\ n >= w - 50 * t
    BY <1>1, <1>3, <1>5, <1>6, <1>7, <1>8
  <2>2. n = w - 50 * t
    BY <1>1, <2>1
  <2>3. d * (t - 1) = w - d
    BY <1>5, <1>8
  <2> QED
    BY <1>1, <2>2, <2>3
<1>10. n \div d = t - 1 /\ n % d = 50 * t
  <2>1. PICK q, r \in Int : q = t - 1 /\ r = 50 * t
    OBVIOUS
  <2>2. n = d * q + r /\ 0 <= r /\ r < d
    BY <1>1, <1>9, <2>1
  <2>3. n \div d = q /\ n % d = r
    <3>1. n \in Int /\ d \in Nat /\ d > 0
      BY <1>1
    <3>2. n = d * q + r
      BY <2>2
    <3>3. 0 <= r
      BY <2>2
    <3>4. r < d
      BY <2>2
    <3> QED
      BY <3>1, <3>2, <3>3, <3>4, DivisionIs
  <2> QED
    BY <2>1, <2>3
<1>11. h = t
  <2>1. (t - 1) % 2 = 1
    OBVIOUS
  <2> QED
    BY <1>1, <1>2, <1>10, <2>1 DEF HalfEven
<1> QED
  BY <1>4, <1>8, <1>11

(* A ratio that is short of a whole number by half a unit of its last      *)
(* digit, or less, is not rounded below it.                                *)
LEMMA NotBelow ==
  ASSUME NEW a \in Nat, NEW n \in Nat, n >= a * (One - 50), n * TenTo[1] <= TenTo[Digits] * One - 1
  PROVE  Quotient(n, One) >= a * One
<1>1. PICK one, t, u \in Nat : /\ one = One /\ t = TenTo[Digits] /\ u = TenTo[Digits - 1]
                               /\ one = 100 * t /\ t = 10 * u /\ u >= 1
  BY PowersOfPlaces
<1>2. one > 0 /\ 1 \in 0..Places
  BY <1>1, PlacesAre
<1>3. PICK k \in 1..Places : Kept(n, one, k)
  BY <1>1, <1>2, QuotientIs
<1>4. k \in Nat /\ k <= Places /\ Places \in Nat
  BY PlacesAre
<1>5. PICK p, q \in Nat : p = TenTo[k] /\ q = TenTo[Places - k] /\ One = p * q /\ p > 0
  <2>1. TenTo[Places] = TenTo[k] * TenTo[Places - k] /\ Places - k \in Nat
    BY <1>4, PowersShrink
  <2> QED
    BY <1>4, <2>1, TenToType DEF One
<1>6. PICK m, c \in Nat : m = a * p /\ c = n * p
  OBVIOUS
<1>7. c >= m * (100 * t - 50)
  <2>1. PICK e \in Nat : e = 100 * t - 50
    BY <1>1
  <2>2. PICK f \in Nat : f = a * e
    OBVIOUS
  <2>3. p * (n - f) >= 0
    BY <1>1, <2>1, <2>2
  <2>4. p * (n - f) = c - p * f
    BY <1>6
  <2>5. p * f = m * e
    <3>1. p * (a * e) = (a * p) * e
      OBVIOUS
    <3> QED
      BY <1>6, <2>2, <3>1
  <2>6. PICK g \in Int : g = m * e
    OBVIOUS
  <2> QED
    BY <2>1, <2>3, <2>4, <2>5, <2>6
<1>8. c <= t * (100 * t) - 1
  BY <1>1, <1>3, <1>5, <1>6 DEF Kept
<1>9. m <= t
  <2>1. SUFFICES ASSUME m >= t + 1 PROVE FALSE
    OBVIOUS
  <2>2. (m - (t + 1)) * (100 * t - 50) >= 0
    BY <1>1, <2>1
  <2>3. PICK z \in Int : z = m * (100 * t - 50)
    OBVIOUS
  <2>4. (m - (t + 1)) * (100 * t - 50) = z - (t * (100 * t) + 50 * t - 50)
    BY <2>3
  <2>5. PICK s \in Int : s = t * (100 * t)
    OBVIOUS
  <2> QED
    BY <1>1, <1>7, <1>8, <2>2, <2>3, <2>4, <2>5
<1>10. HalfEven(c, 100 * t) >= m
  BY <1>1, <1>7, <1>9, RoundsUpTo
<1>11. PICK h \in Nat : h = HalfEven(c, one)
  BY <1>2, HalfEvenIs
<1>12. Quotient(n, One) = h * q
  BY <1>1, <1>3, <1>5, <1>6, <1>11 DEF Kept
<1>13. (h - m) * q >= 0
  <2>1. h >= m
    BY <1>1, <1>10, <1>11
  <2>2. PICK x \in Nat : x = h - m
    BY <1>6, <1>11, <2>1
  <2>3. x * q >= 0
    OBVIOUS
  <2> QED
    BY <2>2, <2>3
<1>14. (h - m) * q = h * q - a * (p * q)
  BY <1>6
<1> QED
  BY <1>5, <1>12, <1>13, <1>14

(* r is n/d but for half a unit g, which is not far below the quotient.    *)
Close(n, d, r, g) ==
  /\ g >= 1 /\ (g = 1 \/ d * g <= 1000 * n)
  /\ 2 * (r * d - n * One) <= d * g
  /\ 2 * (n * One - r * d) <= d * g

(* A quotient is that near, as far as its digits fit.                      *)
LEMMA QuotientTight ==
  ASSUME NEW n \in Nat, NEW d \in Nat, d > 0, NEW j \in 0..Places,
         n * TenTo[j] <= TenTo[Digits] * d - 1, NEW r, r = Quotient(n, d)
  PROVE  /\ r \in Nat
         /\ \E g \in Nat : Close(n, d, r, g)
<1>1. PICK k \in j..Places : Kept(n, d, k)
  BY QuotientIs
<1>2. k \in 0..Places /\ k \in Nat /\ k <= Places /\ Places \in Nat
  BY PlacesAre
<1>3. PICK p, g \in Nat : p = TenTo[k] /\ g = TenTo[Places - k] /\ One = p * g /\ g >= 1
  <2>1. TenTo[Places] = TenTo[k] * TenTo[Places - k] /\ Places - k \in Nat
    BY <1>2, PowersShrink
  <2> QED
    BY <1>2, <2>1, TenToType DEF One
<1>4. r \in Nat /\ 2 * (r * d - n * One) <= d * g /\ 2 * (n * One - r * d) <= d * g
  BY <1>1, <1>2, <1>3, KeptNear
<1>5. g = 1 \/ d * g <= 1000 * n
  <2>1. CASE k = Places
    BY <1>2, <1>3, <2>1, TenToIs
  <2>2. CASE k < Places
    <3>1. PICK t \in Nat : t = TenTo[Digits] /\ One = 100 * t /\ t >= 1
      BY PowersOfPlaces
    <3>2. TenTo[k + 1] = 10 * p
      BY <1>2, <1>3, TenToIs
    <3>3. n * (10 * p) >= t * d
      BY <1>1, <2>2, <3>1, <3>2 DEF Kept
    <3>4. PICK e \in Nat : e = n * (10 * p) - t * d
      <4>1. PICK a, b \in Nat : a = n * (10 * p) /\ b = t * d
        OBVIOUS
      <4>2. a - b \in Nat
        BY <3>3, <4>1
      <4> QED
        BY <4>1, <4>2
    <3>5. e * g = (n * (10 * p) - t * d) * g
      BY <3>4
    <3>6. (n * (10 * p) - t * d) * g = 10 * (n * (p * g)) - t * (d * g)
      OBVIOUS
    <3>7. n * (100 * t) = 100 * (t * n)
      OBVIOUS
    <3>8. PICK z \in Nat : z = d * g
      OBVIOUS
    <3>9. t * (1000 * n - z) >= 0
      <4>1. 1000 * (t * n) - t * z = e * g
        BY <1>3, <3>1, <3>5, <3>6, <3>7, <3>8
      <4>2. t * (1000 * n - z) = 1000 * (t * n) - t * z
        OBVIOUS
      <4>3. e * g >= 0
        OBVIOUS
      <4> QED
        BY <4>1, <4>2, <4>3
    <3>10. 1000 * n - z >= 0
      <4>1. SUFFICES ASSUME 1000 * n - z < 0 PROVE FALSE
        OBVIOUS
      <4>2. PICK y \in Nat : y = z - 1000 * n /\ y >= 1
        BY <4>1
      <4>3. t * y > 0
        BY <3>1, <4>2
      <4>4. t * (1000 * n - z) = -(t * y)
        BY <4>2
      <4> QED
        BY <3>9, <4>3, <4>4
    <3> QED
      BY <3>8, <3>10
  <2> QED
    BY <1>2, <2>1, <2>2
<1>6. Close(n, d, r, g)
  BY <1>3, <1>4, <1>5 DEF Close
<1> QED
  BY <1>4, <1>6

(* The product of a loss and a ratio of capital.                           *)
LEMMA ProductNear ==
  ASSUME NEW total \in Nat, FewDigits(total), NEW r \in Nat, r <= One + 50
  PROVE  /\ (total * r) * TenTo[1] <= TenTo[Digits] * One - 1
         /\ Product(total, r) \in Nat
         /\ 2 * (total * r - Product(total, r)) <= One \div 10
         /\ 2 * (Product(total, r) - total * r) <= One \div 10
         /\ \E g \in Nat : /\ g = 1 \/ g <= 1050 * total
                           /\ 2 * (total * r - Product(total, r)) <= g
                           /\ 2 * (Product(total, r) - total * r) <= g
<1>1. PICK one, t, c \in Nat : /\ one = One /\ t = TenTo[Digits] /\ one > 0 /\ one = 100 * t
                               /\ c = One \div 10 /\ c = TenTo[Places - 1] /\ one = 10 * c
                               /\ t >= 10
  BY PowersOfPlaces, TenToType, PlacesAre
<1>2. 10 * total <= t - 10
  BY <1>1, FewTens
<1>3. PICK n \in Nat : n = total * r
  OBVIOUS
<1>4. PICK v, w \in Nat : v = total * one /\ w = t * one
  OBVIOUS
<1>5. n <= v + 50 * total
  <2>1. total * (one + 50 - r) >= 0
    BY <1>1
  <2>2. total * (one + 50 - r) = total * one + 50 * total - n
    BY <1>3
  <2> QED
    BY <1>4, <2>1, <2>2
<1>6. n * 10 <= t * one - 1
  <2>1. one * (t - 10 - 10 * total) >= 0
    BY <1>2
  <2>2. one * (t - 10 - 10 * total) = w - 10 * one - 10 * v
    BY <1>4
  <2> QED
    BY <1>1, <1>2, <1>4, <1>5, <2>1, <2>2
<1>7. 1 \in 0..Places
  BY PlacesAre
<1>8. n * TenTo[1] <= TenTo[Digits] * one - 1
  BY <1>1, <1>6, PowersOfPlaces
<1>9. PICK x \in Nat : x = Quotient(n, one)
  BY <1>1, <1>7, <1>8, QuotientNear
<1>10. 2 * (x * one - n * one) <= one * c /\ 2 * (n * one - x * one) <= one * c
  BY <1>1, <1>7, <1>8, <1>9, QuotientNear
<1>11. PICK g \in Nat : /\ g = 1 \/ one * g <= 1000 * n
                        /\ 2 * (x * one - n * one) <= one * g
                        /\ 2 * (n * one - x * one) <= one * g
  <2>1. PICK g \in Nat : Close(n, one, x, g)
    BY <1>1, <1>7, <1>8, <1>9, QuotientTight
  <2> QED
    BY <1>1, <2>1 DEF Close
<1>12. ASSUME NEW a \in Nat, 2 * (x * one - n * one) <= one * a, 2 * (n * one - x * one) <= one * a
       PROVE  2 * (x - n) <= a /\ 2 * (n - x) <= a
  <2>1. PICK f \in Int : f = x - n
    OBVIOUS
  <2>2. x * one - n * one = f * one /\ n * one - x * one = -(f * one)
    BY <2>1
  <2>3. one * (a - 2 * f) >= 0 /\ one * (a + 2 * f) >= 0
    <3>1. one * (a - 2 * f) = one * a - 2 * (f * one) /\ one * (a + 2 * f) = one * a + 2 * (f * one)
      OBVIOUS
    <3>2. PICK z, y \in Int : z = one * a /\ y = f * one
      OBVIOUS
    <3> QED
      BY <1>12, <2>2, <3>1, <3>2
  <2>4. a - 2 * f >= 0
    <3>1. SUFFICES ASSUME 2 * f - a >= 1 PROVE FALSE
      OBVIOUS
    <3>2. one * (2 * f - a - 1) >= 0
      BY <3>1
    <3>3. one * (2 * f - a - 1) = -(one * (a - 2 * f)) - one
      OBVIOUS
    <3>4. PICK z \in Int : z = one * (a - 2 * f)
      OBVIOUS
    <3> QED
      BY <1>1, <2>3, <3>2, <3>3, <3>4
  <2>5. a + 2 * f >= 0
    <3>1. SUFFICES ASSUME -(2 * f) - a >= 1 PROVE FALSE
      OBVIOUS
    <3>2. one * (-(2 * f) - a - 1) >= 0
      BY <3>1
    <3>3. one * (-(2 * f) - a - 1) = -(one * (a + 2 * f)) - one
      OBVIOUS
    <3>4. PICK z \in Int : z = one * (a + 2 * f)
      OBVIOUS
    <3> QED
      BY <1>1, <2>3, <3>2, <3>3, <3>4
  <2> QED
    BY <2>1, <2>4, <2>5
<1>13. 2 * (x - n) <= c /\ 2 * (n - x) <= c
  BY <1>10, <1>12
<1>14. 2 * (x - n) <= g /\ 2 * (n - x) <= g
  BY <1>11, <1>12
<1>15. g = 1 \/ g <= 1050 * total
  <2>1. SUFFICES ASSUME g >= 1050 * total + 1, one * g <= 1000 * n PROVE FALSE
    BY <1>11
  <2>2. one * (g - 1050 * total - 1) >= 0
    BY <2>1
  <2>3. one * (g - 1050 * total - 1) = one * g - 1050 * v - one
    BY <1>4
  <2>4. total * (one - 1000) >= 0
    BY <1>1
  <2>5. total * (one - 1000) = v - 1000 * total
    BY <1>4
  <2>6. PICK z \in Int : z = one * g
    OBVIOUS
  <2> QED
    BY <1>1, <1>5, <2>1, <2>2, <2>3, <2>4, <2>5, <2>6
<1>16. x = Product(total, r)
  BY <1>1, <1>3, <1>9 DEF Product
<1> QED
  BY <1>1, <1>3, <1>8, <1>13, <1>14, <1>15, <1>16

(* A number x near big / d: how far its whole part is from it, and on      *)
(* which side when it is a whole number away.                              *)
LEMMA WholeNear ==
  ASSUME NEW c \in Nat, c > 0, NEW d \in Nat, d > 0, NEW p \in Int, NEW i \in Nat, i < 10 * c,
         NEW x, x = (10 * c) * p + i, NEW big \in Int, NEW f, f = big - p * d,
         x * d - (10 * c) * big < d * c, (10 * c) * big - x * d < d * c
  PROVE  /\ f \in Int /\ 10 * f < 11 * d /\ 10 * f > -d
         /\ f <= 0 => i < c
         /\ f >= d => i > 9 * c
<1>1. PICK g, w, v, e \in Int : g = f /\ w = c * f /\ v = i * d /\ e = c * d /\ e > 0 /\ v >= 0
  <2>1. f \in Int /\ c * d > 0 /\ i * d >= 0
    OBVIOUS
  <2> QED
    BY <2>1
<1>2. x * d - (10 * c) * big = v - 10 * w
  <2>1. ((10 * c) * p + i) * d - (10 * c) * big = i * d - 10 * (c * (big - p * d))
    OBVIOUS
  <2> QED
    BY <1>1, <2>1
<1>3. (10 * c) * big - x * d = 10 * w - v
  <2>1. PICK y, z \in Int : y = x * d /\ z = (10 * c) * big
    OBVIOUS
  <2> QED
    BY <1>2, <2>1
<1>4. v - 10 * w < e /\ 10 * w - v < e
  BY <1>1, <1>2, <1>3
<1>5. v <= 10 * e
  <2>1. d * (10 * c - i) >= 0
    OBVIOUS
  <2>2. d * (10 * c - i) = 10 * (c * d) - i * d
    OBVIOUS
  <2> QED
    BY <1>1, <2>1, <2>2
<1>6. 10 * g < 11 * d
  <2>1. SUFFICES ASSUME 10 * g - 11 * d >= 0 PROVE FALSE
    OBVIOUS
  <2>2. c * (10 * g - 11 * d) >= 0
    BY <2>1
  <2>3. c * (10 * g - 11 * d) = 10 * w - 11 * e
    BY <1>1
  <2> QED
    BY <1>4, <1>5, <2>2, <2>3
<1>7. 10 * g > -d
  <2>1. SUFFICES ASSUME -(10 * g) - d >= 0 PROVE FALSE
    OBVIOUS
  <2>2. c * (-(10 * g) - d) >= 0
    BY <2>1
  <2>3. c * (-(10 * g) - d) = -(10 * w) - e
    BY <1>1
  <2> QED
    BY <1>1, <1>4, <2>2, <2>3
<1>8. ASSUME g <= 0 PROVE i < c
  <2>1. c * (0 - g) >= 0
    BY <1>8
  <2>2. c * (0 - g) = -w
    BY <1>1
  <2>3. v < e
    BY <1>4, <2>1, <2>2
  <2>4. SUFFICES ASSUME i - c >= 0 PROVE FALSE
    OBVIOUS
  <2>5. d * (i - c) >= 0
    BY <2>4
  <2>6. d * (i - c) = v - e
    BY <1>1
  <2> QED
    BY <2>3, <2>5, <2>6
<1>9. ASSUME g >= d PROVE i > 9 * c
  <2>1. c * (g - d) >= 0
    BY <1>9
  <2>2. c * (g - d) = w - e
    BY <1>1
  <2>3. v > 9 * e
    BY <1>4, <2>1, <2>2
  <2>4. SUFFICES ASSUME 9 * c - i >= 0 PROVE FALSE
    OBVIOUS
  <2>5. d * (9 * c - i) >= 0
    BY <2>4
  <2>6. d * (9 * c - i) = 9 * e - v
    BY <1>1
  <2> QED
    BY <2>3, <2>5, <2>6
<1> QED
  BY <1>1, <1>6, <1>7, <1>8, <1>9

(* The unit that is left over goes where the fraction is larger, and both  *)
(* shares stay within a unit of the exact ones.                            *)
LEMMA RestGoesFairly ==
  ASSUME NEW c \in Nat, c > 0, NEW d \in Nat, d > 0, NEW total \in Nat,
         NEW n \in Nat, NEW m \in Nat, n + m = d,
         NEW p \in Int, NEW i \in Nat, i < 10 * c, NEW x, x = (10 * c) * p + i,
         NEW q \in Int, NEW j \in Nat, j < 10 * c, NEW y, y = (10 * c) * q + j,
         x * d - (10 * c) * (total * n) < d * c, (10 * c) * (total * n) - x * d < d * c,
         y * d - (10 * c) * (total * m) < d * c, (10 * c) * (total * m) - y * d < d * c,
         NEW e \in {0, 1}, e = total - p - q,
         NEW a, a = p + (IF e > 0 /\ i >= j THEN e ELSE 0),
         NEW b, b = q + (IF e > 0 /\ ~(i >= j) THEN e ELSE 0)
  PROVE  /\ a \in Int /\ b \in Int /\ a + b = total
         /\ a * d - total * n < d /\ total * n - a * d < d
         /\ b * d - total * m < d /\ total * m - b * d < d
<1>1. PICK bigN, bigM, u, v, l \in Int : /\ bigN = total * n /\ bigM = total * m
                                         /\ u = p * d /\ v = q * d /\ l = total * d
  OBVIOUS
<1>2. PICK f, g \in Int : f = bigN - p * d /\ g = bigM - q * d /\ f = bigN - u /\ g = bigM - v
  <2>1. bigN - u \in Int /\ bigM - v \in Int
    OBVIOUS
  <2> QED
    BY <1>1, <2>1
<1>3. bigN + bigM = l
  <2>1. total * n + total * m = total * (n + m)
    OBVIOUS
  <2> QED
    BY <1>1, <2>1
<1>4. x * d - (10 * c) * bigN < d * c /\ (10 * c) * bigN - x * d < d * c
  BY <1>1
<1>5. y * d - (10 * c) * bigM < d * c /\ (10 * c) * bigM - y * d < d * c
  BY <1>1
<1>6. 10 * f < 11 * d /\ 10 * f > -d /\ (f <= 0 => i < c) /\ (f >= d => i > 9 * c)
  BY <1>2, <1>4, WholeNear
<1>7. 10 * g < 11 * d /\ 10 * g > -d /\ (g <= 0 => j < c) /\ (g >= d => j > 9 * c)
  BY <1>2, <1>5, WholeNear
<1>8. l = u + v + e * d
  <2>1. total = p + q + e
    OBVIOUS
  <2>2. (p + q + e) * d = p * d + q * d + e * d
    OBVIOUS
  <2> QED
    BY <1>1, <2>1, <2>2
<1>9. CASE e = 0
  <2>1. a = p /\ b = q
    BY <1>9
  <2>2. f + g = 0
    BY <1>2, <1>3, <1>8, <1>9
  <2>3. a * d = u /\ b * d = v
    BY <1>1, <2>1
  <2>4. a \in Int /\ b \in Int /\ a + b = total
    BY <1>9, <2>1
  <2> QED
    BY <1>1, <1>2, <1>6, <1>7, <2>2, <2>3, <2>4
<1>10. CASE e = 1 /\ i >= j
  <2>1. a = p + 1 /\ b = q
    BY <1>10
  <2>2. f + g = d
    BY <1>2, <1>3, <1>8, <1>10
  <2>3. a * d = u + d /\ b * d = v
    BY <1>1, <2>1
  <2>4. a \in Int /\ b \in Int /\ a + b = total
    BY <1>10, <2>1
  <2>5. f > 0
    <3>1. SUFFICES ASSUME f <= 0 PROVE FALSE
      OBVIOUS
    <3>2. i < c /\ j > 9 * c
      BY <1>6, <1>7, <2>2, <3>1
    <3> QED
      BY <1>10, <3>2
  <2> QED
    BY <1>1, <1>2, <1>6, <1>7, <2>2, <2>3, <2>4, <2>5
<1>11. CASE e = 1 /\ ~(i >= j)
  <2>1. a = p /\ b = q + 1
    BY <1>11
  <2>2. f + g = d
    BY <1>2, <1>3, <1>8, <1>11
  <2>3. a * d = u /\ b * d = v + d
    BY <1>1, <2>1
  <2>4. a \in Int /\ b \in Int /\ a + b = total
    BY <1>11, <2>1
  <2>5. g > 0
    <3>1. SUFFICES ASSUME g <= 0 PROVE FALSE
      OBVIOUS
    <3>2. j < c /\ i > 9 * c
      BY <1>6, <1>7, <2>2, <3>1
    <3> QED
      BY <1>11, <3>2
  <2> QED
    BY <1>1, <1>2, <1>6, <1>7, <2>2, <2>3, <2>4, <2>5
<1> QED
  BY <1>9, <1>10, <1>11

(* Two products that together are short of the total by little leave at    *)
(* most one unit over.                                                     *)
LEMMA AtMostOneLeft ==
  ASSUME NEW total \in Nat, FewDigits(total), NEW r \in Nat, NEW s \in Nat,
         r + s >= One - 50, r <= One + 50, s <= One + 50,
         NEW p \in Int, NEW q \in Int,
         p = Product(total, r) \div One, q = Product(total, s) \div One
  PROVE  total - p - q <= 1
<1>1. PICK one, e \in Nat : one = One /\ one > 0 /\ e = one - 50
  <2>1. One \in Nat /\ One >= 1000
    BY PowersOfPlaces
  <2>2. One - 50 \in Nat
    BY <2>1
  <2> QED
    BY <2>1, <2>2
<1>2. PICK x, y \in Nat : x = Product(total, r) /\ y = Product(total, s)
  BY ProductNear
<1>3. x \div one \in Int /\ x % one \in 0..(one - 1) /\ x = one * (x \div one) + (x % one)
      /\ x \div one >= 0
  BY <1>1, Division
<1>4. y \div one \in Int /\ y % one \in 0..(one - 1) /\ y = one * (y \div one) + (y % one)
      /\ y \div one >= 0
  BY <1>1, Division
<1>5. x < one * (p + 1) /\ y < one * (q + 1) /\ p >= 0 /\ q >= 0
  <2>1. x \div one = p /\ y \div one = q
    BY <1>1, <1>2
  <2>2. PICK i \in Int : i = x % one /\ i < one /\ x = one * p + i
    BY <1>3, <2>1
  <2>3. PICK j \in Int : j = y % one /\ j < one /\ y = one * q + j
    BY <1>4, <2>1
  <2>4. one * (p + 1) = one * p + one /\ one * (q + 1) = one * q + one
    OBVIOUS
  <2>5. p >= 0 /\ q >= 0
    BY <1>3, <1>4, <2>1
  <2>6. PICK f, g \in Int : f = one * p /\ g = one * q
    OBVIOUS
  <2>7. x < one * (p + 1) /\ y < one * (q + 1)
    BY <2>2, <2>3, <2>4, <2>6
  <2> QED
    BY <2>5, <2>7
<1>6. SUFFICES ASSUME total - p - q >= 2 PROVE FALSE
  OBVIOUS
<1>7. PICK a, b \in Nat : a = p + 1 /\ b = total - a
  <2>1. p + 1 \in Nat /\ total - (p + 1) \in Nat
    BY <1>5, <1>6
  <2> QED
    BY <2>1
<1>8. PICK u, v \in Nat : u = total * r /\ v = total * s
  OBVIOUS
<1>9. ~(u >= a * e)
  <2>1. SUFFICES ASSUME u >= a * e PROVE FALSE
    OBVIOUS
  <2>2. u >= a * (One - 50) /\ u * TenTo[1] <= TenTo[Digits] * One - 1
    BY <1>1, <1>8, <2>1, ProductNear
  <2>3. Quotient(u, One) >= a * One
    BY <2>2, NotBelow
  <2>4. x >= a * one
    BY <1>1, <1>2, <1>8, <2>3 DEF Product
  <2>5. a * one = one * (p + 1)
    BY <1>7
  <2> QED
    BY <1>5, <2>4, <2>5
<1>10. ~(v >= b * e)
  <2>1. SUFFICES ASSUME v >= b * e PROVE FALSE
    OBVIOUS
  <2>2. v >= b * (One - 50) /\ v * TenTo[1] <= TenTo[Digits] * One - 1
    BY <1>1, <1>8, <2>1, ProductNear
  <2>3. Quotient(v, One) >= b * One
    BY <2>2, NotBelow
  <2>4. y >= b * one
    BY <1>1, <1>2, <1>8, <2>3 DEF Product
  <2>5. one * (b - (q + 1)) >= 0
    BY <1>1, <1>6, <1>7
  <2>6. one * (b - (q + 1)) = b * one - one * (q + 1)
    OBVIOUS
  <2> QED
    BY <1>5, <2>4, <2>5, <2>6
<1>11. u + v >= total * e
  <2>1. total * (r + s - e) >= 0
    BY <1>1
  <2>2. total * (r + s - e) = total * r + total * s - total * e
    OBVIOUS
  <2> QED
    BY <1>8, <2>1, <2>2
<1>12. total * e = a * e + b * e
  <2>1. (a + b) * e = a * e + b * e
    OBVIOUS
  <2>2. total = a + b
    BY <1>7
  <2> QED
    BY <2>1, <2>2
<1>13. PICK g, h, l \in Int : g = a * e /\ h = b * e /\ l = total * e
  OBVIOUS
<1> QED
  BY <1>9, <1>10, <1>11, <1>12, <1>13

(* The ratio of a capital.                                                 *)
LEMMA CapitalRatio ==
  ASSUME NEW n \in Nat, NEW d \in Nat, d > 0, n <= d
  PROVE  /\ Quotient(n, d) \in Nat
         /\ Quotient(n, d) * d - n * One <= 50 * d
         /\ n * One - Quotient(n, d) * d <= 50 * d
<1>1. CASE n = d
  <2>1. Quotient(n, d) = One
    BY <1>1, AllOf
  <2>2. PICK z \in Int : z = n * One
    BY PowersOfPlaces
  <2>3. One * d = z
    BY <1>1, <2>2, PowersOfPlaces
  <2> QED
    BY <2>1, <2>2, <2>3, PowersOfPlaces
<1>2. CASE n < d
  <2>1. Digits \in 0..Places /\ n * TenTo[Digits] <= TenTo[Digits] * d - 1
    BY <1>2, PartFits
  <2>2. PICK r : r = Quotient(n, d)
    OBVIOUS
  <2>3. /\ r \in Nat
        /\ 2 * (r * d - n * One) <= d * TenTo[Places - Digits]
        /\ 2 * (n * One - r * d) <= d * TenTo[Places - Digits]
    BY <2>1, <2>2, QuotientNear
  <2>4. TenTo[Places - Digits] = 100
    <3>1. Places - Digits = 2
      BY PlacesAre
    <3> QED
      BY <3>1, PowersOfPlaces
  <2>5. PICK v, w \in Int : v = r * d /\ w = n * One
    <3>1. r * d \in Int /\ n * One \in Int
      BY <2>3, PowersOfPlaces
    <3> QED
      BY <3>1
  <2>6. 2 * (v - w) <= 100 * d /\ 2 * (w - v) <= 100 * d
    BY <2>3, <2>4, <2>5
  <2> QED
    BY <2>2, <2>3, <2>5, <2>6
<1> QED
  BY <1>1, <1>2

(* The larger capital gets the larger product.                             *)
LEMMA ProductsInOrder ==
  ASSUME NEW total \in Nat, total >= 1, FewDigits(total),
         NEW n \in Nat, NEW m \in Nat, n < m, NEW d \in Nat, d = n + m, FewDigits(2 * d),
         NEW r, r = Quotient(n, d), NEW s, s = Quotient(m, d), r <= One + 50, s <= One + 50
  PROVE  Product(total, r) < Product(total, s)
<1>1. PICK one, t \in Nat : one = One /\ t = TenTo[Digits] /\ one = 100 * t
  BY PowersOfPlaces
<1>2. d > 0 /\ n <= d /\ m <= d /\ 2 * d \in Nat
  OBVIOUS
<1>3. 20 * d <= t - 10
  <2>1. 10 * (2 * d) <= TenTo[Digits] - 10
    BY <1>2, FewTens
  <2> QED
    BY <1>1, <2>1
<1>4. r \in Nat /\ r * d - n * one <= 50 * d
  BY <1>1, <1>2, CapitalRatio
<1>5. s \in Nat /\ m * one - s * d <= 50 * d
  BY <1>1, <1>2, CapitalRatio
<1>6. PICK f \in Int : f = s - r
  BY <1>4, <1>5
<1>7. f >= 1900
  <2>1. PICK a, b, g, h \in Int : a = r * d /\ b = s * d /\ g = n * one /\ h = m * one
    BY <1>4, <1>5
  <2>2. h - g >= one
    <3>1. one * (m - n - 1) >= 0
      OBVIOUS
    <3>2. one * (m - n - 1) = h - g - one
      BY <2>1
    <3> QED
      BY <2>1, <3>1, <3>2
  <2>3. b - a >= one - 100 * d
    BY <1>4, <1>5, <2>1, <2>2
  <2>4. b - a >= 1900 * d
    BY <1>1, <1>3, <2>1, <2>3
  <2>5. d * (f - 1900) = b - a - 1900 * d
    <3>1. d * (s - r - 1900) = s * d - r * d - 1900 * d
      BY <1>4, <1>5
    <3> QED
      BY <1>6, <2>1, <3>1
  <2>6. d * (f - 1900) >= 0
    BY <2>1, <2>4, <2>5
  <2>7. SUFFICES ASSUME 1899 - f >= 0 PROVE FALSE
    BY <1>6
  <2>8. d * (1899 - f) >= 0
    BY <2>7
  <2>9. d * (1899 - f) = -(d * (f - 1900)) - d
    OBVIOUS
  <2>10. PICK z \in Int : z = d * (f - 1900)
    OBVIOUS
  <2> QED
    BY <1>2, <2>6, <2>8, <2>9, <2>10
<1>8. PICK x \in Nat, e \in Nat : /\ x = Product(total, r) /\ (e = 1 \/ e <= 1050 * total)
                                  /\ 2 * (x - total * r) <= e
  BY <1>4, ProductNear
<1>9. PICK y \in Nat, g \in Nat : /\ y = Product(total, s) /\ (g = 1 \/ g <= 1050 * total)
                                  /\ 2 * (total * s - y) <= g
  BY <1>5, ProductNear
<1>10. PICK u, v \in Int : u = total * r /\ v = total * s
  BY <1>4, <1>5
<1>11. v - u >= 1900 * total
  <2>1. total * (f - 1900) >= 0
    BY <1>7
  <2>2. total * (s - r - 1900) = total * s - total * r - 1900 * total
    BY <1>4, <1>5
  <2> QED
    BY <1>6, <1>10, <2>1, <2>2
<1>12. 2 * (x - u) <= 1050 * total /\ 2 * (v - y) <= 1050 * total
  BY <1>8, <1>9, <1>10
<1>13. x < y
  BY <1>10, <1>11, <1>12
<1> QED
  BY <1>8, <1>9, <1>13

(* A product is near the part of the loss that the capital bears.          *)
LEMMA ProductOfCapital ==
  ASSUME NEW total \in Nat, FewDigits(total), NEW n \in Nat, NEW d \in Nat, d > 0, n <= d,
         NEW r, r = Quotient(n, d), r <= One + 50, NEW c \in Nat, One = 10 * c,
         NEW x, x = Product(total, r)
  PROVE  x * d - (10 * c) * (total * n) < d * c /\ (10 * c) * (total * n) - x * d < d * c
<1>1. PICK one, t \in Nat : one = One /\ t = TenTo[Digits] /\ c = 10 * t /\ one = 10 * c
  BY PowersOfPlaces
<1>2. 10 * total <= t - 10
  BY <1>1, FewTens
<1>3. r \in Nat /\ r * d - n * one <= 50 * d /\ n * one - r * d <= 50 * d
  BY <1>1, CapitalRatio
<1>4. x \in Nat /\ 2 * (total * r - x) <= c /\ 2 * (x - total * r) <= c
  <2>1. One \div 10 = c
    BY <1>1
  <2> QED
    BY <1>3, <2>1, ProductNear
<1>5. PICK u, f, g \in Int : u = total * r /\ f = x - u /\ g = r * d - n * one
  <2>1. total * r \in Int /\ r * d - n * one \in Int
    BY <1>3
  <2>2. x - total * r \in Int
    BY <1>4, <2>1
  <2> QED
    BY <2>1, <2>2
<1>6. PICK v, w, h, e \in Int : v = f * d /\ w = total * g /\ h = c * d /\ e = total * d
  OBVIOUS
<1>7. x * d - (10 * c) * (total * n) = v + w
  <2>1. x = total * r + f
    BY <1>4, <1>5
  <2>2. (total * r + f) * d - one * (total * n) = f * d + total * (r * d - n * one)
    BY <1>3
  <2> QED
    BY <1>1, <1>5, <1>6, <2>1, <2>2
<1>8. 2 * v <= h /\ 2 * v >= -h
  <2>1. 2 * f <= c /\ -(2 * f) <= c
    BY <1>4, <1>5
  <2>2. d * (c - 2 * f) >= 0 /\ d * (c + 2 * f) >= 0
    <3>1. PICK a, b \in Nat : a = c - 2 * f /\ b = c + 2 * f
      BY <2>1
    <3>2. d * a >= 0 /\ d * b >= 0
      OBVIOUS
    <3> QED
      BY <3>1, <3>2
  <2>3. d * (c - 2 * f) = h - 2 * v /\ d * (c + 2 * f) = h + 2 * v
    BY <1>6
  <2> QED
    BY <1>6, <2>2, <2>3
<1>9. w <= 50 * e /\ -w <= 50 * e
  <2>1. g <= 50 * d /\ -g <= 50 * d
    BY <1>3, <1>5
  <2>2. total * (50 * d - g) >= 0 /\ total * (50 * d + g) >= 0
    <3>1. 50 * d - g \in Nat /\ 50 * d + g \in Nat
      BY <2>1
    <3>2. PICK a, b \in Nat : a = 50 * d - g /\ b = 50 * d + g
      BY <3>1
    <3>3. total * a >= 0 /\ total * b >= 0
      OBVIOUS
    <3> QED
      BY <3>2, <3>3
  <2>3. total * (50 * d - g) = 50 * e - w /\ total * (50 * d + g) = 50 * e + w
    BY <1>6
  <2> QED
    BY <1>6, <2>2, <2>3
<1>10. 100 * e < h
  <2>1. d * (t - 10 - 10 * total) >= 0
    BY <1>2
  <2>2. d * (t - 10 - 10 * total) = d * t - 10 * d - 10 * e
    BY <1>6
  <2>3. h = 10 * (d * t)
    BY <1>1, <1>6
  <2>4. PICK z \in Int : z = d * t
    OBVIOUS
  <2> QED
    BY <1>6, <2>1, <2>2, <2>3, <2>4
<1>11. v + w < h /\ -(v + w) < h
  BY <1>6, <1>8, <1>9, <1>10
<1>12. PICK a, b \in Int : a = x * d /\ b = (10 * c) * (total * n)
  BY <1>4
<1>13. d * c = h
  BY <1>6
<1> QED
  BY <1>7, <1>11, <1>12, <1>13

(* The two shares of a loss: within a unit of the exact ones, nothing for  *)
(* no capital, and not less for more.                                      *)
LEMMA LossIsShared ==
  ASSUME NEW total \in Nat, FewDigits(total), NEW n \in Nat, NEW m \in Nat, n + m > 0,
         FewDigits(2 * (n + m)), NEW a, NEW b,
         SplitUnits(total, Quotient(n, n + m), Quotient(m, n + m)) = <<a, b>>
  PROVE  /\ a \in Nat /\ b \in Nat /\ a + b = total
         /\ a * (n + m) - total * n < n + m /\ total * n - a * (n + m) < n + m
         /\ b * (n + m) - total * m < n + m /\ total * m - b * (n + m) < n + m
         /\ n = 0 => a = 0
         /\ m = 0 => b = 0
         /\ n > m => a >= b
         /\ m > n => b >= a
<1>1. PICK d \in Nat : d = n + m /\ d > 0 /\ n <= d /\ m <= d
  OBVIOUS
<1>2. PICK one, c \in Nat : one = One /\ one = 10 * c /\ c > 0 /\ one > 0 /\ one >= 1000
  <2>1. One = 10 * TenTo[Places - 1] /\ One >= 1000 /\ TenTo[Places - 1] \in Nat
    BY PowersOfPlaces
  <2>2. PICK c \in Nat : c = TenTo[Places - 1]
    BY <2>1
  <2>3. PICK one \in Nat : one = One
    BY PowersOfPlaces
  <2> QED
    BY <2>1, <2>2, <2>3
<1>3. /\ Quotient(n, d) \in Nat /\ Quotient(m, d) \in Nat
      /\ Quotient(n, d) + Quotient(m, d) - One \in (-50)..50
  BY <1>1, RatiosMakeOne
<1>4. PICK r \in Nat, s \in Nat : r = Quotient(n, d) /\ s = Quotient(m, d)
  BY <1>3
<1>5. r + s >= One - 50 /\ r <= One + 50 /\ s <= One + 50
  <2>1. r + s - one \in (-50)..50
    BY <1>2, <1>3, <1>4
  <2>2. r + s >= one - 50 /\ r <= one + 50 /\ s <= one + 50
    BY <1>2, <2>1
  <2> QED
    BY <1>2, <2>2
<1>6. PICK x \in Nat : x = Product(total, r)
  BY <1>5, ProductNear
<1>7. PICK y \in Nat : y = Product(total, s)
  BY <1>5, ProductNear
<1>8. PICK p \in Int, i \in Nat : p = x \div one /\ i = x % one /\ i < 10 * c /\ x = (10 * c) * p + i
  <2>1. x \div one \in Int /\ x % one \in 0..(one - 1) /\ x = one * (x \div one) + (x % one)
    BY <1>2, Division
  <2> QED
    BY <1>2, <2>1
<1>9. PICK q \in Int, j \in Nat : q = y \div one /\ j = y % one /\ j < 10 * c /\ y = (10 * c) * q + j
  <2>1. y \div one \in Int /\ y % one \in 0..(one - 1) /\ y = one * (y \div one) + (y % one)
    BY <1>2, Division
  <2> QED
    BY <1>2, <2>1
<1>10. x * d - (10 * c) * (total * n) < d * c /\ (10 * c) * (total * n) - x * d < d * c
  <2>1. d > 0 /\ n <= d /\ r = Quotient(n, d) /\ r <= One + 50 /\ One = 10 * c
    BY <1>1, <1>2, <1>4, <1>5
  <2> QED
    BY <1>6, <2>1, ProductOfCapital
<1>11. y * d - (10 * c) * (total * m) < d * c /\ (10 * c) * (total * m) - y * d < d * c
  <2>1. d > 0 /\ m <= d /\ s = Quotient(m, d) /\ s <= One + 50 /\ One = 10 * c
    BY <1>1, <1>2, <1>4, <1>5
  <2> QED
    BY <1>7, <2>1, ProductOfCapital
<1>12. PICK e \in {0, 1} : e = total - p - q
  <2>1. total - p - q <= 1
    BY <1>2, <1>5, <1>6, <1>7, <1>8, <1>9, AtMostOneLeft
  <2>2. total - p - q \in Nat
    <3>1. x + y < (total + 1) * one
      BY <1>1, <1>2, <1>3, <1>4, <1>6, <1>7, ProductsTogether
    <3> QED
      BY <1>2, <1>8, <1>9, <3>1, FloorsFit
  <2> QED
    BY <2>1, <2>2
<1>13. /\ a = p + (IF e > 0 /\ i >= j THEN e ELSE 0)
       /\ b = q + (IF e > 0 /\ ~(i >= j) THEN e ELSE 0)
  <2>1. SplitUnits(total, r, s) = << p + (IF e > 0 /\ i >= j THEN e ELSE 0),
                                     q + (IF e > 0 /\ ~(i >= j) THEN e ELSE 0) >>
    BY <1>2, <1>6, <1>7, <1>8, <1>9, <1>12 DEF SplitUnits
  <2>2. SplitUnits(total, r, s) = <<a, b>>
    BY <1>1, <1>4
  <2> QED
    BY <2>1, <2>2
<1>14. /\ a \in Int /\ b \in Int /\ a + b = total
       /\ a * d - total * n < d /\ total * n - a * d < d
       /\ b * d - total * m < d /\ total * m - b * d < d
  <2>1. c > 0 /\ d > 0 /\ n + m = d
    BY <1>1, <1>2
  <2>2. i < 10 * c /\ x = (10 * c) * p + i
    BY <1>8
  <2>3. j < 10 * c /\ y = (10 * c) * q + j
    BY <1>9
  <2> QED
    BY <1>10, <1>11, <1>12, <1>13, <2>1, <2>2, <2>3, RestGoesFairly
<1>15. ASSUME NEW z \in Int, NEW w \in Nat, total * w - z * d < d, z * d - total * w < d
       PROVE  z \in Nat /\ (w = 0 => z = 0)
  <2>1. PICK f, g \in Int : f = total * w /\ g = z * d /\ f >= 0 /\ (w = 0 => f = 0)
    <3>1. total * w >= 0 /\ (w = 0 => total * w = 0)
      OBVIOUS
    <3> QED
      BY <3>1
  <2>2. z >= 0
    <3>1. SUFFICES ASSUME -z - 1 >= 0 PROVE FALSE
      OBVIOUS
    <3>2. d * (-z - 1) >= 0
      BY <3>1
    <3>3. d * (-z - 1) = -g - d
      BY <2>1
    <3> QED
      BY <1>15, <2>1, <3>2, <3>3
  <2>3. ASSUME w = 0 PROVE z = 0
    <3>1. SUFFICES ASSUME z - 1 >= 0 PROVE FALSE
      BY <2>2
    <3>2. d * (z - 1) >= 0
      BY <3>1
    <3>3. d * (z - 1) = g - d
      BY <2>1
    <3> QED
      BY <1>15, <2>1, <2>3, <3>2, <3>3
  <2> QED
    BY <2>2, <2>3
<1>16. a \in Nat /\ (n = 0 => a = 0)
  BY <1>14, <1>15
<1>17. b \in Nat /\ (m = 0 => b = 0)
  BY <1>14, <1>15
<1>18. ASSUME x < y PROVE a <= b
  <2>1. p <= q
    <3>1. SUFFICES ASSUME p - q - 1 >= 0 PROVE FALSE
      OBVIOUS
    <3>2. (10 * c) * (p - q - 1) >= 0
      BY <3>1
    <3>3. (10 * c) * (p - q - 1) = (10 * c) * p - (10 * c) * q - 10 * c
      OBVIOUS
    <3>4. PICK f, g \in Int : f = (10 * c) * p /\ g = (10 * c) * q
      OBVIOUS
    <3> QED
      BY <1>8, <1>9, <1>18, <3>2, <3>3, <3>4
  <2>2. p = q => i < j
    BY <1>8, <1>9, <1>18
  <2>3. CASE e = 0
    BY <1>13, <2>1, <2>3
  <2>4. CASE e = 1 /\ i >= j
    <3>1. a = p + 1 /\ b = q
      BY <1>13, <2>4
    <3>2. p # q
      BY <2>2, <2>4
    <3> QED
      BY <2>1, <3>1, <3>2
  <2>5. CASE e = 1 /\ ~(i >= j)
    <3>1. a = p /\ b = q + 1
      BY <1>13, <2>5
    <3> QED
      BY <2>1, <3>1
  <2> QED
    BY <2>3, <2>4, <2>5
<1>19. ASSUME y < x PROVE b <= a
  <2>1. q <= p
    <3>1. SUFFICES ASSUME q - p - 1 >= 0 PROVE FALSE
      OBVIOUS
    <3>2. (10 * c) * (q - p - 1) >= 0
      BY <3>1
    <3>3. (10 * c) * (q - p - 1) = (10 * c) * q - (10 * c) * p - 10 * c
      OBVIOUS
    <3>4. PICK f, g \in Int : f = (10 * c) * p /\ g = (10 * c) * q
      OBVIOUS
    <3> QED
      BY <1>8, <1>9, <1>19, <3>2, <3>3, <3>4
  <2>2. p = q => i >= j
    BY <1>8, <1>9, <1>19
  <2>3. CASE e = 0
    BY <1>13, <2>1, <2>3
  <2>4. CASE e = 1 /\ i >= j
    <3>1. a = p + 1 /\ b = q
      BY <1>13, <2>4
    <3> QED
      BY <2>1, <3>1
  <2>5. CASE e = 1 /\ ~(i >= j)
    <3>1. a = p /\ b = q + 1
      BY <1>13, <2>5
    <3>2. p # q
      BY <2>2, <2>5
    <3> QED
      BY <2>1, <3>1, <3>2
  <2> QED
    BY <2>3, <2>4, <2>5
<1>20. ASSUME total = 0 PROVE a = 0 /\ b = 0
  BY <1>14, <1>16, <1>17, <1>20
<1>21. ASSUME n > m PROVE a >= b
  <2>1. CASE total = 0
    BY <1>20, <2>1
  <2>2. CASE total >= 1
    <3>1. d = m + n /\ FewDigits(2 * d) /\ m < n
      BY <1>1, <1>21
    <3>2. Product(total, s) < Product(total, r)
      BY <1>4, <1>5, <2>2, <3>1, ProductsInOrder
    <3> QED
      BY <1>6, <1>7, <1>16, <1>17, <1>19, <3>2
  <2> QED
    BY <2>1, <2>2
<1>22. ASSUME m > n PROVE b >= a
  <2>1. CASE total = 0
    BY <1>20, <2>1
  <2>2. CASE total >= 1
    <3>1. FewDigits(2 * d) /\ n < m
      BY <1>1, <1>22
    <3>2. Product(total, r) < Product(total, s)
      BY <1>1, <1>4, <1>5, <2>2, <3>1, ProductsInOrder
    <3> QED
      BY <1>6, <1>7, <1>16, <1>17, <1>18, <3>2
  <2> QED
    BY <2>1, <2>2
<1> QED
  BY <1>1, <1>14, <1>16, <1>17, <1>21, <1>22

(* A loss that is borne by capital.                                        *)
LEMMA MusharakaIsFair ==
  ASSUME NEW in \in Inputs, in.of = "musharaka", NEW out, out = AllocateMusharakaResult(in),
         out \notin {Refused, Broken, Crashed}, in.result < 0, in.cause \notin BankLiabilityCauses
  PROVE  Quota(in.result, <<in.bankCapital, in.partnerCapital>>, <<out.bank, out.partner>>)
<1>1. /\ in.result \in Int /\ FewDigits(in.result)
      /\ in.bankCapital \in Nat /\ in.partnerCapital \in Nat
      /\ FewDigits(2 * (in.bankCapital + in.partnerCapital))
  BY CalculationsAssumption
<1>2. PICK n, m, d \in Nat : n = in.bankCapital /\ m = in.partnerCapital /\ d = n + m
  <2>1. in.bankCapital + in.partnerCapital \in Nat
    BY <1>1
  <2> QED
    BY <1>1, <2>1
<1>3. PICK loss : loss = SplitUnits(-in.result, Ratio(n, d), Ratio(m, d))
  OBVIOUS
<1>4. d > 0 /\ out = Divided(in, loss, -1)
  <2>1. ~(in.result >= 0)
    BY <1>1
  <2> QED
    BY <1>2, <1>3, <2>1 DEF AllocateMusharakaResult
<1>5. PICK total \in Nat : total = -in.result /\ FewDigits(total)
  <2>1. -in.result \in Nat
    BY <1>1
  <2>2. Magnitude(-in.result) = Magnitude(in.result)
    BY <1>1 DEF Magnitude
  <2> QED
    BY <1>1, <2>1, <2>2 DEF FewDigits
<1>6. loss = SplitUnits(total, Quotient(n, n + m), Quotient(m, n + m))
  BY <1>2, <1>3, <1>4, <1>5 DEF Ratio
<1>7. n + m > 0 /\ FewDigits(2 * (n + m)) /\ FewDigits(total)
  BY <1>1, <1>2, <1>4, <1>5
<1>8. PICK a, b \in Int : loss = <<a, b>>
  <2>1. \E p, q \in Int : /\ SplitUnits(total, Quotient(n, n + m), Quotient(m, n + m)) = <<p, q>>
                          /\ p + q = total
    BY <1>7, LossIsSplit
  <2> QED
    BY <1>6, <2>1
<1>9. /\ a \in Nat /\ b \in Nat /\ a + b = total
      /\ a * d - total * n < d /\ total * n - a * d < d
      /\ b * d - total * m < d /\ total * m - b * d < d
      /\ n = 0 => a = 0
      /\ m = 0 => b = 0
      /\ n > m => a >= b
      /\ m > n => b >= a
  <2>1. SplitUnits(total, Quotient(n, n + m), Quotient(m, n + m)) = <<a, b>>
    BY <1>6, <1>8
  <2>2. /\ a \in Nat /\ b \in Nat /\ a + b = total
        /\ a * (n + m) - total * n < n + m /\ total * n - a * (n + m) < n + m
        /\ b * (n + m) - total * m < n + m /\ total * m - b * (n + m) < n + m
        /\ n = 0 => a = 0
        /\ m = 0 => b = 0
        /\ n > m => a >= b
        /\ m > n => b >= a
    BY <1>7, <2>1, LossIsShared
  <2> QED
    BY <1>2, <2>2
<1>10. out.bank = -a /\ out.partner = -b
  <2>1. loss[1] = a /\ loss[2] = b
    BY <1>8
  <2>2. Divided(in, loss, -1) = [bank |-> (-1) * a, partner |-> (-1) * b]
    BY <1>4, <2>1 DEF Divided
  <2>3. (-1) * a = -a /\ (-1) * b = -b
    OBVIOUS
  <2> QED
    BY <1>4, <2>2, <2>3
<1>11. PICK weight, share : weight = <<n, m>> /\ share = <<-a, -b>>
  OBVIOUS
<1>12. SumFunction(weight) = d
  BY <1>2, <1>11, SumOfPair
<1>13. DOMAIN weight = {1, 2} /\ weight[1] = n /\ weight[2] = m /\ share[1] = -a /\ share[2] = -b
  BY <1>11
<1>14. ASSUME NEW z \in Nat, NEW w \in Nat, z * d - total * w < d, total * w - z * d < d
       PROVE  Magnitude((-z) * d - in.result * w) < d
  <2>1. PICK f, g \in Int : f = z * d /\ g = total * w
    OBVIOUS
  <2>2. (-z) * d = -f /\ in.result * w = -g
    <3>1. in.result = -total
      BY <1>1, <1>5
    <3>2. (-total) * w = -(total * w) /\ (-z) * d = -(z * d)
      OBVIOUS
    <3> QED
      BY <2>1, <3>1, <3>2
  <2>3. PICK e \in Int : e = g - f /\ e < d /\ -e < d
    <3>1. g - f \in Int /\ g - f < d /\ -(g - f) < d
      BY <1>14, <2>1
    <3> QED
      BY <3>1
  <2>4. (-z) * d - in.result * w = e
    BY <2>1, <2>2, <2>3
  <2>5. Magnitude(e) < d
    BY <2>3 DEF Magnitude
  <2> QED
    BY <2>4, <2>5
<1>15. /\ Magnitude(share[1] * d - in.result * weight[1]) < d
       /\ Magnitude(share[2] * d - in.result * weight[2]) < d
  BY <1>9, <1>13, <1>14
<1>16. (weight[1] = 0 => share[1] = 0) /\ (weight[2] = 0 => share[2] = 0)
  BY <1>9, <1>13
<1>17. Magnitude(share[1]) = a /\ Magnitude(share[2]) = b
  BY <1>9, <1>13 DEF Magnitude
<1>18. /\ weight[1] > weight[2] => Magnitude(share[1]) >= Magnitude(share[2])
       /\ weight[2] > weight[1] => Magnitude(share[2]) >= Magnitude(share[1])
  BY <1>9, <1>13, <1>17
<1>19. Quota(in.result, weight, share)
  <2> SUFFICES ASSUME NEW i \in DOMAIN weight
               PROVE  /\ Magnitude(share[i] * d - in.result * weight[i]) < d
                      /\ weight[i] = 0 => share[i] = 0
                      /\ \A j \in DOMAIN weight :
                           weight[i] > weight[j] => Magnitude(share[i]) >= Magnitude(share[j])
    BY <1>12 DEF Quota
  <2>1. ~(n > n) /\ ~(m > m)
    BY <1>2
  <2>2. CASE i = 1
    BY <1>13, <1>15, <1>16, <1>18, <2>1, <2>2
  <2>3. CASE i = 2
    BY <1>13, <1>15, <1>16, <1>18, <2>1, <2>3
  <2> QED
    BY <1>13, <2>2, <2>3
<1> QED
  BY <1>2, <1>10, <1>11, <1>19

-----------------------------------------------------------------------------
(* A minimum is not above an average (calculateWeightedParticipationBase). *)

(* What is divided is not below any number of times the divisor.           *)
LEMMA QuotientNotBelow ==
  ASSUME NEW n \in Nat, NEW d \in Nat, d > 0, FewDigits(n), NEW m \in Nat, n >= d * m
  PROVE  Quotient(n, d) \in Nat /\ Quotient(n, d) >= m * One
<1>1. PICK t \in Nat : t = TenTo[Digits]
  BY PowersOfPlaces
<1>2. 0 \in 0..Places /\ n * TenTo[0] <= TenTo[Digits] * d - 1
  <2>1. 10 * n <= t - 10
    BY <1>1, FewTens
  <2>2. t * (d - 1) >= 0
    OBVIOUS
  <2>3. t * (d - 1) = t * d - t
    OBVIOUS
  <2>4. PICK z \in Int : z = t * d
    OBVIOUS
  <2>5. n <= z - 1
    BY <2>1, <2>2, <2>3, <2>4
  <2>6. n * TenTo[0] = n
    BY TenToIs
  <2> QED
    BY <1>1, <2>4, <2>5, <2>6, PlacesAre
<1>3. PICK k \in 0..Places : Kept(n, d, k)
  BY <1>2, QuotientIs
<1>4. k \in Nat /\ k <= Places /\ Places \in Nat
  BY PlacesAre
<1>5. PICK p, q \in Nat : p = TenTo[k] /\ q = TenTo[Places - k] /\ One = p * q
  <2>1. TenTo[Places] = TenTo[k] * TenTo[Places - k] /\ Places - k \in Nat
    BY <1>4, PowersShrink
  <2> QED
    BY <1>4, <2>1, TenToType DEF One
<1>6. PICK c, l \in Nat : c = n * p /\ l = m * p
  OBVIOUS
<1>7. c >= d * l
  <2>1. p * (n - d * m) >= 0
    <3>1. PICK e \in Nat : e = d * m
      OBVIOUS
    <3>2. n - e \in Nat
      BY <3>1
    <3>3. PICK f \in Nat : f = n - e
      BY <3>2
    <3>4. p * f >= 0
      OBVIOUS
    <3> QED
      BY <3>1, <3>3, <3>4
  <2>2. p * (n - d * m) = n * p - d * (m * p)
    OBVIOUS
  <2>3. PICK z \in Int : z = d * l
    OBVIOUS
  <2> QED
    BY <1>6, <2>1, <2>2, <2>3
<1>8. PICK h \in Nat : h = HalfEven(c, d) /\ 2 * (c - d * h) <= d
  BY HalfEvenIs
<1>9. h >= l
  <2>1. SUFFICES ASSUME l - h - 1 >= 0 PROVE FALSE
    OBVIOUS
  <2>2. d * (l - h - 1) >= 0
    BY <2>1
  <2>3. d * (l - h - 1) = d * l - d * h - d
    OBVIOUS
  <2>4. PICK v, w \in Int : v = d * l /\ w = d * h
    OBVIOUS
  <2> QED
    BY <1>7, <1>8, <2>2, <2>3, <2>4
<1>10. Quotient(n, d) = h * q
  BY <1>3, <1>5, <1>6, <1>8 DEF Kept
<1>11. h * q >= m * One
  <2>1. PICK f \in Nat : f = h - l
    BY <1>9
  <2>2. q * f >= 0
    OBVIOUS
  <2>3. h = l + f
    BY <2>1
  <2>4. (l + f) * q = l * q + q * f
    OBVIOUS
  <2>5. l * q = m * One
    <3>1. (m * p) * q = m * (p * q)
      OBVIOUS
    <3> QED
      BY <1>5, <1>6, <3>1
  <2>6. PICK z \in Int : z = l * q
    OBVIOUS
  <2> QED
    BY <2>2, <2>3, <2>4, <2>5, <2>6
<1> QED
  BY <1>10, <1>11

(* The smallest of finitely many days.                                     *)
LEMMA SmallestDay ==
  ASSUME NEW n \in Nat, n > 0, NEW f, DOMAIN f = 1..n, \A i \in 1..n : f[i] \in Nat
  PROVE  /\ SmallestOf(Range(f)) \in Nat
         /\ \A i \in 1..n : SmallestOf(Range(f)) <= f[i]
<1>1. PICK S : S = Range(f)
  OBVIOUS
<1>2. S = {f[i] : i \in 1..n}
  BY <1>1 DEF Range
<1>3. 1 \in 1..n
  OBVIOUS
<1>4. S \subseteq Nat /\ S # {}
  BY <1>2, <1>3
<1>5. \E a \in S : \A b \in S : a <= b
  BY <1>4, LeastNumber
<1>6. SmallestOf(S) \in S /\ \A b \in S : SmallestOf(S) <= b
  BY <1>5 DEF SmallestOf
<1> QED
  BY <1>1, <1>2, <1>4, <1>6

(* The minimum of the days is not above their average.                     *)
LEMMA BaseIsOrdered ==
  ASSUME NEW in \in Inputs, in.of = "base", CalculateWeightedParticipationBase(in) # Refused
  PROVE  WeightedBasis(in, "MINIMUM_DAILY_BALANCE") <= WeightedBasis(in, "AVERAGE_DAILY_BALANCE")
<1>1. /\ in.days \in Nat \ {0} /\ in.weight \in Nat
      /\ in.observed \in Seq([date: Int, balance: Nat, units: Nat, value: Nat])
      /\ FewDigits(SumFunction([i \in DOMAIN in.observed |-> in.observed[i].balance]))
  BY CalculationsAssumption
<1>2. PICK n, weight \in Nat : n = in.days /\ n > 0 /\ weight = in.weight
  BY <1>1
<1>3. DOMAIN in.observed = 1..n
  BY <1>1, <1>2 DEF CalculateWeightedParticipationBase
<1>4. PICK day : day = [i \in DOMAIN in.observed |-> in.observed[i].balance]
  OBVIOUS
<1>5. DOMAIN day = 1..n /\ \A i \in 1..n : day[i] \in Nat
  <2>1. DOMAIN day = 1..n
    BY <1>3, <1>4
  <2>2. ASSUME NEW i \in 1..n PROVE day[i] \in Nat
    <3>1. in.observed[i] \in [date: Int, balance: Nat, units: Nat, value: Nat]
      <4>1. PICK days : days = [date: Int, balance: Nat, units: Nat, value: Nat]
        OBVIOUS
      <4>2. in.observed \in Seq(days) /\ i \in DOMAIN in.observed
        BY <1>1, <1>3, <4>1
      <4>3. in.observed[i] \in days
        BY <4>2
      <4> QED
        BY <4>1, <4>3
    <3>2. in.observed[i].balance \in Nat
      BY <3>1
    <3> QED
      BY <1>3, <1>4, <3>2
  <2> QED
    BY <2>1, <2>2
<1>6. /\ [i \in DOMAIN in.observed |-> BasisOf(in, "MINIMUM_DAILY_BALANCE", i)] = day
      /\ [i \in DOMAIN in.observed |-> BasisOf(in, "AVERAGE_DAILY_BALANCE", i)] = day
  BY <1>4 DEF BasisOf
<1>7. PICK sum : sum = SumFunction(day)
  OBVIOUS
<1>8. IsFiniteSet(1..n) /\ Cardinality(1..n) = n
  BY FS_Interval
<1>9. sum = SumFunctionOnSet(day, 1..n) /\ sum \in Nat
  <2>1. sum = SumFunctionOnSet(day, 1..n)
    BY <1>5, <1>7 DEF SumFunction
  <2> QED
    BY <1>5, <1>8, <2>1, SumNotNegative
<1>10. PICK m \in Nat : m = SmallestOf(Range(day)) /\ \A i \in 1..n : m <= day[i]
  BY <1>2, <1>5, SmallestDay
<1>11. sum >= n * m
  <2>1. PICK one : one = [i \in 1..n |-> 1]
    OBVIOUS
  <2>2. PICK all : all = [i \in 1..n |-> m]
    OBVIOUS
  <2>3. SumFunctionOnSet(one, 1..n) = n
    <3>1. \A i \in 1..n : one[i] = IF i \in 1..n THEN 1 ELSE 0
      BY <2>1
    <3>2. SumFunctionOnSet(one, 1..n) = Cardinality((1..n) \cap (1..n))
      BY <1>8, <3>1, SumCounts
    <3> QED
      BY <1>8, <3>2
  <2>4. SumFunctionOnSet(all, 1..n) = m * n
    <3>1. \A i \in 1..n : one[i] \in Int /\ all[i] = m * one[i]
      BY <2>1, <2>2
    <3>2. SumFunctionOnSet(all, 1..n) = m * SumFunctionOnSet(one, 1..n)
      BY <1>8, <3>1, SumTimes
    <3> QED
      BY <2>3, <3>2
  <2>5. \A i \in 1..n : all[i] \in Int /\ day[i] \in Int /\ all[i] <= day[i]
    BY <1>5, <1>10, <2>2
  <2>6. SumFunctionOnSet(all, 1..n) <= SumFunctionOnSet(day, 1..n)
    BY <1>8, <2>5, SumAtMost
  <2> QED
    BY <1>9, <2>4, <2>6
<1>12. PICK r \in Nat : r = Quotient(sum, n) /\ r >= m * One
  <2>1. FewDigits(sum)
    BY <1>1, <1>4, <1>7
  <2>2. sum \in Nat /\ sum >= n * m
    BY <1>9, <1>11
  <2> QED
    BY <1>2, <2>1, <2>2, QuotientNotBelow
<1>13. PICK one \in Nat : one = One
  BY PowersOfPlaces
<1>14. WeightedBasis(in, "MINIMUM_DAILY_BALANCE") = weight * (n * m * one)
  BY <1>2, <1>6, <1>10, <1>13 DEF WeightedBasis
<1>15. WeightedBasis(in, "AVERAGE_DAILY_BALANCE") = weight * (n * r)
  BY <1>2, <1>6, <1>7, <1>12 DEF WeightedBasis, Ratio
<1>16. weight * (n * m * one) <= weight * (n * r)
  <2>1. PICK f \in Nat : f = r - m * one
    <3>1. PICK z \in Nat : z = m * one
      OBVIOUS
    <3>2. r - z \in Nat
      BY <1>12, <1>13, <3>1
    <3> QED
      BY <3>1, <3>2
  <2>2. r = m * one + f
    BY <2>1
  <2>3. weight * (n * (m * one + f)) = weight * (n * m * one) + (weight * n) * f
    OBVIOUS
  <2>4. (weight * n) * f >= 0
    OBVIOUS
  <2>5. PICK z, w \in Int : z = weight * (n * m * one) /\ w = (weight * n) * f
    OBVIOUS
  <2> QED
    BY <2>2, <2>3, <2>4, <2>5
<1> QED
  BY <1>14, <1>15, <1>16

-----------------------------------------------------------------------------
(* Amounts are compared to the last digit (Money, reconcileAmounts).       *)

(* Dividing by ten once more.                                              *)
LEMMA OneDigitMore ==
  ASSUME NEW m \in Nat, NEW a \in Nat, a > 0
  PROVE  /\ m \div a \in Nat /\ (m \div a) % 10 \in 0..9 /\ m \div (10 * a) \in Nat
         /\ (m \div a) * a = (m \div (10 * a)) * (10 * a) + ((m \div a) % 10) * a
<1>1. m \div a \in Int /\ m % a \in 0..(a - 1) /\ m = a * (m \div a) + (m % a) /\ m \div a >= 0
  BY Division
<1>2. PICK q, r \in Nat : q = m \div a /\ m = a * q + r /\ r < a
  BY <1>1
<1>3. q \div 10 \in Int /\ q % 10 \in 0..(10 - 1) /\ q = 10 * (q \div 10) + (q % 10) /\ q \div 10 >= 0
  BY Division
<1>4. PICK p, s \in Nat : p = q \div 10 /\ s = q % 10 /\ q = 10 * p + s /\ s < 10
  BY <1>3
<1>5. PICK e, x \in Nat : e = 10 * a /\ x = a * s + r
  OBVIOUS
<1>6. m = e * p + x
  <2>1. a * (10 * p + s) + r = (10 * a) * p + (a * s + r)
    OBVIOUS
  <2> QED
    BY <1>2, <1>4, <1>5, <2>1
<1>7. x < e
  <2>1. a * (9 - s) >= 0
    <3>1. PICK z \in Nat : z = 9 - s
      BY <1>4
    <3>2. a * z >= 0
      OBVIOUS
    <3> QED
      BY <3>1, <3>2
  <2>2. a * (9 - s) = 9 * a - a * s
    OBVIOUS
  <2>3. PICK z \in Int : z = a * s
    OBVIOUS
  <2> QED
    BY <1>2, <1>5, <2>1, <2>2, <2>3
<1>8. m \div e = p
  <2>1. 0 <= x /\ e > 0
    BY <1>5
  <2> QED
    BY <1>6, <1>7, <2>1, DivisionIs
<1>9. q * a = p * (10 * a) + s * a
  <2>1. (10 * p + s) * a = p * (10 * a) + s * a
    OBVIOUS
  <2> QED
    BY <1>4, <2>1
<1> QED
  BY <1>2, <1>4, <1>5, <1>8, <1>9

(* The digits that a number is written with.                               *)
DigitsOf(m, scale) == [i \in 1..scale |-> (m \div TenTo[scale - i]) % 10]

(* They are that number again, and digits.                                 *)
LEMMA DigitsAddUp ==
  ASSUME NEW m \in Nat, NEW scale \in Nat
  PROVE  /\ DigitsOf(m, scale) \in Seq(0..9) /\ Len(DigitsOf(m, scale)) = scale
         /\ m \div TenTo[scale] \in Nat
         /\ (m \div TenTo[scale]) * TenTo[scale] + FractionUnits(DigitsOf(m, scale), scale) = m
<1>1. PICK top, one \in Nat : /\ top = TenTo[scale] /\ top > 0
                              /\ one = m \div top
  <2>1. PICK top \in Nat : top = TenTo[scale] /\ top > 0
    BY TenToType
  <2>2. m \div top \in Int /\ m \div top >= 0
    BY <2>1, Division
  <2> QED
    BY <2>1, <2>2
<1>2. PICK f : f = [i \in 1..scale |-> ((m \div TenTo[scale - i]) % 10) * TenTo[scale - i]]
  OBVIOUS
<1>3. ASSUME NEW i \in 1..scale
      PROVE  \E a \in Nat : /\ a = TenTo[scale - i] /\ a > 0 /\ TenTo[scale - (i - 1)] = 10 * a
                            /\ m \div a \in Nat /\ (m \div a) % 10 \in 0..9
                            /\ f[i] = ((m \div a) % 10) * a
                            /\ (m \div a) * a = (m \div (10 * a)) * (10 * a) + f[i]
  <2>1. PICK j \in Nat : j = scale - i /\ scale - (i - 1) = j + 1
    <3>1. scale - i \in Nat /\ scale - (i - 1) = (scale - i) + 1
      OBVIOUS
    <3> QED
      BY <3>1
  <2>2. PICK a \in Nat : a = TenTo[j] /\ a > 0
    BY TenToType
  <2>3. TenTo[j + 1] = 10 * a
    BY <2>2, TenToIs
  <2>4. f[i] = ((m \div a) % 10) * a
    BY <1>2, <2>1, <2>2
  <2> QED
    BY <2>1, <2>2, <2>3, <2>4, OneDigitMore
<1>4. \A i \in 1..scale : f[i] \in Int
  <2> SUFFICES ASSUME NEW i \in 1..scale PROVE f[i] \in Int
    OBVIOUS
  <2>1. PICK a \in Nat : (m \div a) % 10 \in 0..9 /\ f[i] = ((m \div a) % 10) * a
    BY <1>3
  <2> QED
    BY <2>1
<1>5. PICK T : T = {k \in Nat : k <= scale =>
                      SumFunctionOnSet(f, 1..k) = (m \div TenTo[scale - k]) * TenTo[scale - k] - one * top}
  OBVIOUS
<1>6. 0 \in T
  <2>1. SumFunctionOnSet(f, 1..0) = 0
    <3>1. 1..0 = {}
      OBVIOUS
    <3> QED
      BY <3>1, SumOfNone
  <2>2. scale - 0 = scale
    OBVIOUS
  <2>3. (m \div TenTo[scale - 0]) * TenTo[scale - 0] - one * top = 0
    <3>1. one * top \in Int /\ one * top - one * top = 0
      OBVIOUS
    <3> QED
      BY <1>1, <2>2, <3>1
  <2> QED
    BY <1>5, <2>1, <2>3
<1>7. ASSUME NEW k \in Nat, k \in T PROVE k + 1 \in T
  <2>1. SUFFICES ASSUME k + 1 <= scale
                 PROVE SumFunctionOnSet(f, 1..(k + 1)) =
                         (m \div TenTo[scale - (k + 1)]) * TenTo[scale - (k + 1)] - one * top
    BY <1>5
  <2>2. PICK n \in Nat : n = k + 1 /\ n \in 1..n /\ n \in 1..scale /\ n - 1 = k
    BY <2>1
  <2>3. PICK a \in Nat : /\ a = TenTo[scale - n] /\ a > 0 /\ TenTo[scale - (n - 1)] = 10 * a
                         /\ m \div a \in Nat /\ (m \div a) % 10 \in 0..9
                         /\ f[n] = ((m \div a) % 10) * a
                         /\ (m \div a) * a = (m \div (10 * a)) * (10 * a) + f[n]
    BY <1>3, <2>2
  <2>4. SumFunctionOnSet(f, 1..k) = (m \div (10 * a)) * (10 * a) - one * top
    BY <1>5, <1>7, <2>1, <2>2, <2>3
  <2>5. SumFunctionOnSet(f, 1..n) = f[n] + SumFunctionOnSet(f, (1..n) \ {n})
    <3>1. \A i \in 1..n : f[i] \in Int
      BY <1>4, <2>2
    <3> QED
      BY <2>2, <3>1, SumToLast
  <2>6. (1..n) \ {n} = 1..k
    BY <2>2
  <2>7. PICK x, y, z, w \in Int : /\ x = (m \div (10 * a)) * (10 * a) /\ y = one * top /\ z = f[n]
                                  /\ w = (m \div a) * a
    <3>1. f[n] \in Int
      BY <1>4, <2>2
    <3>2. m \div a \in Nat
      BY <2>3
    <3>3. f[n] \in Int /\ (m \div a) * a \in Int /\ one * top \in Int
      BY <3>1, <3>2
    <3>4. m \div (10 * a) \in Nat
      BY <2>3, OneDigitMore
    <3>5. (m \div (10 * a)) * (10 * a) \in Int
      BY <3>4
    <3> QED
      BY <3>3, <3>5
  <2>8. SumFunctionOnSet(f, 1..n) = w - y
    <3>1. w = x + z
      BY <2>3, <2>7
    <3>2. SumFunctionOnSet(f, 1..k) = x - y
      BY <2>4, <2>7
    <3>3. SumFunctionOnSet(f, 1..n) = z + (x - y)
      BY <2>5, <2>6, <2>7, <3>2
    <3> QED
      BY <3>1, <3>3
  <2> QED
    BY <2>2, <2>3, <2>7, <2>8
<1>8. scale \in T
  BY <1>6, <1>7, EveryNumber
<1>9. SumFunctionOnSet(f, 1..scale) = m - one * top
  <2>1. scale - scale = 0
    OBVIOUS
  <2>2. m \div 1 = m /\ m * 1 = m
    <3>1. m = 1 * m + 0
      OBVIOUS
    <3> QED
      BY <3>1, DivisionIs
  <2>3. TenTo[scale - scale] = 1
    BY <2>1, TenToIs
  <2> QED
    BY <1>5, <1>8, <2>2, <2>3
<1>10. PICK g : g = DigitsOf(m, scale)
  OBVIOUS
<1>11. DOMAIN g = 1..scale /\ \A i \in 1..scale : g[i] \in 0..9 /\ g[i] * TenTo[scale - i] = f[i]
  <2>1. DOMAIN g = 1..scale /\ \A i \in 1..scale : g[i] = (m \div TenTo[scale - i]) % 10
    BY <1>10 DEF DigitsOf
  <2>2. ASSUME NEW i \in 1..scale PROVE g[i] \in 0..9 /\ g[i] * TenTo[scale - i] = f[i]
    BY <1>3, <2>1
  <2> QED
    BY <2>1, <2>2
<1>12. g \in Seq(0..9) /\ Len(g) = scale
  <2>1. g = [i \in 1..scale |-> g[i]]
    BY <1>10 DEF DigitsOf
  <2>2. PICK D : D = 0..9
    OBVIOUS
  <2>3. \A i \in 1..scale : g[i] \in D
    BY <1>11, <2>2
  <2>4. g \in Seq(D) /\ Len(g) = scale
    BY <2>1, <2>3
  <2> QED
    BY <2>2, <2>4
<1>13. FractionUnits(g, scale) = m - one * top
  <2>1. PICK h : h = [i \in DOMAIN g |-> g[i] * TenTo[scale - i]]
    OBVIOUS
  <2>2. DOMAIN h = 1..scale /\ \A i \in 1..scale : h[i] = f[i]
    BY <1>11, <2>1
  <2>3. FractionUnits(g, scale) = SumFunctionOnSet(h, 1..scale)
    BY <2>1, <2>2 DEF FractionUnits, SumFunction
  <2>4. IsFiniteSet(1..scale)
    BY FS_Interval
  <2>5. SumFunctionOnSet(h, 1..scale) = SumFunctionOnSet(f, 1..scale)
    BY <2>2, <2>4, SumSame
  <2> QED
    BY <1>9, <2>3, <2>5
<1>14. one * top + (m - one * top) = m
  OBVIOUS
<1> QED
  BY <1>1, <1>10, <1>12, <1>13, <1>14

(* A decimal string, and what it is worth without its sign.                *)
DecimalStrings == [negative: BOOLEAN, whole: Nat, fraction: Seq(0..9)]

Worth(amount, places) == amount.whole * TenTo[places] + FractionUnits(amount.fraction, places)

(* The digits of a fraction, in finer units.                               *)
LEMMA FinerUnits ==
  ASSUME NEW fraction \in Seq(0..9), NEW scale \in Nat, Len(fraction) <= scale,
         NEW places \in Nat, scale <= places
  PROVE  /\ FractionUnits(fraction, scale) \in Nat
         /\ FractionUnits(fraction, places)
              = TenTo[places - scale] * FractionUnits(fraction, scale)
<1>1. PICK S : S = 1..Len(fraction)
  OBVIOUS
<1>2. DOMAIN fraction = S /\ IsFiniteSet(S) /\ \A i \in S : fraction[i] \in 0..9 /\ scale - i \in Nat
  <2>1. Len(fraction) \in Nat /\ DOMAIN fraction = S
    BY <1>1
  <2>2. \A i \in S : fraction[i] \in 0..9 /\ scale - i \in Nat
    BY <1>1, <2>1
  <2> QED
    BY <1>1, <2>1, <2>2, FS_Interval
<1>3. PICK f : f = [i \in S |-> fraction[i] * TenTo[scale - i]]
  OBVIOUS
<1>4. PICK g : g = [i \in S |-> fraction[i] * TenTo[places - i]]
  OBVIOUS
<1>5. PICK e \in Nat : e = TenTo[places - scale]
  <2>1. places - scale \in Nat
    OBVIOUS
  <2> QED
    BY <2>1, TenToType
<1>6. ASSUME NEW i \in S PROVE f[i] \in Nat /\ g[i] = e * f[i]
  <2>1. PICK j, k \in Nat : j = places - scale /\ k = scale - i /\ places - i = j + k
    <3>1. places - scale \in Nat /\ scale - i \in Nat /\ i \in Int
      BY <1>1, <1>2
    <3>2. places - i = (places - scale) + (scale - i)
      BY <3>1
    <3> QED
      BY <3>1, <3>2
  <2>2. TenTo[places - i] = TenTo[j] * TenTo[k] /\ TenTo[k] \in Nat
    <3>1. TenTo[j + k] = TenTo[j] * TenTo[k] /\ TenTo[k] \in Nat
      BY TenToSum, TenToType
    <3> QED
      BY <2>1, <3>1
  <2>3. fraction[i] \in Nat
    BY <1>2
  <2>4. PICK a, b \in Nat : a = TenTo[k] /\ b = fraction[i]
    BY <2>2, <2>3
  <2>5. f[i] = b * a /\ g[i] = b * (e * a)
    BY <1>3, <1>4, <1>5, <2>1, <2>2, <2>4
  <2>6. b * (e * a) = e * (b * a)
    OBVIOUS
  <2> QED
    BY <2>5, <2>6
<1>7. FractionUnits(fraction, scale) = SumFunctionOnSet(f, S)
  BY <1>2, <1>3 DEF FractionUnits, SumFunction
<1>8. FractionUnits(fraction, places) = SumFunctionOnSet(g, S)
  BY <1>2, <1>4 DEF FractionUnits, SumFunction
<1>9. \A i \in S : f[i] \in Int /\ g[i] = e * f[i]
  BY <1>6
<1>10. SumFunctionOnSet(g, S) = e * SumFunctionOnSet(f, S)
  BY <1>2, <1>9, SumTimes
<1>11. SumFunctionOnSet(f, S) \in Nat
  BY <1>2, <1>6, SumNotNegative
<1> QED
  BY <1>5, <1>7, <1>8, <1>10, <1>11

(* An amount in finer units.                                               *)
LEMMA FinerWorth ==
  ASSUME NEW amount, amount.whole \in Nat, amount.fraction \in Seq(0..9),
         NEW scale \in Nat, Len(amount.fraction) <= scale, NEW places \in Nat, scale <= places
  PROVE  /\ Worth(amount, scale) \in Nat
         /\ Worth(amount, places) = TenTo[places - scale] * Worth(amount, scale)
<1>1. PICK u \in Nat : /\ u = FractionUnits(amount.fraction, scale)
                       /\ FractionUnits(amount.fraction, places) = TenTo[places - scale] * u
  BY FinerUnits
<1>2. PICK w, e, t \in Nat : /\ w = amount.whole /\ e = TenTo[places - scale] /\ t = TenTo[scale]
                             /\ TenTo[places] = t * e
  <2>1. places - scale \in Nat /\ TenTo[places] = TenTo[scale] * TenTo[places - scale]
    BY PowersShrink
  <2> QED
    BY <2>1, TenToType
<1>3. w * (t * e) + e * u = e * (w * t + u)
  OBVIOUS
<1>4. Worth(amount, scale) = w * t + u /\ Worth(amount, places) = w * (t * e) + e * u
  BY <1>1, <1>2 DEF Worth
<1>5. w * t + u \in Nat
  OBVIOUS
<1> QED
  BY <1>2, <1>3, <1>4, <1>5

(* Zeros beyond the scale are worth nothing.                               *)
LEMMA ZerosDrop ==
  ASSUME NEW amount \in DecimalStrings, NEW scale \in Nat, NEW places \in Nat,
         Len(amount.fraction) <= places, scale <= places,
         NEW short, short = NormalizeExactScale(amount, scale)
  PROVE  /\ short.negative = amount.negative /\ short.negative \in BOOLEAN
         /\ short.whole \in Nat /\ short.fraction \in Seq(0..9)
         /\ Worth(short, places) = Worth(amount, places)
<1>1. /\ amount.negative \in BOOLEAN /\ amount.whole \in Nat /\ amount.fraction \in Seq(0..9)
      /\ "fraction" \in DOMAIN amount
      /\ amount = [amount EXCEPT !.fraction = amount.fraction]
  BY DEF DecimalStrings
<1>2. PICK fraction \in Seq(0..9) : fraction = amount.fraction
  BY <1>1
<1>3. CASE ~(Len(fraction) > scale /\ \A i \in scale + 1..Len(fraction) : fraction[i] = 0)
  <2>1. short = amount
    BY <1>2, <1>3 DEF NormalizeExactScale
  <2> QED
    BY <1>1, <2>1
<1>4. CASE Len(fraction) > scale /\ \A i \in scale + 1..Len(fraction) : fraction[i] = 0
  <2>1. PICK part : part = SubSeq(fraction, 1, scale)
    OBVIOUS
  <2>2. short = [amount EXCEPT !.fraction = part]
    BY <1>2, <1>4, <2>1 DEF NormalizeExactScale
  <2>3. short.negative = amount.negative /\ short.whole = amount.whole /\ short.fraction = part
    BY <1>1, <2>2 DEF DecimalStrings
  <2>4. /\ part \in Seq(0..9) /\ DOMAIN part = 1..scale
        /\ \A i \in 1..scale : part[i] = fraction[i]
    <3>1. PICK D : D = 0..9
      OBVIOUS
    <3>2. fraction \in Seq(D) /\ Len(fraction) \in Nat
      BY <3>1
    <3>3. part \in Seq(D) /\ Len(part) = scale /\ \A i \in 1..scale : part[i] = fraction[i]
      BY <1>4, <2>1, <3>2
    <3> QED
      BY <3>1, <3>3
  <2>5. PICK l \in Nat : l = Len(fraction) /\ l > scale /\ DOMAIN fraction = 1..l /\ l <= places
    BY <1>2, <1>4
  <2>6. PICK A, B : A = 1..scale /\ B = scale + 1..l
    OBVIOUS
  <2>7. A \cup B = 1..l /\ A \cap B = {} /\ IsFiniteSet(A) /\ IsFiniteSet(B)
    <3>1. A \cup B = 1..l /\ A \cap B = {}
      BY <2>5, <2>6
    <3>2. scale + 1 \in Int /\ l \in Int
      OBVIOUS
    <3>3. IsFiniteSet(1..scale) /\ IsFiniteSet(scale + 1..l)
      BY <3>2, FS_Interval
    <3> QED
      BY <2>6, <3>1, <3>3
  <2>8. PICK f : f = [i \in 1..l |-> fraction[i] * TenTo[places - i]]
    OBVIOUS
  <2>9. ASSUME NEW i \in A \cup B PROVE f[i] \in Int /\ (i \in B => f[i] = 0)
    <3>1. i \in 1..l /\ places - i \in Nat
      BY <2>5, <2>7
    <3>2. TenTo[places - i] \in Nat
      BY <3>1, TenToType
    <3>3. fraction[i] \in Nat
      BY <2>5, <3>1
    <3>4. PICK t, b \in Nat : t = TenTo[places - i] /\ b = fraction[i]
      BY <3>2, <3>3
    <3>5. f[i] = b * t
      BY <2>8, <3>1, <3>4
    <3>6. i \in B => b = 0
      BY <1>4, <2>5, <2>6, <3>4
    <3> QED
      BY <3>5, <3>6
  <2>10. SumFunctionOnSet(f, 1..l) = SumFunctionOnSet(f, A) + SumFunctionOnSet(f, B)
    BY <2>7, <2>9, SumOfBoth
  <2>11. SumFunctionOnSet(f, B) = 0
    BY <2>7, <2>9, SumOfNothing
  <2>12. SumFunctionOnSet(f, A) \in Int
    BY <2>7, <2>9, SumType
  <2>13. FractionUnits(fraction, places) = SumFunctionOnSet(f, 1..l)
    BY <2>5, <2>8 DEF FractionUnits, SumFunction
  <2>14. FractionUnits(part, places) = SumFunctionOnSet(f, A)
    <3>1. PICK g : g = [i \in 1..scale |-> part[i] * TenTo[places - i]]
      OBVIOUS
    <3>2. FractionUnits(part, places) = SumFunctionOnSet(g, A)
      BY <2>4, <2>6, <3>1 DEF FractionUnits, SumFunction
    <3>3. \A i \in A : f[i] = g[i]
      BY <2>4, <2>5, <2>6, <2>8, <3>1
    <3>4. SumFunctionOnSet(f, A) = SumFunctionOnSet(g, A)
      BY <2>7, <3>3, SumSame
    <3> QED
      BY <3>2, <3>4
  <2>15. FractionUnits(part, places) = FractionUnits(fraction, places)
    BY <2>10, <2>11, <2>12, <2>13, <2>14
  <2>16. Worth(short, places) = Worth(amount, places)
    BY <1>2, <2>3, <2>15 DEF Worth
  <2> QED
    BY <1>1, <2>3, <2>4, <2>16
<1> QED
  BY <1>3, <1>4

(* Both amounts are read to the same unit, and to the last digit.          *)
LEMMA ReadExactly ==
  ASSUME NEW amount \in DecimalStrings, NEW scale \in Nat, NEW places \in Nat,
         Len(amount.fraction) <= places, scale <= places,
         NEW read, read = ParseMoney(NormalizeExactScale(amount, scale), scale), read # Refused
  PROVE  read.units \in Int /\ Exact(amount, places) = TenTo[places - scale] * read.units
<1>1. PICK short : short = NormalizeExactScale(amount, scale)
  OBVIOUS
<1>2. /\ short.negative = amount.negative /\ short.negative \in BOOLEAN
      /\ short.whole \in Nat /\ short.fraction \in Seq(0..9)
      /\ Worth(short, places) = Worth(amount, places)
  BY <1>1, ZerosDrop
<1>3. ~(Len(short.fraction) > scale)
  BY <1>1 DEF ParseMoney
<1>4. Len(short.fraction) <= scale
  <2>1. Len(short.fraction) \in Nat
    BY <1>2
  <2> QED
    BY <1>3, <2>1
<1>5. PICK w, e \in Nat : /\ w = Worth(short, scale) /\ e = TenTo[places - scale]
                          /\ Worth(short, places) = e * w
  <2>1. Worth(short, scale) \in Nat /\ Worth(short, places) = TenTo[places - scale] * Worth(short, scale)
    BY <1>2, <1>4, FinerWorth
  <2>2. places - scale \in Nat
    OBVIOUS
  <2> QED
    BY <2>1, <2>2, TenToType
<1>6. read = [units |-> IF short.negative THEN -w ELSE w]
  BY <1>1, <1>3, <1>5 DEF ParseMoney, Worth
<1>7. read.units = IF short.negative THEN -w ELSE w
  BY <1>6
<1>8. Exact(amount, places) = (IF amount.negative THEN -1 ELSE 1) * (e * w)
  BY <1>2, <1>5 DEF Exact, Worth
<1>9. CASE amount.negative
  <2>1. (-1) * (e * w) = e * (-w)
    OBVIOUS
  <2> QED
    BY <1>2, <1>5, <1>7, <1>8, <1>9, <2>1
<1>10. CASE ~amount.negative
  <2>1. 1 * (e * w) = e * w
    OBVIOUS
  <2> QED
    BY <1>2, <1>5, <1>7, <1>8, <1>10, <2>1
<1> QED
  BY <1>9, <1>10

(* And their difference is written to the last digit.                      *)
LEMMA WrittenExactly ==
  ASSUME NEW units \in Int, NEW scale \in Nat, NEW places \in Nat, scale <= places
  PROVE  Exact(ToDecimalString(units, scale), places) = TenTo[places - scale] * units
<1>1. PICK m \in Nat : m = Magnitude(units) /\ (units < 0 => units = -m) /\ (~(units < 0) => units = m)
  <2>1. Magnitude(units) \in Nat
    BY DEF Magnitude
  <2>2. units < 0 => units = -Magnitude(units)
    BY DEF Magnitude
  <2>3. ~(units < 0) => units = Magnitude(units)
    BY DEF Magnitude
  <2> QED
    BY <2>1, <2>2, <2>3
<1>2. PICK amount : amount = ToDecimalString(units, scale)
  OBVIOUS
<1>3. /\ amount.negative = (units < 0) /\ amount.whole = m \div TenTo[scale]
      /\ amount.fraction = DigitsOf(m, scale)
  BY <1>1, <1>2 DEF ToDecimalString, DigitsOf
<1>4. /\ amount.fraction \in Seq(0..9) /\ Len(amount.fraction) = scale
      /\ amount.whole \in Nat
      /\ amount.whole * TenTo[scale] + FractionUnits(amount.fraction, scale) = m
  BY <1>3, DigitsAddUp
<1>5. Worth(amount, scale) = m
  BY <1>4 DEF Worth
<1>6. Len(amount.fraction) <= scale
  BY <1>4
<1>7. PICK e \in Nat : e = TenTo[places - scale] /\ Worth(amount, places) = e * m
  <2>1. Worth(amount, places) = TenTo[places - scale] * Worth(amount, scale)
    BY <1>4, <1>6, FinerWorth
  <2>2. places - scale \in Nat
    OBVIOUS
  <2> QED
    BY <1>5, <2>1, <2>2, TenToType
<1>8. Exact(amount, places) = (IF units < 0 THEN -1 ELSE 1) * (e * m)
  BY <1>3, <1>7 DEF Exact, Worth
<1>9. (-1) * (e * m) = e * (-m) /\ 1 * (e * m) = e * m
  OBVIOUS
<1> QED
  BY <1>1, <1>2, <1>7, <1>8, <1>9

(* Two amounts match when they are equal, and their difference is exact.   *)
LEMMA ReconcilesExactly ==
  ASSUME NEW in \in Inputs, in.of = "reconcile", NEW out, out = ReconcileAmounts(in), out # Refused,
         NEW places, places = in.scale + Len(in.subledger.fraction) + Len(in.ledger.fraction)
  PROVE  /\ out.state = "MATCHED" <=> Exact(in.subledger, places) = Exact(in.ledger, places)
         /\ Exact(out.difference, places)
              = Exact(in.subledger, places) - Exact(in.ledger, places)
<1>1. PICK scale \in Nat : scale = in.scale
  BY CalculationsAssumption
<1>2. PICK first, second \in DecimalStrings : first = in.subledger /\ second = in.ledger
  BY CalculationsAssumption DEF DecimalStrings
<1>3. PICK k, l \in Nat : k = Len(first.fraction) /\ l = Len(second.fraction)
  <2>1. first.fraction \in Seq(0..9) /\ second.fraction \in Seq(0..9)
    BY DEF DecimalStrings
  <2> QED
    BY <2>1
<1>4. places \in Nat /\ scale <= places /\ k <= places /\ l <= places
  <2>1. places = scale + k + l
    BY <1>1, <1>2, <1>3
  <2> QED
    BY <2>1
<1>5. PICK sub : sub = ParseMoney(NormalizeExactScale(first, scale), scale)
  OBVIOUS
<1>6. PICK gl : gl = ParseMoney(NormalizeExactScale(second, scale), scale)
  OBVIOUS
<1>7. /\ sub # Refused /\ gl # Refused
      /\ out = [difference |-> ToDecimalString(sub.units - gl.units, scale),
                state |-> IF sub.units = gl.units THEN "MATCHED" ELSE "VARIANCE"]
  BY <1>1, <1>2, <1>5, <1>6 DEF ReconcileAmounts
<1>8. PICK e \in Nat : e = TenTo[places - scale] /\ e > 0
  <2>1. places - scale \in Nat
    BY <1>4
  <2> QED
    BY <2>1, TenToType
<1>9. PICK x \in Int : x = sub.units /\ Exact(first, places) = e * x
  BY <1>3, <1>4, <1>5, <1>7, <1>8, ReadExactly
<1>10. PICK y \in Int : y = gl.units /\ Exact(second, places) = e * y
  BY <1>3, <1>4, <1>6, <1>7, <1>8, ReadExactly
<1>11. out.difference = ToDecimalString(x - y, scale) /\ (out.state = "MATCHED" <=> x = y)
  BY <1>7, <1>9, <1>10
<1>12. Exact(out.difference, places) = e * (x - y)
  <2>1. x - y \in Int
    OBVIOUS
  <2>2. Exact(ToDecimalString(x - y, scale), places) = TenTo[places - scale] * (x - y)
    BY <1>4, <2>1, WrittenExactly
  <2> QED
    BY <1>8, <1>11, <2>2
<1>13. e * (x - y) = e * x - e * y
  OBVIOUS
<1>14. x = y <=> e * x = e * y
  <2>1. ASSUME e * x = e * y PROVE x = y
    <3>1. e * (x - y) = 0
      BY <1>13, <2>1
    <3>2. PICK z \in Int : z = x - y
      OBVIOUS
    <3>3. e * z = 0 => z = 0
      BY <1>8
    <3> QED
      BY <3>1, <3>2, <3>3
  <2> QED
    BY <2>1
<1> QED
  BY <1>2, <1>9, <1>10, <1>11, <1>12, <1>13, <1>14

-----------------------------------------------------------------------------
(* A spread is reported when two rates are further apart than tolerated    *)
(* (analyzeIntergenerationalEquity).                                       *)

(* The highest of finitely many numbers.                                   *)
LEMMA HighestIs ==
  ASSUME NEW D, IsFiniteSet(D), D # {}, NEW v, \A i \in D : v[i] \in Int
  PROVE  \E i \in D : \A j \in D : v[i] >= v[j]
<1>1. PICK T : T = {s \in SUBSET D : s # {} => \E i \in s : \A j \in s : v[i] >= v[j]}
  OBVIOUS
<1>2. ASSUME NEW s \in SUBSET D, \A x \in s : s \ {x} \in T
      PROVE  s \in T
  <2>1. SUFFICES ASSUME s # {} PROVE \E i \in s : \A j \in s : v[i] >= v[j]
    BY <1>1
  <2>2. PICK x \in s : TRUE
    BY <2>1
  <2>3. v[x] \in Int /\ \A j \in s : v[j] \in Int
    OBVIOUS
  <2>4. CASE s \ {x} = {}
    <3>1. \A j \in s : j = x
      BY <2>4
    <3>2. \A j \in s : v[x] >= v[j]
      BY <2>3, <3>1
    <3> QED
      BY <3>2
  <2>5. CASE s \ {x} # {}
    <3>1. s \ {x} \in T
      BY <1>2
    <3>2. PICK a \in s \ {x} : \A j \in s \ {x} : v[a] >= v[j]
      BY <1>1, <2>5, <3>1
    <3>3. CASE v[a] >= v[x]
      <4>1. \A j \in s : v[a] >= v[j]
        BY <3>2, <3>3
      <4> QED
        BY <4>1
    <3>4. CASE v[a] < v[x]
      <4>1. ASSUME NEW j \in s PROVE v[x] >= v[j]
        <5>1. v[j] \in Int /\ v[a] \in Int
          BY <2>3
        <5>2. CASE j = x
          BY <2>3, <5>2
        <5>3. CASE j # x
          BY <2>3, <3>2, <3>4, <5>1, <5>3
        <5> QED
          BY <5>2, <5>3
      <4> QED
        BY <4>1
    <3>5. v[a] \in Int
      BY <2>3
    <3> QED
      BY <2>3, <3>3, <3>4, <3>5
  <2> QED
    BY <2>4, <2>5
<1>3. SUBSET D \subseteq T
  BY <1>2, EverySubset
<1>4. D \in T
  BY <1>3
<1> QED
  BY <1>1, <1>4

(* A rate is near the exact one.                                           *)
LEMMA RateNear ==
  ASSUME NEW n \in Int, FewDigits(n), NEW b \in Nat, b > 0, NEW r, r = SignedQuotient(n, b)
  PROVE  /\ r \in Int
         /\ 2 * (r * b - n * One) <= b + 1000 * Magnitude(n)
         /\ 2 * (n * One - r * b) <= b + 1000 * Magnitude(n)
<1>1. PICK m \in Nat : m = Magnitude(n) /\ (n < 0 => n = -m) /\ (~(n < 0) => n = m)
  <2>1. Magnitude(n) \in Nat /\ (n < 0 => n = -Magnitude(n)) /\ (~(n < 0) => n = Magnitude(n))
    BY DEF Magnitude
  <2> QED
    BY <2>1
<1>2. FewDigits(m)
  <2>1. Magnitude(m) = m
    BY DEF Magnitude
  <2> QED
    BY <1>1, <2>1 DEF FewDigits
<1>3. PICK t, one \in Nat : t = TenTo[Digits] /\ one = One
  BY PowersOfPlaces
<1>4. 0 \in 0..Places /\ m * TenTo[0] <= TenTo[Digits] * b - 1
  <2>1. 10 * m <= t - 10
    BY <1>2, <1>3, FewTens
  <2>2. t * (b - 1) >= 0
    OBVIOUS
  <2>3. t * (b - 1) = t * b - t
    OBVIOUS
  <2>4. PICK z \in Int : z = t * b
    OBVIOUS
  <2>5. m <= z - 1
    BY <2>1, <2>2, <2>3, <2>4
  <2>6. m * TenTo[0] = m
    BY TenToIs
  <2> QED
    BY <1>3, <2>4, <2>5, <2>6, PlacesAre
<1>5. PICK q : q = Quotient(m, b)
  OBVIOUS
<1>6. q \in Nat /\ \E g \in Nat : Close(m, b, q, g)
  BY <1>4, <1>5, QuotientTight
<1>7. PICK g \in Nat : Close(m, b, q, g)
  BY <1>6
<1>8. PICK v, w, e \in Nat : v = q * b /\ w = m * one /\ e = b * g
  BY <1>6
<1>9. e <= b + 1000 * m
  <2>1. g = 1 => e = b
    BY <1>8
  <2> QED
    BY <1>7, <1>8, <2>1 DEF Close
<1>10. 2 * (v - w) <= b + 1000 * m /\ 2 * (w - v) <= b + 1000 * m
  BY <1>3, <1>7, <1>8, <1>9 DEF Close
<1>11. CASE n < 0
  <2>1. r = -q /\ n = -m
    <3>1. n = -m
      BY <1>1, <1>11
    <3>2. -n = m
      BY <3>1
    <3> QED
      BY <1>5, <1>11, <3>1, <3>2 DEF SignedQuotient
  <2>2. (-q) * b = -v /\ (-m) * one = -w
    <3>1. (-q) * b = -(q * b) /\ (-m) * one = -(m * one)
      BY <1>6
    <3> QED
      BY <1>8, <3>1
  <2>3. r * b - n * One = w - v /\ n * One - r * b = v - w
    BY <1>3, <2>1, <2>2
  <2>4. r \in Int
    BY <1>6, <2>1
  <2> QED
    BY <1>1, <1>10, <2>3, <2>4
<1>12. CASE ~(n < 0)
  <2>1. r = q /\ n = m
    BY <1>1, <1>5, <1>12 DEF SignedQuotient
  <2>2. r * b - n * One = v - w /\ n * One - r * b = w - v
    BY <1>3, <1>8, <2>1
  <2> QED
    BY <1>1, <1>6, <1>10, <2>1, <2>2
<1> QED
  BY <1>11, <1>12

(* The difference of two rates is near the exact one.                      *)
LEMMA DifferenceNear ==
  ASSUME NEW one \in Nat,
         NEW m \in Int, NEW b \in Nat, NEW r \in Int, NEW x \in Nat,
         2 * (r * b - m * one) <= b + 1000 * x, 2 * (m * one - r * b) <= b + 1000 * x,
         NEW n \in Int, NEW c \in Nat, NEW s \in Int, NEW y \in Nat,
         2 * (s * c - n * one) <= c + 1000 * y, 2 * (n * one - s * c) <= c + 1000 * y,
         NEW e, e = x * c + y * b + b * c
  PROVE  /\ 2 * ((r - s) * (b * c) - (m * c - n * b) * one) <= 1000 * e
         /\ 2 * ((m * c - n * b) * one - (r - s) * (b * c)) <= 1000 * e
<1>1. PICK f, g \in Int : f = r * b - m * one /\ g = s * c - n * one
  <2>1. r * b - m * one \in Int /\ s * c - n * one \in Int
    OBVIOUS
  <2> QED
    BY <2>1
<1>2. m * one - r * b = -f /\ n * one - s * c = -g
  BY <1>1
<1>3. PICK p, q \in Nat : p = b + 1000 * x /\ q = c + 1000 * y
  OBVIOUS
<1>4. 2 * f <= p /\ -(2 * f) <= p /\ 2 * g <= q /\ -(2 * g) <= q
  BY <1>1, <1>2, <1>3
<1>5. PICK v, w \in Int : v = f * c /\ w = g * b
  OBVIOUS
<1>6. (r - s) * (b * c) - (m * c - n * b) * one = v - w
  <2>1. (r * b - m * one) * c - (s * c - n * one) * b = (r - s) * (b * c) - (m * c - n * b) * one
    OBVIOUS
  <2> QED
    BY <1>1, <1>5, <2>1
<1>7. 2 * v <= p * c /\ -(2 * v) <= p * c
  <2>1. PICK h, i \in Nat : h = p - 2 * f /\ i = p + 2 * f
    <3>1. p - 2 * f \in Nat /\ p + 2 * f \in Nat
      BY <1>4
    <3> QED
      BY <3>1
  <2>2. h * c >= 0 /\ i * c >= 0
    OBVIOUS
  <2>3. (p - 2 * f) * c = p * c - 2 * v /\ (p + 2 * f) * c = p * c + 2 * v
    BY <1>5
  <2>4. PICK z \in Int : z = p * c
    OBVIOUS
  <2> QED
    BY <2>1, <2>2, <2>3, <2>4
<1>8. 2 * w <= q * b /\ -(2 * w) <= q * b
  <2>1. PICK h, i \in Nat : h = q - 2 * g /\ i = q + 2 * g
    <3>1. q - 2 * g \in Nat /\ q + 2 * g \in Nat
      BY <1>4
    <3> QED
      BY <3>1
  <2>2. h * b >= 0 /\ i * b >= 0
    OBVIOUS
  <2>3. (q - 2 * g) * b = q * b - 2 * w /\ (q + 2 * g) * b = q * b + 2 * w
    BY <1>5
  <2>4. PICK z \in Int : z = q * b
    OBVIOUS
  <2> QED
    BY <2>1, <2>2, <2>3, <2>4
<1>9. p * c + q * b <= 1000 * e
  <2>1. PICK h, i, j \in Nat : h = x * c /\ i = y * b /\ j = b * c
    OBVIOUS
  <2>2. (b + 1000 * x) * c = b * c + 1000 * (x * c) /\ (c + 1000 * y) * b = b * c + 1000 * (y * b)
    OBVIOUS
  <2> QED
    BY <1>3, <2>1, <2>2
<1>10. PICK h, i, k \in Int : h = p * c /\ i = q * b /\ k = e
  <2>1. p * c \in Int /\ q * b \in Int /\ e \in Int
    OBVIOUS
  <2> QED
    BY <2>1
<1>11. 2 * (v - w) <= 1000 * e /\ 2 * (w - v) <= 1000 * e
  BY <1>7, <1>8, <1>9, <1>10
<1>12. PICK y1, y2 \in Int : y1 = (r - s) * (b * c) /\ y2 = (m * c - n * b) * one
  <2>1. (r - s) * (b * c) \in Int /\ (m * c - n * b) * one \in Int
    OBVIOUS
  <2> QED
    BY <2>1
<1>13. y1 - y2 = v - w /\ y2 - y1 = w - v
  BY <1>6, <1>12
<1> QED
  BY <1>11, <1>12, <1>13

(* What is tolerated is not rounded above the tolerance, which is a number *)
(* of tenths.                                                              *)
LEMMA ToleratedStays ==
  ASSUME NEW s \in Nat, s * TenTo[1] <= TenTo[Digits] * One - 1,
         NEW tolerance \in Nat, s <= tolerance * (One \div 10)
  PROVE  Quotient(s, One) \in Nat /\ Quotient(s, One) <= tolerance * (One \div 10)
<1>1. PICK one, c \in Nat : one = One /\ c = One \div 10 /\ one = 10 * c /\ one > 0
  <2>1. One \div 10 = TenTo[Places - 1] /\ TenTo[Places - 1] = 10 * TenTo[Digits]
        /\ One = 10 * TenTo[Places - 1] /\ One >= 1000
    BY PowersOfPlaces
  <2>2. PICK t \in Nat : t = TenTo[Digits]
    BY PowersOfPlaces
  <2>3. PICK c \in Nat : c = TenTo[Places - 1]
    BY <2>1, <2>2
  <2>4. PICK one \in Nat : one = One
    BY PowersOfPlaces
  <2> QED
    BY <2>1, <2>3, <2>4
<1>2. 1 \in 0..Places
  BY PlacesAre
<1>3. PICK k \in 1..Places : Kept(s, one, k)
  BY <1>1, <1>2, QuotientIs
<1>4. PICK j \in Nat : k = j + 1 /\ k \in Nat /\ k <= Places /\ Places \in Nat /\ 0 <= k
  <2>1. k - 1 \in Nat /\ k = (k - 1) + 1 /\ k \in Nat /\ k <= Places
    BY PlacesAre
  <2> QED
    BY <2>1, PlacesAre
<1>5. PICK p, q, a \in Nat : /\ p = TenTo[k] /\ q = TenTo[Places - k] /\ One = p * q
                             /\ a = TenTo[j] /\ p = 10 * a
  <2>1. TenTo[Places] = TenTo[k] * TenTo[Places - k] /\ Places - k \in Nat
    BY <1>4, PowersShrink
  <2>2. TenTo[k] = 10 * TenTo[j]
    BY <1>4, TenToIs
  <2> QED
    BY <1>4, <2>1, <2>2, TenToType DEF One
<1>6. PICK n, m \in Nat : n = s * p /\ m = tolerance * a
  OBVIOUS
<1>7. n <= one * m
  <2>1. PICK f \in Nat : f = tolerance * c - s
    <3>1. PICK z \in Nat : z = tolerance * c
      OBVIOUS
    <3>2. z - s \in Nat
      BY <1>1, <3>1
    <3> QED
      BY <3>1, <3>2
  <2>2. f * p >= 0
    OBVIOUS
  <2>3. (tolerance * c - s) * p = (tolerance * c) * p - s * p
    OBVIOUS
  <2>4. (tolerance * c) * (10 * a) = (10 * c) * (tolerance * a)
    OBVIOUS
  <2>5. PICK z \in Int : z = one * m
    OBVIOUS
  <2> QED
    BY <1>1, <1>5, <1>6, <2>1, <2>2, <2>3, <2>4, <2>5
<1>8. PICK h \in Nat : h = HalfEven(n, one) /\ 2 * (one * h - n) <= one
  BY <1>1, HalfEvenIs
<1>9. h <= m
  <2>1. SUFFICES ASSUME h - m - 1 >= 0 PROVE FALSE
    OBVIOUS
  <2>2. one * (h - m - 1) >= 0
    BY <2>1
  <2>3. one * (h - m - 1) = one * h - one * m - one
    OBVIOUS
  <2>4. PICK v, w \in Int : v = one * h /\ w = one * m
    OBVIOUS
  <2> QED
    BY <1>1, <1>7, <1>8, <2>2, <2>3, <2>4
<1>10. Quotient(s, One) = h * q
  BY <1>1, <1>3, <1>5, <1>6, <1>8 DEF Kept
<1>11. h * q <= tolerance * c
  <2>1. PICK f \in Nat : f = m - h
    BY <1>9
  <2>2. f * q >= 0
    OBVIOUS
  <2>3. (m - h) * q = m * q - h * q
    OBVIOUS
  <2>4. m * q = tolerance * c
    <3>1. 10 * (a * q) = 10 * c
      <4>1. (10 * a) * q = 10 * (a * q)
        OBVIOUS
      <4> QED
        BY <1>1, <1>5, <4>1
    <3>2. PICK z \in Nat : z = a * q
      OBVIOUS
    <3>3. a * q = c
      BY <3>1, <3>2
    <3>4. (tolerance * a) * q = tolerance * (a * q)
      OBVIOUS
    <3> QED
      BY <1>6, <3>3, <3>4
  <2>5. PICK z, w \in Int : z = h * q /\ w = tolerance * c
    OBVIOUS
  <2> QED
    BY <2>1, <2>2, <2>3, <2>4, <2>5
<1> QED
  BY <1>1, <1>10, <1>11

(* What is rounded down to the tolerance is near it.                       *)
LEMMA RoundedDown ==
  ASSUME NEW s \in Nat, s * TenTo[1] <= TenTo[Digits] * One - 1,
         NEW theta \in Nat, Quotient(s, One) <= theta, NEW u \in Nat, u <= s, u > theta
  PROVE  2 * (TenTo[Digits] * (u - theta)) <= 10 * u
<1>1. PICK one, t \in Nat : one = One /\ t = TenTo[Digits] /\ one = 100 * t /\ t >= 10
  BY PowersOfPlaces
<1>2. 1 \in 0..Places
  BY PlacesAre
<1>3. PICK q : q = Quotient(s, one)
  OBVIOUS
<1>4. q \in Nat /\ \E g \in Nat : Close(s, one, q, g)
  BY <1>1, <1>2, <1>3, QuotientTight
<1>5. PICK g \in Nat : Close(s, one, q, g)
  BY <1>4
<1>6. PICK f, e \in Nat : f = s - q /\ e = u - theta /\ e >= 1 /\ s - theta <= f /\ s - theta >= e
  <2>1. q <= theta
    BY <1>1, <1>3
  <2>2. s - q \in Nat /\ u - theta \in Nat /\ u - theta >= 1
    BY <1>4, <2>1
  <2>3. s - theta <= s - q /\ s - theta >= u - theta
    BY <1>4, <2>1
  <2> QED
    BY <2>2, <2>3
<1>7. PICK z, y \in Nat : z = one * g /\ y = one * f
  OBVIOUS
<1>8. 2 * y <= z /\ (g = 1 \/ z <= 1000 * s)
  <2>1. s * one - q * one = one * (s - q)
    BY <1>4
  <2> QED
    BY <1>1, <1>5, <1>6, <1>7, <2>1 DEF Close
<1>9. f >= 1
  BY <1>6
<1>10. g # 1
  <2>1. SUFFICES ASSUME g = 1 PROVE FALSE
    OBVIOUS
  <2>2. one * (f - 1) >= 0
    <3>1. PICK x \in Nat : x = f - 1
      BY <1>9
    <3>2. one * x >= 0
      OBVIOUS
    <3> QED
      BY <3>1, <3>2
  <2>3. one * (f - 1) = y - one
    BY <1>7
  <2> QED
    BY <1>1, <1>7, <1>8, <2>1, <2>2, <2>3
<1>11. PICK v \in Nat : v = t * f
  OBVIOUS
<1>12. 2 * v <= 10 * s
  <2>1. (100 * t) * f = 100 * (t * f)
    OBVIOUS
  <2> QED
    BY <1>1, <1>7, <1>8, <1>10, <1>11, <2>1
<1>13. PICK d \in Nat : d = s - u
  OBVIOUS
<1>14. t * (d + e) <= t * f
  <2>1. PICK x \in Nat : x = f - (d + e)
    <3>1. f - (d + e) \in Nat
      BY <1>6, <1>13
    <3> QED
      BY <3>1
  <2>2. t * x >= 0
    OBVIOUS
  <2>3. t * (f - (d + e)) = t * f - t * (d + e)
    OBVIOUS
  <2>4. PICK y1, y2 \in Int : y1 = t * f /\ y2 = t * (d + e)
    OBVIOUS
  <2> QED
    BY <2>1, <2>2, <2>3, <2>4
<1>15. t * (d + e) = t * d + t * e
  OBVIOUS
<1>16. t * d >= 10 * d
  <2>1. PICK x \in Nat : x = t - 10
    BY <1>1
  <2>2. x * d >= 0
    OBVIOUS
  <2>3. (t - 10) * d = t * d - 10 * d
    OBVIOUS
  <2>4. PICK y1 \in Int : y1 = t * d
    OBVIOUS
  <2> QED
    BY <2>1, <2>2, <2>3, <2>4
<1>17. PICK x, w \in Int : x = t * d /\ w = t * e
  OBVIOUS
<1>18. 2 * w <= 10 * u
  BY <1>11, <1>12, <1>13, <1>14, <1>15, <1>16, <1>17
<1> QED
  BY <1>1, <1>6, <1>17, <1>18

(* Two rates whose exact difference is below the tolerance differ by no    *)
(* more than it.                                                           *)
LEMMA NotAbove ==
  ASSUME NEW t \in Nat, NEW s \in Int, NEW b \in Nat, b > 0, NEW delta \in Int, NEW e \in Nat,
         2 * (s * b - delta * (100 * t)) <= 1000 * e, 100 * e < t,
         NEW tolerance \in Nat, 10 * delta - tolerance * b < 0
  PROVE  s <= tolerance * (10 * t)
<1>1. PICK v, w, x, y \in Int : v = s * b /\ w = delta * t /\ x = tolerance * b /\ y = t * x
  <2>1. tolerance * b \in Int
    OBVIOUS
  <2>2. t * (tolerance * b) \in Int
    OBVIOUS
  <2> QED
    BY <2>1, <2>2
<1>2. delta * (100 * t) = 100 * w
  <2>1. delta * (100 * t) = 100 * (delta * t)
    OBVIOUS
  <2> QED
    BY <1>1, <2>1
<1>3. 10 * w <= y - t
  <2>1. PICK z \in Nat : z = x - 10 * delta - 1
    <3>1. x - 10 * delta - 1 \in Nat
      BY <1>1
    <3> QED
      BY <3>1
  <2>2. t * z >= 0
    OBVIOUS
  <2>3. t * (x - 10 * delta - 1) = t * x - 10 * (delta * t) - t
    OBVIOUS
  <2> QED
    BY <1>1, <2>1, <2>2, <2>3
<1>4. v <= 10 * y
  BY <1>1, <1>2, <1>3
<1>5. PICK u \in Int : u = tolerance * (10 * t)
  OBVIOUS
<1>6. SUFFICES ASSUME s - u >= 1 PROVE FALSE
  BY <1>5
<1>7. u * b = 10 * y
  <2>1. (tolerance * (10 * t)) * b = 10 * (t * (tolerance * b))
    OBVIOUS
  <2> QED
    BY <1>1, <1>5, <2>1
<1>8. b * (s - u - 1) >= 0
  <2>1. PICK z \in Nat : z = s - u - 1
    BY <1>6
  <2>2. b * z >= 0
    OBVIOUS
  <2> QED
    BY <2>1, <2>2
<1>9. b * (s - u - 1) = s * b - u * b - b
  OBVIOUS
<1> QED
  BY <1>1, <1>4, <1>7, <1>8, <1>9

(* A difference that is not small compared with its terms.                 *)
LEMMA StaysFar ==
  ASSUME NEW t \in Nat, t > 0, NEW e \in Nat, 100 * e < t, NEW b \in Nat,
         NEW s \in Int, s * b <= 100 * (t * e) - 95 * t, NEW g \in Int, g * b >= 5 * t
  PROVE  2 * (t * g) > 10 * s
<1>1. PICK i, h, v, f, k \in Int : i = t * g /\ h = g * b /\ v = s * b /\ f = t * e /\ k = t * t
  OBVIOUS
<1>2. SUFFICES ASSUME 10 * s - 2 * i >= 0 PROVE FALSE
  BY <1>1
<1>3. (10 * s - 2 * i) * b >= 0
  <2>1. 10 * s - 2 * i \in Nat
    BY <1>2
  <2>2. \A z \in Nat : z * b >= 0
    OBVIOUS
  <2> QED
    BY <2>1, <2>2
<1>4. (10 * s - 2 * i) * b = 10 * (s * b) - 2 * (i * b) /\ (t * g) * b = t * (g * b)
  OBVIOUS
<1>5. PICK l \in Int : l = t * h
  OBVIOUS
<1>6. 10 * v - 2 * l >= 0
  BY <1>1, <1>3, <1>4, <1>5
<1>7. l >= 5 * k
  <2>1. PICK j \in Nat : j = h - 5 * t
    BY <1>1
  <2>2. t * j >= 0
    OBVIOUS
  <2>3. t * (h - 5 * t) = t * h - 5 * (t * t)
    OBVIOUS
  <2> QED
    BY <1>1, <1>5, <2>1, <2>2, <2>3
<1>8. 100 * f <= k - t
  <2>1. PICK j \in Nat : j = t - 1 - 100 * e
    <3>1. PICK j \in Int : j = t - 1 - 100 * e /\ j >= 0
      OBVIOUS
    <3> QED
      BY <3>1
  <2>2. t * j >= 0
    OBVIOUS
  <2>3. t * (t - 1 - 100 * e) = t * t - t - 100 * (t * e)
    OBVIOUS
  <2> QED
    BY <1>1, <2>1, <2>2, <2>3
<1>9. v <= 100 * f - 95 * t
  BY <1>1
<1> QED
  BY <1>6, <1>7, <1>8, <1>9

(* Two rates whose exact difference is above it differ by so much more     *)
(* that rounding does not hide it.                                         *)
LEMMA FarAbove ==
  ASSUME NEW t \in Nat, t >= 10, NEW s \in Int, NEW b \in Nat, b > 0, NEW delta \in Int, NEW e \in Nat,
         2 * (s * b - delta * (100 * t)) <= 1000 * e, 2 * (delta * (100 * t) - s * b) <= 1000 * e,
         100 * e < t, delta <= e - 1,
         NEW tolerance \in Nat, 10 * delta - tolerance * b > 0,
         NEW theta, theta = tolerance * (10 * t)
  PROVE  s \in Nat /\ s > theta /\ 2 * (t * (s - theta)) > 10 * s
<1>1. PICK v, w, x, y \in Int : v = s * b /\ w = delta * t /\ x = tolerance * b /\ y = t * x
  <2>1. tolerance * b \in Int
    OBVIOUS
  <2>2. t * (tolerance * b) \in Int
    OBVIOUS
  <2> QED
    BY <2>1, <2>2
<1>2. delta * (100 * t) = 100 * w
  <2>1. delta * (100 * t) = 100 * (delta * t)
    OBVIOUS
  <2> QED
    BY <1>1, <2>1
<1>3. 10 * w >= y + t
  <2>1. PICK z \in Nat : z = 10 * delta - x - 1
    <3>1. 10 * delta - x - 1 \in Nat
      BY <1>1
    <3> QED
      BY <3>1
  <2>2. t * z >= 0
    OBVIOUS
  <2>3. t * (10 * delta - x - 1) = 10 * (delta * t) - t * x - t
    OBVIOUS
  <2> QED
    BY <1>1, <2>1, <2>2, <2>3
<1>4. PICK f \in Nat : f = t * e
  OBVIOUS
<1>5. w <= f - t
  <2>1. PICK z \in Nat : z = e - 1 - delta
    <3>1. e - 1 - delta \in Nat
      OBVIOUS
    <3> QED
      BY <3>1
  <2>2. t * z >= 0
    OBVIOUS
  <2>3. t * (e - 1 - delta) = t * e - t - delta * t
    OBVIOUS
  <2> QED
    BY <1>1, <1>4, <2>1, <2>2, <2>3
<1>6. v >= 10 * y + 5 * t
  BY <1>1, <1>2, <1>3
<1>7. v <= 100 * f - 95 * t
  BY <1>1, <1>2, <1>5
<1>8. PICK u, g \in Int : u = theta /\ g = s - theta
  OBVIOUS
<1>9. u * b = 10 * y
  <2>1. (tolerance * (10 * t)) * b = 10 * (t * (tolerance * b))
    OBVIOUS
  <2> QED
    BY <1>1, <1>8, <2>1
<1>10. g * b = v - 10 * y
  <2>1. (s - theta) * b = s * b - theta * b
    BY <1>8
  <2> QED
    BY <1>1, <1>8, <1>9, <2>1
<1>11. g * b >= 5 * t
  BY <1>1, <1>6, <1>10
<1>12. g >= 1
  <2>1. SUFFICES ASSUME 0 - g >= 0 PROVE FALSE
    BY <1>8
  <2>2. (0 - g) * b >= 0
    <3>1. PICK z \in Nat : z = 0 - g
      BY <2>1
    <3>2. z * b >= 0
      OBVIOUS
    <3> QED
      BY <3>1, <3>2
  <2>3. (0 - g) * b = -(g * b)
    OBVIOUS
  <2> QED
    BY <1>11, <2>2, <2>3
<1>13. u >= 0
  <2>1. tolerance * (10 * t) >= 0
    OBVIOUS
  <2> QED
    BY <1>8, <2>1
<1>14. s \in Nat /\ s > theta
  BY <1>8, <1>12, <1>13
<1>15. 2 * (t * g) > 10 * s
  <2>1. s * b <= 100 * (t * e) - 95 * t
    BY <1>1, <1>4, <1>7
  <2>2. t > 0
    OBVIOUS
  <2> QED
    BY <1>11, <2>1, <2>2, StaysFar
<1> QED
  BY <1>8, <1>14, <1>15

(* A difference of rates has room for a digit more.                        *)
LEMMA DifferenceFits ==
  ASSUME NEW t \in Nat, t >= 10, NEW s \in Nat, NEW b \in Nat, b > 0, NEW delta \in Int, NEW e \in Nat,
         2 * (s * b - delta * (100 * t)) <= 1000 * e, 100 * e < t, delta <= e - 1
  PROVE  s * 10 <= t * (100 * t) - 1
<1>1. PICK v, w, f, k \in Int : v = s * b /\ w = delta * t /\ f = t * e /\ k = t * t
  OBVIOUS
<1>2. delta * (100 * t) = 100 * w
  <2>1. delta * (100 * t) = 100 * (delta * t)
    OBVIOUS
  <2> QED
    BY <1>1, <2>1
<1>3. s <= v
  <2>1. PICK z \in Nat : z = b - 1
    OBVIOUS
  <2>2. s * z >= 0
    OBVIOUS
  <2>3. s * (b - 1) = s * b - s
    OBVIOUS
  <2> QED
    BY <1>1, <2>1, <2>2, <2>3
<1>4. w <= f - t
  <2>1. PICK z \in Nat : z = e - 1 - delta
    <3>1. e - 1 - delta \in Nat
      OBVIOUS
    <3> QED
      BY <3>1
  <2>2. t * z >= 0
    OBVIOUS
  <2>3. t * (e - 1 - delta) = t * e - t - delta * t
    OBVIOUS
  <2> QED
    BY <1>1, <2>1, <2>2, <2>3
<1>5. 100 * f <= k - t
  <2>1. PICK i \in Nat : i = t - 1 - 100 * e
    OBVIOUS
  <2>2. t * i >= 0
    OBVIOUS
  <2>3. t * (t - 1 - 100 * e) = t * t - t - 100 * (t * e)
    OBVIOUS
  <2> QED
    BY <1>1, <2>1, <2>2, <2>3
<1>6. t * (100 * t) = 100 * k
  BY <1>1
<1>7. k >= 100
  <2>1. PICK i \in Nat : i = t - 10
    OBVIOUS
  <2>2. i * (t + 10) >= 0
    OBVIOUS
  <2>3. (t - 10) * (t + 10) = t * t - 100
    OBVIOUS
  <2> QED
    BY <1>1, <2>1, <2>2, <2>3
<1>8. 2 * v <= 200 * f - 200 * t + 1000 * e
  BY <1>1, <1>2, <1>4
<1> QED
  BY <1>1, <1>3, <1>5, <1>6, <1>7, <1>8

(* The rate of a generation.                                               *)
RateOf(g) == SignedQuotient(g.distributed, g.base)

(* The rates of two generations that can be told apart differ as the exact *)
(* ones do.                                                                *)
LEMMA RatesAreApart ==
  ASSUME NEW g \in [base: Int, distributed: Int], g.base > 0, FewDigits(g.distributed),
         NEW h \in [base: Int, distributed: Int], h.base > 0, FewDigits(h.distributed),
         ToldApart(g, h), input.tolerance \in Nat,
         NEW s, s = RateOf(g) - RateOf(h), NEW theta, theta = input.tolerance * (One \div 10)
  PROVE  /\ RateOf(g) \in Int /\ RateOf(h) \in Int
         /\ s \in Nat => s * TenTo[1] <= TenTo[Digits] * One - 1
         /\ SpreadAbove(g, h) < 0 => s <= theta
         /\ SpreadAbove(g, h) > 0 => s \in Nat /\ s > theta /\ 2 * (TenTo[Digits] * (s - theta)) > 10 * s
<1>1. PICK m, n \in Int : m = g.distributed /\ n = h.distributed /\ FewDigits(m) /\ FewDigits(n)
  OBVIOUS
<1>2. PICK b, c \in Nat : b = g.base /\ c = h.base /\ b > 0 /\ c > 0
  <2>1. g.base \in Nat /\ h.base \in Nat
    OBVIOUS
  <2> QED
    BY <2>1
<1>3. PICK t, one, tolerance \in Nat :
        /\ t = TenTo[Digits] /\ t >= 10 /\ one = One /\ one = 100 * t /\ One \div 10 = 10 * t
        /\ tolerance = input.tolerance
  BY PowersOfPlaces
<1>4. PICK x, y \in Nat : x = Magnitude(m) /\ y = Magnitude(n)
  <2>1. Magnitude(m) \in Nat /\ Magnitude(n) \in Nat
    BY DEF Magnitude
  <2> QED
    BY <2>1
<1>5. PICK r : r = SignedQuotient(m, b)
  OBVIOUS
<1>6. r \in Int /\ 2 * (r * b - m * one) <= b + 1000 * x /\ 2 * (m * one - r * b) <= b + 1000 * x
  BY <1>1, <1>2, <1>3, <1>4, <1>5, RateNear
<1>7. PICK w : w = SignedQuotient(n, c)
  OBVIOUS
<1>8. w \in Int /\ 2 * (w * c - n * one) <= c + 1000 * y /\ 2 * (n * one - w * c) <= c + 1000 * y
  BY <1>1, <1>2, <1>3, <1>4, <1>7, RateNear
<1>9. RateOf(g) = r /\ RateOf(h) = w /\ s = r - w
  BY <1>1, <1>2, <1>5, <1>7 DEF RateOf
<1>10. PICK p, u, v \in Nat : p = b * c /\ u = x * c /\ v = y * b
  OBVIOUS
<1>11. PICK e \in Nat : e = u + v + p
  OBVIOUS
<1>12. e = x * c + y * b + b * c
  BY <1>10, <1>11
<1>13. 100 * e < t
  BY <1>1, <1>2, <1>3, <1>4, <1>12 DEF ToldApart
<1>14. PICK delta, k, l \in Int : delta = k - l /\ k = m * c /\ l = n * b
  <2>1. m * c \in Int /\ n * b \in Int /\ m * c - n * b \in Int
    OBVIOUS
  <2> QED
    BY <2>1
<1>15. /\ 2 * (s * p - delta * (100 * t)) <= 1000 * e
       /\ 2 * (delta * (100 * t) - s * p) <= 1000 * e
  <2>1. /\ 2 * ((r - w) * (b * c) - (m * c - n * b) * one) <= 1000 * e
        /\ 2 * ((m * c - n * b) * one - (r - w) * (b * c)) <= 1000 * e
    BY <1>6, <1>8, <1>12, DifferenceNear
  <2> QED
    BY <1>3, <1>9, <1>10, <1>14, <2>1
<1>16. p > 0
  <2>1. PICK i, j \in Nat : i = b - 1 /\ j = c - 1
    BY <1>2
  <2>2. i * j >= 0
    OBVIOUS
  <2>3. (b - 1) * (c - 1) = b * c - b - c + 1
    OBVIOUS
  <2> QED
    BY <1>2, <1>10, <2>1, <2>2, <2>3
<1>17. delta <= e - 1
  <2>1. (x - m >= 0 /\ y + n >= 0)
    BY <1>4 DEF Magnitude
  <2>2. PICK i, j \in Nat : i = x - m /\ j = y + n
    BY <2>1
  <2>3. i * c >= 0 /\ j * b >= 0
    OBVIOUS
  <2>4. (x - m) * c = x * c - m * c /\ (y + n) * b = y * b + n * b
    OBVIOUS
  <2>5. u - k >= 0 /\ v + l >= 0
    BY <1>10, <1>14, <2>2, <2>3, <2>4
  <2> QED
    BY <1>11, <1>14, <1>16, <2>5
<1>18. SpreadAbove(g, h) = 10 * delta - tolerance * p
  <2>1. tolerance * b * c = tolerance * (b * c)
    OBVIOUS
  <2>2. SpreadAbove(g, h) = 10 * (m * c - n * b) - tolerance * b * c
    BY <1>1, <1>2, <1>3 DEF SpreadAbove
  <2> QED
    BY <1>10, <1>14, <2>1, <2>2
<1>19. s \in Int /\ theta = tolerance * (10 * t)
  BY <1>3, <1>6, <1>8, <1>9
<1>20. ASSUME s \in Nat PROVE s * TenTo[1] <= TenTo[Digits] * One - 1
  <2>1. s * 10 <= t * (100 * t) - 1
    BY <1>3, <1>13, <1>15, <1>16, <1>17, <1>20, DifferenceFits
  <2> QED
    BY <1>3, <2>1, PowersOfPlaces
<1>21. ASSUME SpreadAbove(g, h) < 0 PROVE s <= theta
  <2>1. 10 * delta - tolerance * p < 0
    BY <1>18, <1>21
  <2>2. s <= tolerance * (10 * t)
    BY <1>13, <1>15, <1>16, <1>19, <2>1, NotAbove
  <2> QED
    BY <1>19, <2>2
<1>22. ASSUME SpreadAbove(g, h) > 0
       PROVE  s \in Nat /\ s > theta /\ 2 * (TenTo[Digits] * (s - theta)) > 10 * s
  <2>1. 10 * delta - tolerance * p > 0
    BY <1>18, <1>22
  <2>2. t >= 10
    BY <1>3
  <2>3. PICK q : q = tolerance * (10 * t)
    OBVIOUS
  <2>4. s \in Nat /\ s > q /\ 2 * (t * (s - q)) > 10 * s
    BY <1>13, <1>15, <1>16, <1>17, <1>19, <2>1, <2>2, <2>3, FarAbove
  <2> QED
    BY <1>3, <1>19, <2>3, <2>4
<1> QED
  BY <1>6, <1>8, <1>9, <1>20, <1>21, <1>22

(* A spread is reported when two rates are further apart than tolerated.   *)
LEMMA EquityIsExact ==
  ASSUME input \in Inputs, input.of = "equity", NEW out, out = AnalyzeIntergenerationalEquity(input),
         out # Refused, NEW all, all = Range(input.generations),
         \A g, h \in all : g # h => ToldApart(g, h)
  PROVE  /\ (\E g, h \in all : SpreadAbove(g, h) > 0) => out.imbalance
         /\ out.imbalance => \E g, h \in all : SpreadAbove(g, h) >= 0
<1>1. /\ input.generations \in Seq([base: Int, distributed: Int]) /\ input.tolerance \in Nat
      /\ \A i \in DOMAIN input.generations : FewDigits(input.generations[i].distributed)
  BY CalculationsAssumption
<1>2. PICK rates : rates = {RateOf(g) : g \in all}
  OBVIOUS
<1>3. PICK spread : spread = Quotient(LargestOf(rates) - SmallestOf(rates), One)
  OBVIOUS
<1>4. /\ ~(Len(input.generations) < 2) /\ \A g \in all : ~(g.base <= 0)
      /\ out = [spread |-> spread, imbalance |-> spread > input.tolerance * (One \div 10)]
  BY <1>2, <1>3 DEF AnalyzeIntergenerationalEquity, RateOf
<1>5. PICK D : D = DOMAIN input.generations
  OBVIOUS
<1>6. D = 1..Len(input.generations) /\ Len(input.generations) \in Nat
  BY <1>1, <1>5
<1>7. IsFiniteSet(D) /\ D # {}
  <2>1. IsFiniteSet(1..Len(input.generations))
    BY <1>6, FS_Interval
  <2>2. 1 \in D
    BY <1>4, <1>6
  <2> QED
    BY <1>6, <2>1, <2>2
<1>8. all = {input.generations[i] : i \in D}
  BY <1>5 DEF Range
<1>9. \A g \in all : g \in [base: Int, distributed: Int] /\ FewDigits(g.distributed) /\ g.base > 0
  <2>1. ASSUME NEW g \in all PROVE g \in [base: Int, distributed: Int] /\ FewDigits(g.distributed)
    <3>1. PICK i \in D : g = input.generations[i]
      BY <1>8
    <3>2. PICK R : R = [base: Int, distributed: Int]
      OBVIOUS
    <3>3. input.generations \in Seq(R) /\ i \in 1..Len(input.generations)
      BY <1>1, <1>6, <3>2
    <3>4. input.generations[i] \in R
      BY <3>3
    <3> QED
      BY <1>1, <1>5, <3>1, <3>2, <3>4
  <2>2. \A g \in all : g.base > 0
    BY <1>4, <2>1
  <2> QED
    BY <2>1, <2>2
<1>10. \A g \in all : RateOf(g) \in Int
  <2>1. ASSUME NEW g \in all PROVE RateOf(g) \in Int
    <3>1. g.distributed \in Int /\ g.base \in Nat /\ g.base > 0 /\ FewDigits(g.distributed)
      BY <1>9
    <3> QED
      BY <3>1, RateNear DEF RateOf
  <2> QED
    BY <2>1
<1>11. PICK a \in all : \A g \in all : RateOf(a) >= RateOf(g)
  <2>1. PICK v : v = [i \in D |-> RateOf(input.generations[i])]
    OBVIOUS
  <2>2. \A i \in D : v[i] \in Int
    BY <1>8, <1>10, <2>1
  <2>3. PICK i \in D : \A j \in D : v[i] >= v[j]
    BY <1>7, <2>2, HighestIs
  <2> QED
    BY <1>8, <2>1, <2>3
<1>12. PICK b \in all : \A g \in all : RateOf(b) <= RateOf(g)
  <2>1. PICK v : v = [i \in D |-> -RateOf(input.generations[i])]
    OBVIOUS
  <2>2. \A i \in D : v[i] \in Int /\ RateOf(input.generations[i]) \in Int
    BY <1>8, <1>10, <2>1
  <2>3. PICK i \in D : \A j \in D : v[i] >= v[j]
    BY <1>7, <2>2, HighestIs
  <2>4. \A j \in D : RateOf(input.generations[i]) <= RateOf(input.generations[j])
    BY <2>1, <2>2, <2>3
  <2> QED
    BY <1>8, <2>4
<1>13. LargestOf(rates) = RateOf(a)
  <2>1. RateOf(a) \in rates /\ \A r \in rates : RateOf(a) >= r
    BY <1>2, <1>11
  <2>2. \A r \in rates : (\A q \in rates : r >= q) => r = RateOf(a)
    BY <1>2, <1>10, <2>1
  <2> QED
    BY <2>1, <2>2 DEF LargestOf
<1>14. SmallestOf(rates) = RateOf(b)
  <2>1. RateOf(b) \in rates /\ \A r \in rates : RateOf(b) <= r
    BY <1>2, <1>12
  <2>2. \A r \in rates : (\A q \in rates : r <= q) => r = RateOf(b)
    BY <1>2, <1>10, <2>1
  <2> QED
    BY <2>1, <2>2 DEF SmallestOf
<1>15. PICK s \in Nat : s = RateOf(a) - RateOf(b) /\ \A g, h \in all : RateOf(g) - RateOf(h) <= s
  <2>1. RateOf(a) \in Int /\ RateOf(b) \in Int /\ RateOf(a) >= RateOf(b)
    BY <1>10, <1>11
  <2>2. RateOf(a) - RateOf(b) \in Nat
    BY <2>1
  <2>3. ASSUME NEW g \in all, NEW h \in all PROVE RateOf(g) - RateOf(h) <= RateOf(a) - RateOf(b)
    <3>1. RateOf(g) \in Int /\ RateOf(h) \in Int /\ RateOf(g) <= RateOf(a) /\ RateOf(b) <= RateOf(h)
      BY <1>10, <1>11, <1>12
    <3> QED
      BY <2>1, <3>1
  <2> QED
    BY <2>2, <2>3
<1>16. spread = Quotient(s, One)
  BY <1>3, <1>13, <1>14, <1>15
<1>17. PICK theta \in Nat : theta = input.tolerance * (One \div 10)
  <2>1. One \div 10 \in Nat
    BY PowersOfPlaces
  <2>2. input.tolerance * (One \div 10) \in Nat
    BY <1>1, <2>1
  <2> QED
    BY <2>2
<1>18. out.imbalance <=> spread > theta
  <2>1. out.imbalance = (spread > input.tolerance * (One \div 10))
    BY <1>4
  <2> QED
    BY <1>17, <2>1
<1>19. a = b => s = 0 /\ spread = 0
  <2>1. SUFFICES ASSUME a = b PROVE s = 0 /\ spread = 0
    OBVIOUS
  <2>2. s = 0
    BY <1>10, <1>15, <2>1
  <2>3. One \in Nat /\ One > 0
    BY PowersOfPlaces
  <2> QED
    BY <1>16, <2>2, <2>3, NoneOf
<1>20. a # b => s * TenTo[1] <= TenTo[Digits] * One - 1
  BY <1>1, <1>9, <1>15, <1>17, RatesAreApart
<1>21. ASSUME NEW g \in all, NEW h \in all, SpreadAbove(g, h) > 0 PROVE out.imbalance
  <2>1. PICK u : u = RateOf(g) - RateOf(h)
    OBVIOUS
  <2>2. g # h
    <3>1. SUFFICES ASSUME g = h PROVE FALSE
      OBVIOUS
    <3>2. PICK d, c, e \in Int : d = g.distributed /\ c = g.base /\ c > 0 /\ e = input.tolerance /\ e >= 0
      <4>1. input.tolerance \in Int /\ input.tolerance >= 0
        BY <1>1
      <4>2. g \in [base: Int, distributed: Int] /\ g.base > 0
        BY <1>9
      <4>3. g.distributed \in Int /\ g.base \in Int
        BY <4>2
      <4> QED
        BY <4>1, <4>2, <4>3
    <3>3. SpreadAbove(g, h) = 10 * (d * c - d * c) - e * c * c
      BY <3>1, <3>2 DEF SpreadAbove
    <3>4. e * c * c >= 0
      <4>1. PICK i, j \in Nat : i = e /\ j = c
        BY <3>2
      <4>2. i * j * j \in Nat
        OBVIOUS
      <4> QED
        BY <4>1, <4>2
    <3>5. PICK i, j \in Int : i = d * c /\ j = e * c * c
      OBVIOUS
    <3> QED
      BY <1>21, <3>3, <3>4, <3>5
  <2>3. u \in Nat /\ u > theta /\ 2 * (TenTo[Digits] * (u - theta)) > 10 * u
    BY <1>1, <1>9, <1>17, <1>21, <2>1, <2>2, RatesAreApart
  <2>4. u <= s
    BY <1>15, <2>1
  <2>5. a # b
    BY <1>19, <2>3, <2>4
  <2>6. Quotient(s, One) \in Nat
    <3>1. PICK one \in Nat : one = One /\ one > 0
      <4>1. One \in Nat /\ One >= 1000
        BY PowersOfPlaces
      <4> QED
        BY <4>1
    <3>2. 1 \in 0..Places
      BY PlacesAre
    <3>3. s * TenTo[1] <= TenTo[Digits] * one - 1
      BY <1>20, <2>5, <3>1
    <3>4. PICK q : q = Quotient(s, one)
      OBVIOUS
    <3> QED
      BY <3>1, <3>2, <3>3, <3>4, QuotientTight
  <2>7. ~(Quotient(s, One) <= theta)
    <3>1. SUFFICES ASSUME Quotient(s, One) <= theta PROVE FALSE
      OBVIOUS
    <3>2. 2 * (TenTo[Digits] * (u - theta)) <= 10 * u
      BY <1>20, <2>3, <2>4, <2>5, <3>1, RoundedDown
    <3>3. PICK z \in Int : z = TenTo[Digits] * (u - theta)
      <4>1. TenTo[Digits] \in Nat /\ u - theta \in Int
        BY <2>3, PowersOfPlaces
      <4>2. TenTo[Digits] * (u - theta) \in Int
        BY <4>1
      <4> QED
        BY <4>2
    <3> QED
      BY <2>3, <3>2, <3>3
  <2> QED
    BY <1>16, <1>18, <2>6, <2>7
<1>22. ASSUME out.imbalance PROVE SpreadAbove(a, b) >= 0
  <2>1. spread > theta
    BY <1>18, <1>22
  <2>2. a # b
    BY <1>19, <2>1
  <2>3. ~(SpreadAbove(a, b) < 0)
    <3>1. SUFFICES ASSUME SpreadAbove(a, b) < 0 PROVE FALSE
      OBVIOUS
    <3>2. s <= theta
      BY <1>1, <1>9, <1>15, <1>17, <2>2, <3>1, RatesAreApart
    <3>3. spread \in Nat /\ spread <= theta
      BY <1>1, <1>16, <1>17, <1>20, <2>2, <3>2, ToleratedStays
    <3> QED
      BY <2>1, <3>3
  <2>4. SpreadAbove(a, b) \in Int
    <3>1. PICK d, c, e, f, k \in Int : /\ d = a.distributed /\ c = a.base /\ e = b.distributed
                                        /\ f = b.base /\ k = input.tolerance
      BY <1>1, <1>9
    <3>2. 10 * (d * f - e * c) - k * c * f \in Int
      OBVIOUS
    <3> QED
      BY <3>1, <3>2 DEF SpreadAbove
  <2> QED
    BY <2>3, <2>4
<1> QED
  BY <1>21, <1>22

(* Every answer is the one of the exact numbers, for any amounts: besides  *)
(* the decisions above, a spread is reported when two rates of generations *)
(* that can be told apart are further apart than tolerated                 *)
(* (analyzeIntergenerationalEquity), two amounts match when they are equal *)
(* (reconcileAmounts), a minimum is not above an average                   *)
(* (calculateWeightedParticipationBase), and a loss is borne in proportion *)
(* to the capitals, to the next unit (splitUnits).                         *)
THEOREM AnswersStayExact == CalculationsSpec => []AnswersAreExact
<1>1. Computed => AnswersAreExact
  <2> SUFFICES ASSUME Computed PROVE AnswersAreExact
    OBVIOUS
  <2>1. ASSUME Done("equity"), NEW all, all = Range(input.generations),
               \A g, h \in all : g # h => ToldApart(g, h)
        PROVE  /\ (\E g, h \in all : SpreadAbove(g, h) > 0) => output.imbalance
               /\ output.imbalance => \E g, h \in all : SpreadAbove(g, h) >= 0
    <3>1. output = AnalyzeIntergenerationalEquity(input)
      BY <2>1, DoneIs, ResultIs
    <3>2. input \in Inputs /\ input.of = "equity" /\ output # Refused
      BY <2>1, DoneIs
    <3> QED
      BY <2>1, <3>1, <3>2, EquityIsExact
  <2>2. ASSUME Done("reconcile"),
               NEW places, places = input.scale + Len(input.subledger.fraction) + Len(input.ledger.fraction)
        PROVE  /\ output.state = "MATCHED"
                    <=> Exact(input.subledger, places) = Exact(input.ledger, places)
               /\ Exact(output.difference, places)
                    = Exact(input.subledger, places) - Exact(input.ledger, places)
    <3>1. output = ReconcileAmounts(input)
      BY <2>2, DoneIs, ResultIs
    <3>2. input \in Inputs /\ input.of = "reconcile" /\ output # Refused
      BY <2>2, DoneIs
    <3> QED
      BY <2>2, <3>1, <3>2, ReconcilesExactly
  <2>3. ASSUME Done("base")
        PROVE  WeightedBasis(input, "MINIMUM_DAILY_BALANCE") <= WeightedBasis(input, "AVERAGE_DAILY_BALANCE")
    <3>1. output = CalculateWeightedParticipationBase(input)
      BY <2>3, DoneIs, ResultIs
    <3>2. input \in Inputs /\ input.of = "base" /\ output # Refused
      BY <2>3, DoneIs
    <3> QED
      BY <3>1, <3>2, BaseIsOrdered
  <2>4. ASSUME Done("musharaka"), input.result < 0, input.cause \notin BankLiabilityCauses
        PROVE  Quota(input.result, <<input.bankCapital, input.partnerCapital>>,
                     <<output.bank, output.partner>>)
    <3>1. output = AllocateMusharakaResult(input)
      BY <2>4, DoneIs, ResultIs
    <3>2. input \in Inputs /\ input.of = "musharaka" /\ output \notin {Refused, Broken, Crashed}
      BY <2>4, DoneIs
    <3> QED
      BY <2>4, <3>1, <3>2, MusharakaIsFair
  <2> QED
    BY <2>1, <2>2, <2>3, <2>4, DecisionsAreRight DEF AnswersAreExact
<1> QED
  BY <1>1, CalculationsAnswer, PTL

-----------------------------------------------------------------------------
(* Products: the people, rows, histories and commands that requests make.  *)

(* The people who create products and move them.                           *)
ProductActors == {r.actor : r \in Creations \cup Transits}
(* The statuses of a product.                                              *)
ProductStatuses == {"DRAFT", "VALIDATED", "PUBLISHED", "SUSPENDED", "CLOSED"}
(* The rows of products.                                                   *)
ProductRows == [status : ProductStatuses, validator : SUBSET ProductActors]
(* The rows of the transitions.                                            *)
HistoryRows == [product : Catalogue, from : ProductStatuses, to : ProductStatuses, actor : ProductActors, day : Int]
(* What a transition remembers between reading and saving.                 *)
ProductTransitions == [at : {"transition"}, product : Catalogue, request : Transits, read : ProductRows]

(* The shapes of the tables.                                               *)
ProductTablesAreTyped ==
  /\ product \in [Catalogue -> SUBSET ProductRows]
  /\ history \in Seq(HistoryRows)
  /\ IsFiniteSet(commands)
  /\ DOMAIN command = ProductSessions
  /\ \A s \in ProductSessions : command[s].at = "transition" => command[s] \in ProductTransitions
  /\ today \in Int

(* The life of a product, as rows, a history and references have it.       *)
LifeIn(p, h) == {i \in DOMAIN h : h[i].product = p}

(* A product has an effective reference of every required kind on a day.   *)
IsEffective(p, day, refs) ==
  \A k \in RequiredKinds : \E a \in refs : a.product = p /\ a.kind = k /\ Effective(a.reference, day)

(* A step goes on from the last one along the workflow.                    *)
Follows(step, last) ==
  /\ step.from = last.to
  /\ \E a \in DOMAIN Steps : step.from \in Steps[a].from /\ step.to = Steps[a].to

(* What a step says about the row that the product has now.                *)
StepIsRight(p, row, step, refs) ==
  /\ step.to = "VALIDATED" => row.validator = {step.actor}
  /\ step.from = "VALIDATED" => row.validator # {step.actor} /\ p \in Complete
  /\ step.to = "PUBLISHED" => IsEffective(p, step.day, refs)
  /\ row.status = "DRAFT" => step.to = "DRAFT" /\ step.from = "DRAFT"

(* The history of a product is the life of its row.                        *)
IsLife(p, rows, h, refs) ==
  /\ rows = {} <=> LifeIn(p, h) = {}
  /\ \A row, other \in rows : row = other
  /\ \A row \in rows : \A i \in LifeIn(p, h) :
       /\ (\A j \in LifeIn(p, h) : j <= i) => h[i].to = row.status
       /\ \A j \in LifeIn(p, h) : j < i /\ (\A k \in LifeIn(p, h) : k <= j \/ i <= k) => Follows(h[i], h[j])
       /\ StepIsRight(p, row, h[i], refs)

(* Every product's is.                                                     *)
LivesAreLegal == \A p \in Catalogue : IsLife(p, product[p], history, associated)

(* Every step has a command of its own.                                    *)
StepsHaveCommands ==
  \A p \in Catalogue : Cardinality({c \in commands : c.product = p}) = Cardinality(LifeIn(p, history))

(* What a transition has read: a status that was never left, or the last   *)
(* validator.                                                              *)
ReadIsSound(c, rows) ==
  /\ Accepts(c.read, c.product, c.request)
  /\ rows # {}
  /\ c.read.status # "DRAFT" => \A row \in rows : row.status # "DRAFT" /\ row.validator = c.read.validator

(* Every transition under way has read such a row.                         *)
ReadingsAreSound ==
  \A s \in ProductSessions : command[s].at = "transition" => ReadIsSound(command[s], product[command[s].product])

(* The inductive invariant of products.                                    *)
ProductsInv ==
  /\ ProductTablesAreTyped /\ LivesAreLegal /\ StepsHaveCommands /\ ReadingsAreSound
  /\ ArbitrationsKeepPriority

(* The actions and the statuses they lead to.                              *)
LEMMA StepsAre ==
  ASSUME NEW r \in Transits
  PROVE  /\ r.action \in DOMAIN Steps /\ Steps[r.action].to \in ProductStatuses \ {"DRAFT"}
         /\ \A s \in Steps[r.action].from : s \in ProductStatuses /\ (s = "DRAFT" <=> r.action = "VALIDATE")
         /\ \A s \in Steps[r.action].from : s = "VALIDATED" <=> r.action = "PUBLISH"
         /\ Steps[r.action].to = "VALIDATED" <=> r.action = "VALIDATE"
<1>1. r.action \in {"VALIDATE", "PUBLISH", "SUSPEND", "RESUME", "CLOSE"}
  BY ProductsAssumption
<1>2. CASE r.action = "VALIDATE"
  BY <1>2 DEF Steps, ProductStatuses
<1>3. CASE r.action = "PUBLISH"
  BY <1>3 DEF Steps, ProductStatuses
<1>4. CASE r.action = "SUSPEND"
  BY <1>4 DEF Steps, ProductStatuses
<1>5. CASE r.action = "RESUME"
  BY <1>5 DEF Steps, ProductStatuses
<1>6. CASE r.action = "CLOSE"
  BY <1>6 DEF Steps, ProductStatuses
<1> QED
  BY <1>1, <1>2, <1>3, <1>4, <1>5, <1>6

(* A history h with the step e at its end, for the life of p.              *)
Grown(p, h, e, g, n) ==
  /\ g \in Seq(HistoryRows) /\ n \in Nat /\ g[n] = e
  /\ IF e.product = p THEN LifeIn(p, g) = LifeIn(p, h) \cup {n} ELSE LifeIn(p, g) = LifeIn(p, h)
  /\ \A i \in LifeIn(p, h) : i \in Int /\ i < n /\ g[i] = h[i]

(* A step that is appended.                                                *)
LEMMA HistoryGrows ==
  ASSUME NEW p, NEW h \in Seq(HistoryRows), NEW e \in HistoryRows, NEW g, g = Append(h, e)
  PROVE  Grown(p, h, e, g, Len(h) + 1)
<1>1. PICK n \in Nat : n = Len(h) /\ DOMAIN h = 1..n
  OBVIOUS
<1>2. g \in Seq(HistoryRows) /\ Len(g) = n + 1
  BY <1>1
<1>3. DOMAIN g = 1..(n + 1) /\ g[n + 1] = e /\ \A i \in 1..n : g[i] = h[i]
  BY <1>1
<1>4. 1..(n + 1) = (1..n) \cup {n + 1} /\ n + 1 \notin 1..n
  OBVIOUS
<1>5. ASSUME e.product # p PROVE LifeIn(p, g) = LifeIn(p, h)
  BY <1>1, <1>3, <1>4, <1>5 DEF LifeIn
<1>6. ASSUME e.product = p PROVE LifeIn(p, g) = LifeIn(p, h) \cup {n + 1}
  BY <1>1, <1>3, <1>4, <1>6 DEF LifeIn
<1>7. \A i \in LifeIn(p, h) : i \in 1..n /\ i < n + 1 /\ g[i] = h[i]
  BY <1>1, <1>3 DEF LifeIn
<1> QED
  BY <1>1, <1>2, <1>3, <1>4, <1>5, <1>6, <1>7 DEF Grown

(* A step of another product.                                              *)
LEMMA OtherLife ==
  ASSUME NEW h \in Seq(HistoryRows), NEW e \in HistoryRows, NEW p, e.product # p, NEW rows, NEW refs,
         IsLife(p, rows, h, refs)
  PROVE  IsLife(p, rows, Append(h, e), refs)
<1>1. PICK g : g = Append(h, e)
  OBVIOUS
<1>2. LifeIn(p, g) = LifeIn(p, h) /\ \A i \in LifeIn(p, h) : g[i] = h[i]
  <2>1. Grown(p, h, e, g, Len(h) + 1)
    BY <1>1, HistoryGrows
  <2> QED
    BY <2>1 DEF Grown
<1>3. IsLife(p, rows, g, refs)
  BY <1>2 DEF IsLife
<1> QED
  BY <1>1, <1>3

(* More references.                                                        *)
LEMMA LifeKept ==
  ASSUME NEW p, NEW rows, NEW h, NEW refs, NEW more, refs \subseteq more, IsLife(p, rows, h, refs)
  PROVE  IsLife(p, rows, h, more)
<1>1. ASSUME NEW day, IsEffective(p, day, refs) PROVE IsEffective(p, day, more)
  BY <1>1 DEF IsEffective
<1>2. ASSUME NEW row, NEW step, StepIsRight(p, row, step, refs) PROVE StepIsRight(p, row, step, more)
  BY <1>1, <1>2 DEF StepIsRight
<1> QED
  BY <1>2 DEF IsLife

(* The first step of a product.                                            *)
LEMMA LifeStarts ==
  ASSUME NEW h \in Seq(HistoryRows), NEW e \in HistoryRows, NEW p, e.product = p,
         NEW refs, LifeIn(p, h) = {}, e.from = "DRAFT", e.to = "DRAFT",
         NEW new, new.status = "DRAFT"
  PROVE  IsLife(p, {new}, Append(h, e), refs)
<1>1. PICK g, n : g = Append(h, e) /\ n = Len(h) + 1
  OBVIOUS
<1>2. Grown(p, h, e, g, n)
  BY <1>1, HistoryGrows
<1>3. g[n] = e /\ LifeIn(p, g) = LifeIn(p, h) \cup {n} /\ n \in Nat
  BY <1>2 DEF Grown
<1>4. LifeIn(p, g) = {n} /\ n \in Int
  BY <1>3
<1>5. StepIsRight(p, new, g[n], refs)
  BY <1>3 DEF StepIsRight
<1>6. IsLife(p, {new}, g, refs)
  BY <1>3, <1>4, <1>5 DEF IsLife
<1> QED
  BY <1>1, <1>6

(* A step e of p, judged on a row, that leads to the row new.              *)
GoesOn(p, row, e, new, refs) ==
  /\ e.product = p /\ e.from = row.status /\ new.status = e.to /\ new.status # "DRAFT"
  /\ \E a \in DOMAIN Steps : row.status \in Steps[a].from /\ e.to = Steps[a].to
  /\ row.status # "DRAFT" => new.validator = row.validator /\ e.to # "VALIDATED"
  /\ row.status = "DRAFT" => e.to = "VALIDATED" /\ new.validator = {e.actor}
  /\ e.from = "VALIDATED" => new.validator # {e.actor} /\ p \in Complete
  /\ e.to = "PUBLISHED" => IsEffective(p, e.day, refs)

(* A step that was accepted follows the last one.                          *)
LEMMA LifeGoesOn ==
  ASSUME NEW h \in Seq(HistoryRows), NEW e \in HistoryRows, NEW p,
         NEW refs, NEW rows, NEW row \in rows, IsLife(p, rows, h, refs),
         NEW new, GoesOn(p, row, e, new, refs)
  PROVE  IsLife(p, {new}, Append(h, e), refs)
<1>0. PICK a \in DOMAIN Steps :
        /\ e.product = p /\ e.from = row.status /\ new.status = e.to /\ new.status # "DRAFT"
        /\ row.status \in Steps[a].from /\ e.to = Steps[a].to
        /\ row.status # "DRAFT" => new.validator = row.validator /\ e.to # "VALIDATED"
        /\ row.status = "DRAFT" => e.to = "VALIDATED" /\ new.validator = {e.actor}
        /\ e.from = "VALIDATED" => new.validator # {e.actor} /\ p \in Complete
        /\ e.to = "PUBLISHED" => IsEffective(p, e.day, refs)
  BY DEF GoesOn
<1>1. PICK g, n, life : g = Append(h, e) /\ n = Len(h) + 1 /\ life = LifeIn(p, h)
  OBVIOUS
<1>2. Grown(p, h, e, g, n)
  BY <1>1, HistoryGrows
<1>3. LifeIn(p, g) = life \cup {n} /\ g[n] = e /\ n \in Nat
  BY <1>0, <1>1, <1>2 DEF Grown
<1>4. \A i \in life : i < n /\ g[i] = h[i]
  BY <1>1, <1>2 DEF Grown
<1>5. /\ \A i \in life : (\A j \in life : j <= i) => h[i].to = row.status
      /\ \A i, j \in life : j < i /\ (\A k \in life : k <= j \/ i <= k) => Follows(h[i], h[j])
      /\ \A i \in life : StepIsRight(p, row, h[i], refs)
  BY <1>1 DEF IsLife
<1>6. n \in Int /\ \A i \in life : i \in Int /\ i < n
  BY <1>1, <1>2 DEF Grown
<1>7. StepIsRight(p, new, e, refs)
  <2>1. e.from = "VALIDATED" => e.to # "VALIDATED"
    BY <1>0 DEF Steps
  <2> QED
    BY <1>0, <2>1 DEF StepIsRight, Steps
<1>8. ASSUME NEW i \in life PROVE StepIsRight(p, new, h[i], refs)
  BY <1>0, <1>5 DEF StepIsRight
<1>9. ASSUME NEW j \in life, \A k \in life \cup {n} : k <= j \/ n <= k PROVE Follows(e, h[j])
  <2>1. \A k \in life : k <= j
    BY <1>6, <1>9
  <2>2. h[j].to = row.status
    BY <1>5, <2>1
  <2> QED
    BY <1>0, <2>2 DEF Follows
<1>10. ASSUME NEW i \in life, NEW j \in life, j < i, \A k \in life \cup {n} : k <= j \/ i <= k
       PROVE  Follows(h[i], h[j])
  BY <1>5, <1>10
<1>11. \A i \in life \cup {n} : StepIsRight(p, new, g[i], refs)
  BY <1>3, <1>4, <1>7, <1>8
<1>12. ASSUME NEW i \in life \cup {n}, \A j \in life \cup {n} : j <= i PROVE g[i].to = new.status
  <2>1. n <= i
    BY <1>12
  <2>2. i = n
    BY <1>6, <2>1
  <2> QED
    BY <1>0, <1>3, <2>2
<1>13. ASSUME NEW i \in life \cup {n}, NEW j \in life \cup {n}, j < i,
              \A k \in life \cup {n} : k <= j \/ i <= k
       PROVE  Follows(g[i], g[j])
  <2>1. j \in life /\ g[j] = h[j]
    BY <1>4, <1>6, <1>13
  <2>2. CASE i = n
    BY <1>3, <1>9, <1>13, <2>1, <2>2
  <2>3. CASE i \in life
    BY <1>4, <1>10, <1>13, <2>1, <2>3
  <2> QED
    BY <2>2, <2>3
<1>14. IsLife(p, {new}, g, refs)
  BY <1>3, <1>11, <1>12, <1>13 DEF IsLife
<1> QED
  BY <1>1, <1>14

(* Readings stand while the products that they read of do.                 *)
LEMMA ReadingsKept ==
  ASSUME ProductTablesAreTyped, ReadingsAreSound, UNCHANGED product,
         DOMAIN command' = ProductSessions,
         \A s \in ProductSessions : command'[s] = command[s] \/ command'[s].at # "transition"
  PROVE  /\ \A s \in ProductSessions : command'[s].at = "transition" => command'[s] \in ProductTransitions
         /\ ReadingsAreSound'
<1>1. ASSUME NEW s \in ProductSessions, command'[s].at = "transition"
      PROVE  command'[s] \in ProductTransitions /\ ReadIsSound(command'[s], product'[command'[s].product])
  <2>1. command'[s] = command[s]
    BY <1>1
  <2>2. PICK c : c = command[s] /\ c \in ProductTransitions /\ ReadIsSound(c, product[c.product])
    BY <1>1, <2>1 DEF ProductTablesAreTyped, ReadingsAreSound
  <2> QED
    BY <2>1, <2>2
<1> QED
  BY <1>1 DEF ReadingsAreSound

(* A step that leaves the products, their histories and commands alone.    *)
LEMMA ProductsKept ==
  ASSUME ProductsInv, UNCHANGED productTables, associated \subseteq associated', today' \in Int,
         DOMAIN command' = ProductSessions, ArbitrationsKeepPriority',
         \A s \in ProductSessions : command'[s] = command[s] \/ command'[s].at # "transition"
  PROVE  ProductsInv'
<1>1. UNCHANGED product /\ UNCHANGED history /\ UNCHANGED commands
  BY DEF productTables
<1>2. ProductTablesAreTyped /\ ReadingsAreSound /\ LivesAreLegal /\ StepsHaveCommands
  BY DEF ProductsInv
<1>3. /\ \A s \in ProductSessions : command'[s].at = "transition" => command'[s] \in ProductTransitions
      /\ ReadingsAreSound'
  BY <1>1, <1>2, ReadingsKept
<1>4. ProductTablesAreTyped'
  BY <1>1, <1>2, <1>3 DEF ProductTablesAreTyped
<1>5. LivesAreLegal'
  BY <1>1, <1>2, LifeKept DEF LivesAreLegal
<1>6. StepsHaveCommands'
  BY <1>1, <1>2 DEF StepsHaveCommands
<1> QED
  BY <1>3, <1>4, <1>5, <1>6 DEF ProductsInv

(* Arbitrations stand while the references of products do.                 *)
LEMMA ArbitrationsStay ==
  ASSUME ArbitrationsKeepPriority, UNCHANGED arbitrations, associated \subseteq associated'
  PROVE  ArbitrationsKeepPriority'
BY DEF ArbitrationsKeepPriority

(* A step and its command, in one transaction.                             *)
Stepped(p, e, c) ==
  /\ history' = Append(history, e) /\ e \in HistoryRows /\ e.product = p
  /\ commands' = commands \cup {c} /\ c.product = p /\ ~\E d \in commands : d.key = c.key
  /\ UNCHANGED <<associated, arbitrations, today>>

(* Such a step keeps the commands counted and the other products' lives.   *)
LEMMA SteppedCommands ==
  ASSUME ProductTablesAreTyped, StepsHaveCommands, NEW p \in Catalogue, NEW e, NEW c, Stepped(p, e, c)
  PROVE  /\ StepsHaveCommands' /\ IsFiniteSet(commands') /\ history' \in Seq(HistoryRows)
         /\ \A q \in Catalogue \ {p} : \A rows, refs : IsLife(q, rows, history, refs) => IsLife(q, rows, history', refs)
<1>1. history \in Seq(HistoryRows) /\ IsFiniteSet(commands) /\ e \in HistoryRows /\ history' = Append(history, e)
      /\ e.product = p /\ c.product = p /\ commands' = commands \cup {c} /\ c \notin commands
  BY DEF ProductTablesAreTyped, Stepped
<1>2. PICK h, g, n : h = history /\ g = history' /\ n = Len(h) + 1 /\ g = Append(h, e) /\ h \in Seq(HistoryRows)
  BY <1>1
<1>3. ASSUME NEW q \in Catalogue PROVE Grown(q, h, e, g, n)
  BY <1>1, <1>2, HistoryGrows
<1>4. IsFiniteSet(commands')
  BY <1>1, FS_AddElement
<1>5. \A q \in Catalogue : Cardinality({d \in commands : d.product = q}) = Cardinality(LifeIn(q, h))
  BY <1>2 DEF StepsHaveCommands
<1>6. ASSUME NEW q \in Catalogue
      PROVE  Cardinality({d \in commands' : d.product = q}) = Cardinality(LifeIn(q, g))
  <2>1. PICK A, B, L : A = {d \in commands : d.product = q} /\ B = {d \in commands' : d.product = q} /\ L = LifeIn(q, h)
    OBVIOUS
  <2>2. Grown(q, h, e, g, n) /\ Cardinality(A) = Cardinality(L)
    BY <1>3, <1>5, <2>1
  <2>3. CASE q # p
    <3>1. B = A
      BY <1>1, <2>1, <2>3
    <3>2. LifeIn(q, g) = L
      BY <1>1, <2>1, <2>2, <2>3 DEF Grown
    <3> QED
      BY <2>1, <2>2, <3>1, <3>2
  <2>4. CASE q = p
    <3>1. B = A \cup {c} /\ c \notin A
      BY <1>1, <2>1, <2>4
    <3>2. LifeIn(q, g) = L \cup {n} /\ n \notin L
      BY <1>1, <2>1, <2>2, <2>4 DEF Grown
    <3>3. A \subseteq commands
      BY <2>1
    <3>4. IsFiniteSet(A)
      BY <1>1, <3>3, FS_Subset
    <3>5. IsFiniteSet(L)
      <4>1. IsFiniteSet(1..Len(h))
        BY <1>2, FS_Interval
      <4>2. L \subseteq 1..Len(h)
        BY <1>2, <2>1 DEF LifeIn
      <4> QED
        BY <4>1, <4>2, FS_Subset
    <3>6. Cardinality(B) = Cardinality(A) + 1
      BY <3>1, <3>4, FS_AddElement
    <3>7. Cardinality(LifeIn(q, g)) = Cardinality(L) + 1
      BY <3>2, <3>5, FS_AddElement
    <3> QED
      BY <2>1, <2>2, <3>6, <3>7
  <2> QED
    BY <2>3, <2>4
<1>7. StepsHaveCommands'
  BY <1>2, <1>6 DEF StepsHaveCommands
<1>8. ASSUME NEW q \in Catalogue \ {p}, NEW rows, NEW refs, IsLife(q, rows, h, refs) PROVE IsLife(q, rows, g, refs)
  <2>1. IsLife(q, rows, Append(h, e), refs)
    BY <1>1, <1>2, <1>8, OtherLife
  <2> QED
    BY <1>2, <2>1
<1>9. g \in Seq(HistoryRows)
  BY <1>1, <1>2
<1> QED
  BY <1>2, <1>4, <1>7, <1>8, <1>9

(* Creating a product.                                                     *)
LEMMA CreateProductKeeps ==
  ASSUME ProductsInv, NEW r \in Creations, CreateProduct(r.product, r.actor, r.key)
  PROVE  ProductsInv'
<1>1. PICK p, row, e, c : /\ p = r.product /\ row = [status |-> "DRAFT", validator |-> {}]
         /\ e = [product |-> p, from |-> "DRAFT", to |-> "DRAFT", actor |-> r.actor, day |-> today]
         /\ c = [key |-> r.key, request |-> [action |-> "CREATE", actor |-> r.actor], product |-> p]
  OBVIOUS
<1>2. /\ ProductTablesAreTyped /\ ReadingsAreSound /\ LivesAreLegal /\ StepsHaveCommands
      /\ ArbitrationsKeepPriority
  BY DEF ProductsInv
<1>3. p \in Catalogue /\ r.actor \in ProductActors
  BY <1>1, ProductsAssumption DEF ProductActors
<1>4. row \in ProductRows /\ e \in HistoryRows /\ row.status = "DRAFT" /\ e.from = "DRAFT" /\ e.to = "DRAFT"
  BY <1>1, <1>2, <1>3 DEF ProductRows, HistoryRows, ProductStatuses, ProductTablesAreTyped
<1>5. Stepped(p, e, c)
  BY <1>1, <1>4 DEF Stepped, CreateProduct, Command, referenceTables
<1>6. /\ StepsHaveCommands' /\ IsFiniteSet(commands') /\ history' \in Seq(HistoryRows)
      /\ \A q \in Catalogue \ {p} : \A rows, refs : IsLife(q, rows, history, refs) => IsLife(q, rows, history', refs)
  BY <1>2, <1>3, <1>5, SteppedCommands
<1>7. /\ product[p] = {} /\ product' = [product EXCEPT ![p] = {row}] /\ UNCHANGED command
      /\ UNCHANGED <<associated, arbitrations, today>> /\ history' = Append(history, e)
  BY <1>1, <1>5 DEF CreateProduct, Stepped
<1>8. product' \in [Catalogue -> SUBSET ProductRows] /\ product'[p] = {row}
      /\ \A q \in Catalogue \ {p} : product'[q] = product[q]
  BY <1>2, <1>3, <1>4, <1>7 DEF ProductTablesAreTyped
<1>9. ProductTablesAreTyped'
  BY <1>2, <1>6, <1>7, <1>8 DEF ProductTablesAreTyped
<1>10. IsLife(p, {row}, history', associated)
  <2>1. LifeIn(p, history) = {}
    BY <1>2, <1>3, <1>7 DEF LivesAreLegal, IsLife
  <2>2. history \in Seq(HistoryRows)
    BY <1>2 DEF ProductTablesAreTyped
  <2>3. IsLife(p, {row}, Append(history, e), associated)
    BY <1>1, <1>4, <2>1, <2>2, LifeStarts
  <2> QED
    BY <1>7, <2>3
<1>11. LivesAreLegal'
  BY <1>2, <1>6, <1>7, <1>8, <1>10 DEF LivesAreLegal
<1>12. ReadingsAreSound'
  <2>1. SUFFICES ASSUME NEW s \in ProductSessions, command[s].at = "transition"
                 PROVE  ReadIsSound(command[s], product'[command[s].product])
    BY <1>7 DEF ReadingsAreSound
  <2>2. PICK x : x = command[s] /\ x \in ProductTransitions /\ ReadIsSound(x, product[x.product])
    BY <1>2, <2>1 DEF ProductTablesAreTyped, ReadingsAreSound
  <2>3. x.product # p /\ x.product \in Catalogue
    BY <1>7, <2>2 DEF ReadIsSound, ProductTransitions
  <2> QED
    BY <1>8, <2>2, <2>3
<1>13. ArbitrationsKeepPriority'
  BY <1>2, <1>7, ArbitrationsStay
<1> QED
  BY <1>6, <1>9, <1>11, <1>12, <1>13 DEF ProductsInv

(* Reading a product before a transition.                                  *)
LEMMA ReadProductKeeps ==
  ASSUME ProductsInv, NEW s \in ProductSessions, NEW r \in Transits, ReadProduct(s, r.product, r)
  PROVE  ProductsInv'
<1>1. PICK p, row, c : /\ p = r.product /\ row \in product[p] /\ Accepts(row, p, r)
                       /\ c = [at |-> "transition", product |-> p, request |-> r, read |-> row]
                       /\ command' = [command EXCEPT ![s] = c]
  BY DEF ReadProduct
<1>2. /\ ProductTablesAreTyped /\ ReadingsAreSound /\ LivesAreLegal /\ StepsHaveCommands
      /\ ArbitrationsKeepPriority
  BY DEF ProductsInv
<1>3. /\ UNCHANGED product /\ UNCHANGED history /\ UNCHANGED commands /\ UNCHANGED associated
      /\ UNCHANGED arbitrations /\ UNCHANGED today
  BY DEF ReadProduct, productTables, referenceTables
<1>4. p \in Catalogue /\ row \in ProductRows /\ \A other \in product[p] : other = row
  <2>1. p \in Catalogue
    BY <1>1, ProductsAssumption
  <2>2. product[p] \subseteq ProductRows
    BY <1>2, <2>1 DEF ProductTablesAreTyped
  <2>3. IsLife(p, product[p], history, associated)
    BY <1>2, <2>1 DEF LivesAreLegal
  <2> QED
    BY <1>1, <2>1, <2>2, <2>3 DEF IsLife
<1>5. c \in ProductTransitions /\ c.product = p /\ c.read = row /\ c.request = r
  BY <1>1, <1>4 DEF ProductTransitions
<1>6. ReadIsSound(c, product[p])
  BY <1>1, <1>4, <1>5 DEF ReadIsSound
<1>7. /\ DOMAIN command' = ProductSessions /\ command'[s] = c
      /\ \A t \in ProductSessions \ {s} : command'[t] = command[t]
  BY <1>1, <1>2 DEF ProductTablesAreTyped
<1>8. ProductTablesAreTyped'
  BY <1>2, <1>3, <1>5, <1>7 DEF ProductTablesAreTyped
<1>9. ReadingsAreSound'
  BY <1>2, <1>3, <1>5, <1>6, <1>7 DEF ReadingsAreSound
<1>10. LivesAreLegal' /\ StepsHaveCommands' /\ ArbitrationsKeepPriority'
  BY <1>2, <1>3 DEF LivesAreLegal, StepsHaveCommands, ArbitrationsKeepPriority
<1> QED
  BY <1>8, <1>9, <1>10 DEF ProductsInv

(* A command that ends keeps the readings of the others.                   *)
LEMMA RestedIs ==
  ASSUME ProductTablesAreTyped, NEW s \in ProductSessions, Rested(s)
  PROVE  /\ DOMAIN command' = ProductSessions /\ command'[s].at = "waiting"
         /\ \A t \in ProductSessions \ {s} : command'[t] = command[t]
<1>1. DOMAIN command = ProductSessions
  BY DEF ProductTablesAreTyped
<1>2. command' = [command EXCEPT ![s] = Waiting]
  BY DEF Rested
<1> QED
  BY <1>1, <1>2 DEF Waiting

(* The row that a transition saves.                                        *)
SavedRow(c) ==
  [status |-> Steps[c.request.action].to,
   validator |-> IF c.request.action = "VALIDATE" THEN {c.request.actor} ELSE c.read.validator]
(* The step that it appends.                                               *)
SavedStep(c, day) ==
  [product |-> c.product, from |-> c.read.status, to |-> Steps[c.request.action].to,
   actor |-> c.request.actor, day |-> day]

(* A transition that was judged on the row as it was read is legal on the  *)
(* row as it is, when the statuses agree.                                  *)
LEMMA SavedIsLegal ==
  ASSUME ProductsInv, NEW c \in ProductTransitions, ReadIsSound(c, product[c.product]),
         RowUnchanged(c.product, c.read),
         Steps[c.request.action].to = "PUBLISHED" => Publishable(c.product, today)
  PROVE  /\ SavedRow(c) \in ProductRows /\ SavedStep(c, today) \in HistoryRows
         /\ IsLife(c.product, {SavedRow(c)}, Append(history, SavedStep(c, today)), associated)
         /\ \A x \in ProductTransitions : ReadIsSound(x, product[c.product]) /\ x.product = c.product
              => ReadIsSound(x, {SavedRow(c)})
<1>0. PICK r, to, row, e : /\ r = c.request /\ to = Steps[r.action].to
                           /\ row = SavedRow(c) /\ e = SavedStep(c, today)
                           /\ row = [status |-> to, validator |-> IF r.action = "VALIDATE" THEN {r.actor} ELSE c.read.validator]
                           /\ e = [product |-> c.product, from |-> c.read.status, to |-> to, actor |-> r.actor, day |-> today]
  BY DEF SavedRow, SavedStep
<1>1. /\ ProductTablesAreTyped /\ LivesAreLegal /\ history \in Seq(HistoryRows)
  BY DEF ProductsInv, ProductTablesAreTyped
<1>2. PICK p, read : p = c.product /\ read = c.read /\ p \in Catalogue /\ read \in ProductRows
  BY DEF ProductTransitions
<1>3. r \in Transits /\ r.actor \in ProductActors
  BY <1>0 DEF ProductTransitions, ProductActors
<1>4. PICK old \in product[p] : old.status = read.status
  BY <1>2 DEF RowUnchanged
<1>5. IsLife(p, product[p], history, associated) /\ \A other \in product[p] : other = old
  <2>1. IsLife(p, product[p], history, associated)
    BY <1>1, <1>2 DEF LivesAreLegal
  <2> QED
    BY <1>4, <2>1 DEF IsLife
<1>6. Accepts(read, p, r) /\ (read.status # "DRAFT" => old.status # "DRAFT" /\ old.validator = read.validator)
  BY <1>0, <1>2, <1>4 DEF ReadIsSound
<1>7. PICK a : a = r.action
  OBVIOUS
<1>8. /\ a \in DOMAIN Steps /\ to \in ProductStatuses \ {"DRAFT"} /\ to = Steps[a].to
      /\ read.status \in Steps[a].from /\ (read.status = "DRAFT" <=> a = "VALIDATE")
      /\ (read.status = "VALIDATED" <=> a = "PUBLISH") /\ (to = "VALIDATED" <=> a = "VALIDATE")
  BY <1>0, <1>3, <1>6, <1>7, StepsAre DEF Accepts
<1>9. row \in ProductRows /\ row.status = to
      /\ row.validator = (IF a = "VALIDATE" THEN {r.actor} ELSE read.validator)
  BY <1>0, <1>2, <1>3, <1>7, <1>8 DEF ProductRows
<1>10. /\ e \in HistoryRows /\ e.product = p /\ e.from = old.status /\ e.to = to /\ e.actor = r.actor /\ e.day = today
  BY <1>0, <1>1, <1>2, <1>3, <1>4, <1>8 DEF HistoryRows, ProductRows, ProductTablesAreTyped
<1>11. e.from = "VALIDATED" => row.validator # {e.actor} /\ p \in Complete
  BY <1>4, <1>6, <1>7, <1>8, <1>9, <1>10 DEF Accepts
<1>12. e.to = "PUBLISHED" => IsEffective(p, e.day, associated)
  BY <1>0, <1>2, <1>10 DEF Publishable, IsEffective
<1>13. IsLife(p, {row}, Append(history, e), associated)
  <2>1. old.status \in Steps[a].from /\ e.to = Steps[a].to /\ row.status = e.to /\ row.status # "DRAFT"
    BY <1>4, <1>8, <1>9, <1>10
  <2>2. old.status # "DRAFT" => row.validator = old.validator /\ e.to # "VALIDATED"
    BY <1>4, <1>6, <1>8, <1>9, <1>10
  <2>3. old.status = "DRAFT" => e.to = "VALIDATED" /\ row.validator = {e.actor}
    BY <1>4, <1>8, <1>9, <1>10
  <2> QED
    <3>1. GoesOn(p, old, e, row, associated)
      BY <1>8, <1>10, <1>11, <1>12, <2>1, <2>2, <2>3 DEF GoesOn
    <3>2. history \in Seq(HistoryRows) /\ e \in HistoryRows
      BY <1>1, <1>10
    <3> QED
      BY <1>4, <1>5, <3>1, <3>2, LifeGoesOn
<1>14. ASSUME NEW x \in ProductTransitions, ReadIsSound(x, product[p]), x.product = p
       PROVE  ReadIsSound(x, {row})
  <2>1. x.read.status # "DRAFT" => old.status # "DRAFT" /\ old.validator = x.read.validator
    BY <1>4, <1>14 DEF ReadIsSound
  <2>2. x.read.status # "DRAFT" => row.validator = x.read.validator /\ row.status # "DRAFT"
    BY <1>4, <1>6, <1>8, <1>9, <2>1
  <2> QED
    BY <1>14, <2>2 DEF ReadIsSound
<1> QED
  BY <1>0, <1>2, <1>9, <1>10, <1>13, <1>14

(* Saving a transition.                                                    *)
LEMMA SaveTransitionKeeps ==
  ASSUME ProductsInv, NEW s \in ProductSessions, SaveTransition(s)
  PROVE  ProductsInv'
<1>1. PICK c, r, p, to : /\ c = command[s] /\ r = c.request /\ p = c.product /\ to = Steps[r.action].to
                         /\ c.at = "transition"
  BY DEF SaveTransition
<1>2. /\ ProductTablesAreTyped /\ ReadingsAreSound /\ LivesAreLegal /\ StepsHaveCommands
      /\ ArbitrationsKeepPriority
  BY DEF ProductsInv
<1>3. c \in ProductTransitions /\ ReadIsSound(c, product[p])
  BY <1>1, <1>2 DEF ProductTablesAreTyped, ReadingsAreSound
<1>4. /\ DOMAIN command' = ProductSessions /\ command'[s].at = "waiting"
      /\ \A t \in ProductSessions \ {s} : command'[t] = command[t]
  <2>1. Rested(s)
    BY DEF SaveTransition
  <2> QED
    BY <1>2, <2>1, RestedIs
<1>5. UNCHANGED <<associated, arbitrations, today>>
  BY DEF SaveTransition, referenceTables
<1>6. ArbitrationsKeepPriority'
  BY <1>2, <1>5, ArbitrationsStay
<1>7. CASE UNCHANGED productTables
  <2>1. /\ today' \in Int /\ associated \subseteq associated'
        /\ \A t \in ProductSessions : command'[t] = command[t] \/ command'[t].at # "transition"
    BY <1>2, <1>4, <1>5 DEF ProductTablesAreTyped
  <2> QED
    BY <1>4, <1>6, <1>7, <2>1, ProductsKept
<1>8. PICK row, e, d :
        /\ row = SavedRow(c) /\ e = SavedStep(c, today)
        /\ d = [key |-> r.key, product |-> p, request |-> [action |-> r.action, actor |-> r.actor]]
  OBVIOUS
<1>10. /\ row = [status |-> to, validator |-> IF r.action = "VALIDATE" THEN {r.actor} ELSE c.read.validator]
       /\ e = [product |-> p, from |-> c.read.status, to |-> to, actor |-> r.actor, day |-> today]
       /\ e.product = p
  BY <1>1, <1>8 DEF SavedRow, SavedStep
<1>9. CASE /\ Command(r.key) = {} /\ (to = "PUBLISHED" => Publishable(p, today)) /\ RowUnchanged(p, c.read)
           /\ product' = [product EXCEPT ![p] = {row}] /\ history' = Append(history, e)
           /\ commands' = commands \cup {d}
  <2>1. /\ row \in ProductRows /\ e \in HistoryRows
        /\ IsLife(p, {row}, Append(history, e), associated)
        /\ \A x \in ProductTransitions : ReadIsSound(x, product[p]) /\ x.product = p => ReadIsSound(x, {row})
    <3>1. ReadIsSound(c, product[c.product]) /\ RowUnchanged(c.product, c.read)
      BY <1>1, <1>3, <1>9
    <3>2. Steps[c.request.action].to = "PUBLISHED" => Publishable(c.product, today)
      BY <1>1, <1>9
    <3>3. /\ SavedRow(c) \in ProductRows /\ SavedStep(c, today) \in HistoryRows
          /\ IsLife(c.product, {SavedRow(c)}, Append(history, SavedStep(c, today)), associated)
          /\ \A x \in ProductTransitions : ReadIsSound(x, product[c.product]) /\ x.product = c.product
               => ReadIsSound(x, {SavedRow(c)})
      BY <1>3, <3>1, <3>2, SavedIsLegal
    <3> QED
      BY <1>1, <1>8, <3>3
  <2>2. p \in Catalogue
    BY <1>1, <1>3 DEF ProductTransitions
  <2>3. Stepped(p, e, d)
    BY <1>5, <1>8, <1>9, <1>10, <2>1 DEF Stepped, Command
  <2>4. /\ StepsHaveCommands' /\ IsFiniteSet(commands') /\ history' \in Seq(HistoryRows)
        /\ \A q \in Catalogue \ {p} : \A rows, refs : IsLife(q, rows, history, refs) => IsLife(q, rows, history', refs)
    BY <1>2, <2>2, <2>3, SteppedCommands
  <2>5. product' \in [Catalogue -> SUBSET ProductRows] /\ product'[p] = {row}
        /\ \A q \in Catalogue \ {p} : product'[q] = product[q]
    BY <1>2, <1>9, <2>1, <2>2 DEF ProductTablesAreTyped
  <2>6. ProductTablesAreTyped'
    BY <1>2, <1>4, <1>5, <2>4, <2>5 DEF ProductTablesAreTyped
  <2>7. LivesAreLegal'
    BY <1>2, <1>5, <1>9, <2>1, <2>4, <2>5 DEF LivesAreLegal
  <2>8. ReadingsAreSound'
    <3>1. SUFFICES ASSUME NEW t \in ProductSessions, command'[t].at = "transition"
                   PROVE  ReadIsSound(command'[t], product'[command'[t].product])
      BY DEF ReadingsAreSound
    <3>2. command'[t] = command[t]
      BY <1>4, <3>1
    <3>3. PICK x : x = command[t] /\ x \in ProductTransitions /\ ReadIsSound(x, product[x.product])
      BY <1>2, <3>1, <3>2 DEF ProductTablesAreTyped, ReadingsAreSound
    <3>4. ReadIsSound(x, product'[x.product])
      BY <2>1, <2>5, <3>3 DEF ProductTransitions
    <3> QED
      BY <3>2, <3>3, <3>4
  <2> QED
    BY <1>6, <2>4, <2>6, <2>7, <2>8 DEF ProductsInv
<1> QED
  BY <1>1, <1>7, <1>8, <1>9, <1>10 DEF SaveTransition

(* The steps of the terms read the products only.                          *)
LEMMA TermsStepKeeps ==
  ASSUME ProductsInv, UNCHANGED productTables, UNCHANGED referenceTables, UNCHANGED today,
         \/ UNCHANGED command
         \/ \E s \in ProductSessions : \E c : c.at # "transition" /\ command' = [command EXCEPT ![s] = c]
  PROVE  ProductsInv'
<1>1. ProductTablesAreTyped /\ ArbitrationsKeepPriority /\ UNCHANGED <<associated, arbitrations, today>>
  BY DEF ProductsInv, referenceTables
<1>2. DOMAIN command = ProductSessions /\ today \in Int
  BY <1>1 DEF ProductTablesAreTyped
<1>3. ArbitrationsKeepPriority'
  BY <1>1, ArbitrationsStay
<1>4. /\ DOMAIN command' = ProductSessions
      /\ \A s \in ProductSessions : command'[s] = command[s] \/ command'[s].at # "transition"
  <2>1. CASE UNCHANGED command
    BY <1>2, <2>1
  <2>2. ASSUME NEW s \in ProductSessions, NEW c, c.at # "transition", command' = [command EXCEPT ![s] = c]
        PROVE  /\ DOMAIN command' = ProductSessions
               /\ \A t \in ProductSessions : command'[t] = command[t] \/ command'[t].at # "transition"
    BY <1>2, <2>2
  <2> QED
    BY <2>1, <2>2
<1> QED
  BY <1>1, <1>2, <1>3, <1>4, ProductsKept

(* Associating a reference.                                                *)
LEMMA AssociateKeeps ==
  ASSUME ProductsInv, NEW p, NEW reference, NEW kind, Associate(p, reference, kind)
  PROVE  ProductsInv'
<1>1. /\ UNCHANGED productTables /\ UNCHANGED command /\ UNCHANGED today /\ UNCHANGED arbitrations
      /\ associated \subseteq associated'
  BY DEF Associate
<1>2. ProductTablesAreTyped /\ ArbitrationsKeepPriority
  BY DEF ProductsInv
<1>3. DOMAIN command' = ProductSessions /\ today' \in Int
  BY <1>1, <1>2 DEF ProductTablesAreTyped
<1>4. ArbitrationsKeepPriority'
  BY <1>1, <1>2, ArbitrationsStay
<1> QED
  BY <1>1, <1>3, <1>4, ProductsKept

(* Arbitrating between two references.                                     *)
LEMMA ArbitrateKeeps ==
  ASSUME ProductsInv, NEW p, NEW selected, NEW rejected, Arbitrate(p, selected, rejected)
  PROVE  ProductsInv'
<1>1. /\ UNCHANGED productTables /\ UNCHANGED command /\ UNCHANGED today /\ UNCHANGED associated
  BY DEF Arbitrate
<1>2. ProductTablesAreTyped /\ ArbitrationsKeepPriority
  BY DEF ProductsInv
<1>3. DOMAIN command' = ProductSessions /\ today' \in Int
  BY <1>1, <1>2 DEF ProductTablesAreTyped
<1>4. PICK a : /\ a = [product |-> p, selected |-> selected, rejected |-> rejected]
               /\ arbitrations' = arbitrations \cup {a}
               /\ {selected, rejected} \subseteq {x.reference : x \in {b \in associated : b.product = p}}
               /\ Priority[selected.source] >= Priority[rejected.source]
  BY DEF Arbitrate
<1>5. /\ \A x \in {a.selected, a.rejected} : \E b \in associated : b.product = a.product /\ b.reference = x
      /\ Priority[a.selected.source] >= Priority[a.rejected.source]
  BY <1>4
<1>6. ArbitrationsKeepPriority'
  BY <1>1, <1>2, <1>4, <1>5 DEF ArbitrationsKeepPriority
<1> QED
  BY <1>1, <1>3, <1>6, ProductsKept

(* A day that passes.                                                      *)
LEMMA NextDayKeeps ==
  ASSUME ProductsInv, NextDay
  PROVE  ProductsInv'
<1>1. /\ UNCHANGED productTables /\ UNCHANGED command /\ UNCHANGED arbitrations /\ UNCHANGED associated
      /\ today' = today + 1
  BY DEF NextDay, referenceTables
<1>2. ProductTablesAreTyped /\ ArbitrationsKeepPriority
  BY DEF ProductsInv
<1>3. DOMAIN command' = ProductSessions /\ today' \in Int
  BY <1>1, <1>2 DEF ProductTablesAreTyped
<1>4. ArbitrationsKeepPriority'
  BY <1>1, <1>2, ArbitrationsStay
<1> QED
  BY <1>1, <1>3, <1>4, ProductsKept

(* The invariant holds at the start.                                       *)
LEMMA ProductsStart == ProductsInit => ProductsInv
<1> SUFFICES ASSUME ProductsInit PROVE ProductsInv
  OBVIOUS
<1>1. /\ \A p \in Catalogue : product[p] = {}
      /\ product \in [Catalogue -> SUBSET ProductRows]
      /\ history = <<>> /\ commands = {} /\ arbitrations = {} /\ today \in Int
      /\ DOMAIN command = ProductSessions /\ \A s \in ProductSessions : command[s].at = "waiting"
  BY DEF ProductsInit, Waiting
<1>2. history \in Seq(HistoryRows) /\ DOMAIN history = {}
  BY <1>1
<1>3. \A p \in Catalogue : LifeIn(p, history) = {}
  BY <1>2 DEF LifeIn
<1>4. ProductTablesAreTyped
  BY <1>1, <1>2, FS_EmptySet DEF ProductTablesAreTyped
<1>5. LivesAreLegal
  BY <1>1, <1>3 DEF LivesAreLegal, IsLife
<1>6. StepsHaveCommands
  <2>1. \A p : {c \in commands : c.product = p} = {}
    BY <1>1
  <2> QED
    BY <1>3, <2>1 DEF StepsHaveCommands
<1>7. ReadingsAreSound /\ ArbitrationsKeepPriority
  BY <1>1 DEF ReadingsAreSound, ArbitrationsKeepPriority
<1> QED
  BY <1>4, <1>5, <1>6, <1>7 DEF ProductsInv

(* Every step keeps it.                                                    *)
LEMMA ProductsStep == ProductsInv /\ [ProductsNext]_productVars => ProductsInv'
<1> SUFFICES ASSUME ProductsInv, [ProductsNext]_productVars PROVE ProductsInv'
  OBVIOUS
<1>1. CASE UNCHANGED productVars
  BY <1>1, TermsStepKeeps DEF productVars, productTables, referenceTables
<1>2. ASSUME NEW r \in Creations, CreateProduct(r.product, r.actor, r.key) PROVE ProductsInv'
  BY <1>2, CreateProductKeeps
<1>3. ASSUME NEW s \in ProductSessions, NEW r \in Transits, ReadProduct(s, r.product, r) PROVE ProductsInv'
  BY <1>3, ReadProductKeeps
<1>4. ASSUME NEW s \in ProductSessions, SaveTransition(s) PROVE ProductsInv'
  BY <1>4, SaveTransitionKeeps
<1>5. ASSUME NEW s \in ProductSessions, Forget(s) PROVE ProductsInv'
  <2>1. Waiting.at # "transition" /\ command' = [command EXCEPT ![s] = Waiting]
    BY <1>5 DEF Forget, Rested, Waiting
  <2>2. UNCHANGED productTables /\ UNCHANGED referenceTables /\ UNCHANGED today
    BY <1>5 DEF Forget
  <2> QED
    BY <2>1, <2>2, TermsStepKeeps
<1>6. ASSUME NEW p, NEW reference, NEW kind, Associate(p, reference, kind) PROVE ProductsInv'
  BY <1>6, AssociateKeeps
<1>7. ASSUME NEW p, NEW selected, NEW rejected, Arbitrate(p, selected, rejected) PROVE ProductsInv'
  BY <1>7, ArbitrateKeeps
<1>8. CASE NextDay
  BY <1>8, NextDayKeeps
<1>9. ASSUME NEW p, NEW period, NEW actor, NEW key, CreateTerms(p, period, actor, key) PROVE ProductsInv'
  <2>1. UNCHANGED productTables /\ UNCHANGED referenceTables /\ UNCHANGED today /\ UNCHANGED command
    BY <1>9 DEF CreateTerms
  <2> QED
    BY <2>1, TermsStepKeeps
<1>10. ASSUME NEW s \in ProductSessions, NEW t, NEW r, ReadTerms(s, t, r) PROVE ProductsInv'
  <2>1. UNCHANGED productTables /\ UNCHANGED referenceTables /\ UNCHANGED today
    BY <1>10 DEF ReadTerms
  <2>2. PICK c : c = [at |-> "terms", terms |-> t, request |-> r] /\ command' = [command EXCEPT ![s] = c]
    BY <1>10 DEF ReadTerms
  <2>3. c.at # "transition"
    BY <2>2
  <2> QED
    BY <2>1, <2>2, <2>3, TermsStepKeeps
<1>11. ASSUME NEW s \in ProductSessions, PublishTerms(s) PROVE ProductsInv'
  <2>1. UNCHANGED productTables /\ UNCHANGED referenceTables /\ UNCHANGED today
    BY <1>11 DEF PublishTerms
  <2>2. Waiting.at # "transition" /\ command' = [command EXCEPT ![s] = Waiting]
    BY <1>11 DEF PublishTerms, Rested, Waiting
  <2> QED
    BY <2>1, <2>2, TermsStepKeeps
<1>12. ASSUME NEW t, NEW actor, NEW key, ApproveRetroactively(t, actor, key) PROVE ProductsInv'
  <2>1. UNCHANGED productTables /\ UNCHANGED referenceTables /\ UNCHANGED today /\ UNCHANGED command
    BY <1>12 DEF ApproveRetroactively
  <2> QED
    BY <2>1, TermsStepKeeps
<1>13. CASE LifecycleNext
  BY <1>2, <1>3, <1>4, <1>5, <1>6, <1>7, <1>8, <1>13 DEF LifecycleNext
<1>14. CASE TermsNext
  BY <1>2, <1>5, <1>9, <1>10, <1>11, <1>12, <1>14 DEF TermsNext
<1> QED
  BY <1>1, <1>13, <1>14 DEF ProductsNext

(* It gives what the workflow promises.                                    *)
LEMMA ProductsFollow == ProductsInv => ProductsAreConsistent
<1> SUFFICES ASSUME ProductsInv PROVE ProductsAreConsistent
  OBVIOUS
<1>1. LivesAreLegal /\ StepsHaveCommands /\ ArbitrationsKeepPriority
  BY DEF ProductsInv
<1>2. ASSUME NEW p \in Catalogue
      PROVE  LET life == LifeOf(p) IN
             /\ product[p] = {} <=> life = {}
             /\ Cardinality({c \in commands : c.product = p}) = Cardinality(life)
             /\ \A row \in product[p] : \A i \in life :
                  /\ (\A j \in life : j <= i) => history[i].to = row.status
                  /\ \A j \in life : j < i /\ (\A k \in life : k <= j \/ i <= k) =>
                       /\ history[i].from = history[j].to
                       /\ \E a \in DOMAIN Steps : history[i].from \in Steps[a].from /\ history[i].to = Steps[a].to
                  /\ history[i].to = "VALIDATED" => row.validator = {history[i].actor}
                  /\ history[i].from = "VALIDATED" => row.validator # {history[i].actor} /\ p \in Complete
                  /\ history[i].to = "PUBLISHED" =>
                       \A k \in RequiredKinds : \E a \in associated :
                         a.product = p /\ a.kind = k /\ Effective(a.reference, history[i].day)
  <2>1. IsLife(p, product[p], history, associated)
    BY <1>1 DEF LivesAreLegal
  <2>2. LifeOf(p) = LifeIn(p, history)
    BY DEF LifeOf, LifeIn
  <2>3. Cardinality({c \in commands : c.product = p}) = Cardinality(LifeIn(p, history))
    BY <1>1 DEF StepsHaveCommands
  <2>4. ASSUME NEW row \in product[p], NEW i \in LifeIn(p, history)
        PROVE  /\ (\A j \in LifeIn(p, history) : j <= i) => history[i].to = row.status
               /\ \A j \in LifeIn(p, history) :
                    j < i /\ (\A k \in LifeIn(p, history) : k <= j \/ i <= k) => Follows(history[i], history[j])
               /\ StepIsRight(p, row, history[i], associated)
    BY <2>1, <2>4 DEF IsLife
  <2> QED
    BY <2>1, <2>2, <2>3, <2>4 DEF IsLife, Follows, StepIsRight, IsEffective
<1>3. ProductsFollowWorkflow
  BY <1>2 DEF ProductsFollowWorkflow
<1> QED
  BY <1>1, <1>3 DEF ProductsAreConsistent

(* The promise about products, for any catalogue and any requests: the     *)
(* history of a product is one legal path of transitions, one command      *)
(* each, although each was judged on a row read earlier.                   *)
THEOREM ProductsStayConsistent == ProductsSpec => []ProductsAreConsistent
<1>1. ProductsSpec => []ProductsInv
  BY ProductsStart, ProductsStep, PTL DEF ProductsSpec
<1> QED
  BY <1>1, ProductsFollow, PTL

(* Terms: their rows, and the events that were announced of them.          *)

(* The days on which periods begin or end.                                 *)
TermsDays == {0} \cup {d.period.from : d \in Drafts} \cup {d.period.to : d \in Drafts}
(* The people who draft or publish.                                        *)
TermsActors == {r.actor : r \in Drafts \cup Publications}
(* The rows of the terms.                                                  *)
TermsRows ==
  [product : Catalogue, version : Nat \ {0}, from : TermsDays, to : TermsDays,
   status : {"DRAFT", "PUBLISHED"}, creator : TermsActors, approval : {{}} \cup {r.approval : r \in Publications}]
(* The events about terms.                                                 *)
TermsEventRows ==
  [kind : {"ProductTermsDrafted", "ProductTermsPublished"}, product : Catalogue, version : Nat \ {0},
   actor : TermsActors]

(* The shapes of these tables.                                             *)
TermsTablesAreTyped ==
  /\ terms \in SUBSET TermsRows /\ IsFiniteSet(terms)
  /\ termsEvents \in Seq(TermsEventRows)
  /\ DOMAIN command = ProductSessions

(* The events of one kind about one version.                               *)
EventsOn(es, kind, p, v) ==
  {i \in DOMAIN es : es[i].kind = kind /\ es[i].product = p /\ es[i].version = v}

(* A row of terms has the events and the approval that made it.            *)
TermsRowIsSound(t, es, granted) ==
  /\ \E i \in DOMAIN es : EventsOn(es, "ProductTermsDrafted", t.product, t.version) = {i}
  /\ IF t.status = "PUBLISHED"
       THEN \E i \in DOMAIN es :
              /\ EventsOn(es, "ProductTermsPublished", t.product, t.version) = {i}
              /\ es[i].actor # t.creator
              /\ \A key \in t.approval : \E a \in granted :
                   a.key = key /\ a.product = t.product /\ a.version = t.version /\ a.actor # es[i].actor
       ELSE EventsOn(es, "ProductTermsPublished", t.product, t.version) = {}

(* Every row is.                                                           *)
TermsRowsAreSound == \A t \in terms : TermsRowIsSound(t, termsEvents, retroactive)

(* No event is about terms that are not there.                             *)
EventsHaveTerms ==
  \A i \in DOMAIN termsEvents :
    \E t \in terms : t.product = termsEvents[i].product /\ t.version = termsEvents[i].version

(* One row per version.                                                    *)
VersionsAreUnique ==
  \A t, u \in terms : t.product = u.product /\ t.version = u.version => t = u

(* The versions of a product are counted without a gap.                    *)
VersionsAreCounted ==
  \A p \in Catalogue : {t.version : t \in TermsOf(p)} = 1..Cardinality(TermsOf(p))

(* No two published periods of a product overlap.                          *)
PeriodsAreApart ==
  \A t, u \in terms : t # u /\ t.product = u.product /\ t.status = "PUBLISHED" /\ u.status = "PUBLISHED"
                        => ~Overlap(t, u)

(* What a publication has read was a draft of somebody else.               *)
DraftsWereRead ==
  \A s \in ProductSessions : command[s].at = "terms" =>
    /\ command[s].terms \in TermsRows /\ command[s].request \in Publications
    /\ command[s].terms.status = "DRAFT" /\ command[s].request.actor # command[s].terms.creator

(* The inductive invariant of terms.                                       *)
TermsInv ==
  /\ TermsTablesAreTyped /\ TermsRowsAreSound /\ EventsHaveTerms /\ VersionsAreUnique
  /\ VersionsAreCounted /\ PeriodsAreApart /\ DraftsWereRead

(* The events es with the event e at their end, for one kind and version.  *)
TermsAnnounced(es, e, g, n, kind, p, v) ==
  /\ g \in Seq(TermsEventRows) /\ g[n] = e /\ n \notin DOMAIN es /\ DOMAIN g = DOMAIN es \cup {n}
  /\ \A i \in DOMAIN es : g[i] = es[i]
  /\ IF e.kind = kind /\ e.product = p /\ e.version = v
       THEN EventsOn(g, kind, p, v) = EventsOn(es, kind, p, v) \cup {n}
       ELSE EventsOn(g, kind, p, v) = EventsOn(es, kind, p, v)

(* An event that is appended.                                              *)
LEMMA EventsGrow ==
  ASSUME NEW es \in Seq(TermsEventRows), NEW e \in TermsEventRows, NEW g, g = Append(es, e),
         NEW kind, NEW p, NEW v
  PROVE  TermsAnnounced(es, e, g, Len(es) + 1, kind, p, v)
<1>1. PICK n \in Nat : n = Len(es) /\ DOMAIN es = 1..n
  OBVIOUS
<1>2. g \in Seq(TermsEventRows) /\ Len(g) = n + 1
  BY <1>1
<1>3. DOMAIN g = 1..(n + 1) /\ g[n + 1] = e /\ \A i \in 1..n : g[i] = es[i]
  BY <1>1
<1>4. 1..(n + 1) = (1..n) \cup {n + 1} /\ n + 1 \notin 1..n
  OBVIOUS
<1>5. IF e.kind = kind /\ e.product = p /\ e.version = v
        THEN EventsOn(g, kind, p, v) = EventsOn(es, kind, p, v) \cup {n + 1}
        ELSE EventsOn(g, kind, p, v) = EventsOn(es, kind, p, v)
  BY <1>1, <1>3, <1>4 DEF EventsOn
<1> QED
  BY <1>1, <1>2, <1>3, <1>4, <1>5 DEF TermsAnnounced

(* An event about another version.                                         *)
LEMMA RowStays ==
  ASSUME NEW es \in Seq(TermsEventRows), NEW e \in TermsEventRows, NEW t, NEW granted,
         TermsRowIsSound(t, es, granted), ~(e.product = t.product /\ e.version = t.version)
  PROVE  TermsRowIsSound(t, Append(es, e), granted)
<1>1. PICK g, n : g = Append(es, e) /\ n = Len(es) + 1
  OBVIOUS
<1>2. /\ TermsAnnounced(es, e, g, n, "ProductTermsDrafted", t.product, t.version)
      /\ TermsAnnounced(es, e, g, n, "ProductTermsPublished", t.product, t.version)
  BY <1>1, EventsGrow
<1>3. /\ EventsOn(g, "ProductTermsDrafted", t.product, t.version)
           = EventsOn(es, "ProductTermsDrafted", t.product, t.version)
      /\ EventsOn(g, "ProductTermsPublished", t.product, t.version)
           = EventsOn(es, "ProductTermsPublished", t.product, t.version)
      /\ \A i \in DOMAIN es : i \in DOMAIN g /\ g[i] = es[i]
  BY <1>2 DEF TermsAnnounced
<1>4. TermsRowIsSound(t, g, granted)
  BY <1>3 DEF TermsRowIsSound
<1> QED
  BY <1>1, <1>4

(* More approvals.                                                         *)
LEMMA RowGranted ==
  ASSUME NEW es, NEW t, NEW granted, NEW more, granted \subseteq more, TermsRowIsSound(t, es, granted)
  PROVE  TermsRowIsSound(t, es, more)
BY DEF TermsRowIsSound

(* A step that leaves the terms and their events alone.                    *)
LEMMA TermsKept ==
  ASSUME TermsInv, UNCHANGED terms, UNCHANGED termsEvents, retroactive \subseteq retroactive',
         DOMAIN command' = ProductSessions,
         \A s \in ProductSessions : command'[s] = command[s] \/ command'[s].at # "terms"
  PROVE  TermsInv'
<1>1. /\ TermsTablesAreTyped /\ TermsRowsAreSound /\ EventsHaveTerms /\ VersionsAreUnique
      /\ VersionsAreCounted /\ PeriodsAreApart /\ DraftsWereRead
  BY DEF TermsInv
<1>2. TermsTablesAreTyped' /\ EventsHaveTerms' /\ VersionsAreUnique'
  BY <1>1 DEF TermsTablesAreTyped, EventsHaveTerms, VersionsAreUnique
<1>3. VersionsAreCounted' /\ PeriodsAreApart'
  BY <1>1 DEF VersionsAreCounted, TermsOf, PeriodsAreApart, Overlap
<1>4. TermsRowsAreSound'
  BY <1>1, RowGranted DEF TermsRowsAreSound
<1>5. DraftsWereRead'
  BY <1>1 DEF DraftsWereRead
<1> QED
  BY <1>2, <1>3, <1>4, <1>5 DEF TermsInv

(* The version after those that there are.                                 *)
NextVersion(versions) ==
  IF versions = {} THEN 1 ELSE (CHOOSE v \in versions : \A w \in versions : w <= v) + 1

(* The next version of a product.                                          *)
LEMMA NextVersionIs ==
  ASSUME TermsTablesAreTyped, VersionsAreCounted, NEW p \in Catalogue, NEW versions,
         versions = {t.version : t \in TermsOf(p)}
  PROVE  /\ Cardinality(TermsOf(p)) \in Nat /\ versions = 1..Cardinality(TermsOf(p))
         /\ NextVersion(versions) = Cardinality(TermsOf(p)) + 1
<1>1. TermsOf(p) \subseteq terms
  BY DEF TermsOf
<1>2. IsFiniteSet(TermsOf(p))
  BY <1>1, FS_Subset DEF TermsTablesAreTyped
<1>3. PICK n \in Nat : n = Cardinality(TermsOf(p))
  BY <1>2, FS_CardinalityType
<1>4. versions = 1..n
  BY <1>3 DEF VersionsAreCounted
<1>7. PICK last : last = CHOOSE v \in versions : \A w \in versions : w <= v
  OBVIOUS
<1>8. SUFFICES (IF versions = {} THEN 1 ELSE last + 1) = n + 1
  BY <1>3, <1>4, <1>7, Zenon DEF NextVersion
<1>5. CASE n = 0
  <2>1. 1..0 = {}
    OBVIOUS
  <2>2. versions = {}
    BY <1>4, <1>5, <2>1, Zenon
  <2>3. (IF versions = {} THEN 1 ELSE last + 1) = n + 1
    BY <1>5, <2>2
  <2> QED
    BY <2>3
<1>6. CASE n # 0
  <2>1. n \in versions /\ versions # {} /\ \A w \in versions : w \in Int /\ w <= n
    BY <1>4, <1>6
  <2>3. \E v \in versions : \A w \in versions : w <= v
    BY <2>1
  <2>4. last \in versions /\ \A w \in versions : w <= last
    BY <1>7, <2>3
  <2>5. last = n
    BY <2>1, <2>4
  <2> QED
    BY <2>1, <2>5
<1> QED
  BY <1>5, <1>6

(* Drafting a version of a product's terms.                                *)
LEMMA CreateTermsKeeps ==
  ASSUME TermsInv, NEW r \in Drafts, CreateTerms(r.product, r.period, r.actor, r.key)
  PROVE  TermsInv'
<1>1. /\ TermsTablesAreTyped /\ TermsRowsAreSound /\ EventsHaveTerms /\ VersionsAreUnique
      /\ VersionsAreCounted /\ PeriodsAreApart /\ DraftsWereRead
  BY DEF TermsInv
<1>2. PICK p, versions, n : /\ p = r.product /\ p \in Catalogue /\ versions = {t.version : t \in TermsOf(p)}
                            /\ n = Cardinality(TermsOf(p))
  BY ProductsAssumption
<1>3. PICK v : v = NextVersion(versions)
  OBVIOUS
<1>4. n \in Nat /\ versions = 1..n /\ v = n + 1
  BY <1>1, <1>2, <1>3, NextVersionIs
<1>5. PICK t, e, es : /\ t = [product |-> p, version |-> v, from |-> r.period.from, to |-> r.period.to,
                              status |-> "DRAFT", creator |-> r.actor, approval |-> {}]
                      /\ e = [kind |-> "ProductTermsDrafted", product |-> p, version |-> v, actor |-> r.actor]
                      /\ es = termsEvents
  OBVIOUS
<1>6. terms' = terms \cup {t} /\ termsEvents' = Append(es, e) /\ UNCHANGED retroactive /\ UNCHANGED command
  BY <1>2, <1>3, <1>5 DEF CreateTerms, NextVersion
<1>7. t \in TermsRows /\ e \in TermsEventRows /\ es \in Seq(TermsEventRows)
  <2>1. v \in Nat \ {0} /\ r.actor \in TermsActors /\ r.period.from \in TermsDays /\ r.period.to \in TermsDays
    BY <1>4 DEF TermsActors, TermsDays
  <2> QED
    BY <1>1, <1>2, <1>5, <2>1 DEF TermsRows, TermsEventRows, TermsTablesAreTyped
<1>8. \A u \in terms : u.product = p => u.version # v
  <2>1. ASSUME NEW u \in terms, u.product = p PROVE u.version \in 1..n
    BY <1>2, <1>4, <2>1 DEF TermsOf
  <2> QED
    BY <1>4, <2>1
<1>9. t \notin terms /\ t.product = p /\ t.version = v
  BY <1>5, <1>8
<1>10. PICK g, k : g = Append(es, e) /\ k = Len(es) + 1
  OBVIOUS
<1>11. ASSUME NEW kind PROVE TermsAnnounced(es, e, g, k, kind, p, v)
  BY <1>7, <1>10, EventsGrow
<1>12. TermsTablesAreTyped'
  <2>1. g \in Seq(TermsEventRows)
    BY <1>11 DEF TermsAnnounced
  <2>2. IsFiniteSet(terms')
    BY <1>1, <1>6, FS_AddElement DEF TermsTablesAreTyped
  <2> QED
    BY <1>1, <1>6, <1>7, <1>10, <2>1, <2>2 DEF TermsTablesAreTyped
<1>13. \A i \in DOMAIN es : ~(es[i].product = p /\ es[i].version = v)
  BY <1>1, <1>5, <1>8 DEF EventsHaveTerms
<1>14. TermsRowIsSound(t, g, retroactive)
  <2>1. EventsOn(es, "ProductTermsDrafted", p, v) = {} /\ EventsOn(es, "ProductTermsPublished", p, v) = {}
    BY <1>13 DEF EventsOn
  <2>2. EventsOn(g, "ProductTermsDrafted", p, v) = {k} /\ k \in DOMAIN g
    BY <1>5, <1>11, <2>1 DEF TermsAnnounced
  <2>3. EventsOn(g, "ProductTermsPublished", p, v) = {}
    BY <1>5, <1>11, <2>1 DEF TermsAnnounced
  <2> QED
    BY <1>5, <1>9, <2>2, <2>3 DEF TermsRowIsSound
<1>15. TermsRowsAreSound'
  <2>1. ASSUME NEW u \in terms PROVE TermsRowIsSound(u, g, retroactive)
    <3>1. TermsRowIsSound(u, es, retroactive) /\ ~(e.product = u.product /\ e.version = u.version)
      BY <1>1, <1>5, <1>8 DEF TermsRowsAreSound
    <3>2. TermsRowIsSound(u, Append(es, e), retroactive)
      BY <1>7, <3>1, RowStays
    <3> QED
      BY <1>10, <3>2
  <2> QED
    BY <1>6, <1>10, <1>14, <2>1 DEF TermsRowsAreSound
<1>16. EventsHaveTerms'
  <2>1. TermsAnnounced(es, e, g, k, "ProductTermsDrafted", p, v)
    BY <1>11
  <2>2. DOMAIN g = DOMAIN es \cup {k} /\ g[k] = e /\ \A i \in DOMAIN es : g[i] = es[i]
    BY <2>1 DEF TermsAnnounced
  <2>3. \A i \in DOMAIN g : \E u \in terms \cup {t} : u.product = g[i].product /\ u.version = g[i].version
    BY <1>1, <1>5, <1>9, <2>2 DEF EventsHaveTerms
  <2> QED
    BY <1>6, <1>10, <2>3 DEF EventsHaveTerms
<1>17. VersionsAreUnique'
  BY <1>1, <1>6, <1>8, <1>9 DEF VersionsAreUnique
<1>18. VersionsAreCounted'
  <2>1. ASSUME NEW q \in Catalogue
        PROVE  {u.version : u \in TermsOf(q)'} = 1..Cardinality(TermsOf(q)')
    <3>1. CASE q # p
      <4>1. TermsOf(q)' = TermsOf(q)
        BY <1>6, <1>9, <3>1 DEF TermsOf
      <4> QED
        BY <1>1, <4>1 DEF VersionsAreCounted
    <3>2. CASE q = p
      <4>1. PICK A, B : A = TermsOf(p) /\ B = TermsOf(q)' /\ IsFiniteSet(A)
        <5>1. TermsOf(p) \subseteq terms
          BY DEF TermsOf
        <5>2. IsFiniteSet(TermsOf(p))
          BY <1>1, <5>1, FS_Subset DEF TermsTablesAreTyped
        <5> QED
          BY <5>2
      <4>2. B = A \cup {t} /\ t \notin A
        BY <1>6, <1>9, <3>2, <4>1 DEF TermsOf
      <4>3. Cardinality(B) = n + 1
        BY <1>2, <4>1, <4>2, FS_AddElement
      <4>4. {u.version : u \in B} = versions \cup {v}
        BY <1>2, <1>9, <4>1, <4>2
      <4>5. (1..n) \cup {n + 1} = 1..(n + 1)
        BY <1>4
      <4> QED
        BY <1>4, <4>1, <4>3, <4>4, <4>5
    <3> QED
      BY <3>1, <3>2
  <2> QED
    BY <2>1 DEF VersionsAreCounted
<1>19. PeriodsAreApart'
  BY <1>1, <1>5, <1>6 DEF PeriodsAreApart, Overlap
<1>20. DraftsWereRead'
  BY <1>1, <1>6 DEF DraftsWereRead
<1> QED
  BY <1>12, <1>15, <1>16, <1>17, <1>18, <1>19, <1>20 DEF TermsInv

(* Reading the terms before a publication.                                 *)
LEMMA ReadTermsKeeps ==
  ASSUME TermsInv, NEW s \in ProductSessions, NEW r \in Publications, NEW t \in terms, ReadTerms(s, t, r)
  PROVE  TermsInv'
<1>1. /\ TermsTablesAreTyped /\ TermsRowsAreSound /\ EventsHaveTerms /\ VersionsAreUnique
      /\ VersionsAreCounted /\ PeriodsAreApart /\ DraftsWereRead
  BY DEF TermsInv
<1>2. PICK c : /\ c = [at |-> "terms", terms |-> t, request |-> r] /\ command' = [command EXCEPT ![s] = c]
               /\ TermsAccept(t, r)
  BY DEF ReadTerms
<1>3. UNCHANGED terms /\ UNCHANGED termsEvents /\ UNCHANGED retroactive
  BY DEF ReadTerms, termsTables
<1>4. /\ DOMAIN command' = ProductSessions /\ command'[s] = c
      /\ \A x \in ProductSessions \ {s} : command'[x] = command[x]
  BY <1>1, <1>2 DEF TermsTablesAreTyped
<1>5. /\ c.terms \in TermsRows /\ c.request \in Publications
      /\ c.terms.status = "DRAFT" /\ c.request.actor # c.terms.creator
  BY <1>1, <1>2 DEF TermsAccept, TermsTablesAreTyped
<1>6. DraftsWereRead'
  BY <1>1, <1>4, <1>5 DEF DraftsWereRead
<1>7. TermsTablesAreTyped' /\ EventsHaveTerms' /\ VersionsAreUnique'
  BY <1>1, <1>3, <1>4 DEF TermsTablesAreTyped, EventsHaveTerms, VersionsAreUnique
<1>8. VersionsAreCounted' /\ PeriodsAreApart' /\ TermsRowsAreSound'
  BY <1>1, <1>3 DEF VersionsAreCounted, TermsOf, PeriodsAreApart, Overlap, TermsRowsAreSound
<1> QED
  BY <1>6, <1>7, <1>8 DEF TermsInv

(* Publishing terms that are still the draft that was read.                *)
LEMMA PublishTermsKeeps ==
  ASSUME TermsInv, NEW s \in ProductSessions, PublishTerms(s)
  PROVE  TermsInv'
<1>1. /\ TermsTablesAreTyped /\ TermsRowsAreSound /\ EventsHaveTerms /\ VersionsAreUnique
      /\ VersionsAreCounted /\ PeriodsAreApart /\ DraftsWereRead
  BY DEF TermsInv
<1>2. PICK t, r, es : t = command[s].terms /\ r = command[s].request /\ es = termsEvents
  OBVIOUS
<1>3. /\ t \in TermsRows /\ r \in Publications /\ t.status = "DRAFT" /\ r.actor # t.creator
  BY <1>1, <1>2 DEF DraftsWereRead, PublishTerms
<1>4. /\ DOMAIN command' = ProductSessions /\ command'[s].at # "terms"
      /\ \A x \in ProductSessions \ {s} : command'[x] = command[x]
  BY <1>1 DEF TermsTablesAreTyped, PublishTerms, Rested, Waiting
<1>5. UNCHANGED retroactive
  BY DEF PublishTerms
<1>6. CASE UNCHANGED <<terms, termsCommands, termsEvents>>
  BY <1>4, <1>5, <1>6, TermsKept
<1>7. PICK u, e : /\ u = [t EXCEPT !.status = "PUBLISHED", !.approval = r.approval]
                  /\ e = [kind |-> "ProductTermsPublished", product |-> t.product, version |-> t.version,
                          actor |-> r.actor]
  OBVIOUS
<1>8. CASE /\ Approved(t, r.approval, r.actor) /\ t \in terms
           /\ ~\E w \in TermsOf(t.product) : w.status = "PUBLISHED" /\ Overlap(t, w)
           /\ terms' = (terms \ {t}) \cup {u} /\ termsEvents' = Append(es, e)
  <2>1. PICK p, v : p = t.product /\ v = t.version
    OBVIOUS
  <2>2. /\ u \in TermsRows /\ u.product = p /\ u.version = v /\ u.status = "PUBLISHED" /\ u.creator = t.creator
        /\ u.from = t.from /\ u.to = t.to /\ u.approval = r.approval /\ p \in Catalogue
    BY <1>3, <1>7, <2>1 DEF TermsRows
  <2>3. /\ e \in TermsEventRows /\ es \in Seq(TermsEventRows) /\ e.product = p /\ e.version = v
        /\ e.actor = r.actor /\ e.kind = "ProductTermsPublished"
    <3>1. r.actor \in TermsActors
      BY <1>3 DEF TermsActors
    <3> QED
      BY <1>1, <1>2, <1>3, <1>7, <2>1, <3>1 DEF TermsRows, TermsEventRows, TermsTablesAreTyped
  <2>4. \A w \in terms : w.product = p /\ w.version = v => w = t
    BY <1>1, <1>8, <2>1 DEF VersionsAreUnique
  <2>5. u \notin terms
    BY <1>3, <2>2, <2>4
  <2>6. PICK g, k : g = Append(es, e) /\ k = Len(es) + 1
    OBVIOUS
  <2>7. ASSUME NEW kind PROVE TermsAnnounced(es, e, g, k, kind, p, v)
    BY <2>3, <2>6, EventsGrow
  <2>8. TermsRowIsSound(t, es, retroactive)
    BY <1>1, <1>2, <1>8 DEF TermsRowsAreSound
  <2>9. TermsRowIsSound(u, g, retroactive)
    <3>1. PICK i \in DOMAIN es : EventsOn(es, "ProductTermsDrafted", p, v) = {i}
      BY <2>1, <2>8 DEF TermsRowIsSound
    <3>2. EventsOn(es, "ProductTermsPublished", p, v) = {}
      BY <1>3, <2>1, <2>8 DEF TermsRowIsSound
    <3>3. TermsAnnounced(es, e, g, k, "ProductTermsDrafted", p, v)
      BY <2>7
    <3>4. TermsAnnounced(es, e, g, k, "ProductTermsPublished", p, v)
      BY <2>7
    <3>5. EventsOn(g, "ProductTermsDrafted", p, v) = {i} /\ i \in DOMAIN g
      BY <2>3, <3>1, <3>3 DEF TermsAnnounced
    <3>6. EventsOn(g, "ProductTermsPublished", p, v) = {k} /\ k \in DOMAIN g /\ g[k] = e
      BY <2>3, <3>2, <3>4 DEF TermsAnnounced
    <3>7. \A key \in u.approval : \E a \in retroactive :
            a.key = key /\ a.product = p /\ a.version = v /\ a.actor # g[k].actor
      BY <1>8, <2>1, <2>2, <2>3, <3>6 DEF Approved
    <3>8. g[k].actor # u.creator
      BY <1>3, <2>2, <2>3, <3>6
    <3> QED
      BY <2>2, <3>5, <3>6, <3>7, <3>8 DEF TermsRowIsSound
  <2>10. TermsRowsAreSound'
    <3>1. ASSUME NEW w \in terms \ {t} PROVE TermsRowIsSound(w, g, retroactive)
      <4>1. TermsRowIsSound(w, es, retroactive) /\ ~(e.product = w.product /\ e.version = w.version)
        BY <1>1, <1>2, <2>3, <2>4 DEF TermsRowsAreSound
      <4>2. TermsRowIsSound(w, Append(es, e), retroactive)
        BY <2>3, <4>1, RowStays
      <4> QED
        BY <2>6, <4>2
    <3> QED
      BY <1>5, <1>8, <2>6, <2>9, <3>1 DEF TermsRowsAreSound
  <2>11. TermsTablesAreTyped'
    <3>1. g \in Seq(TermsEventRows)
      BY <2>7 DEF TermsAnnounced
    <3>2. IsFiniteSet(terms) /\ terms \ {t} \subseteq terms
      BY <1>1 DEF TermsTablesAreTyped
    <3>3. IsFiniteSet(terms \ {t})
      BY <3>2, FS_Subset
    <3>4. IsFiniteSet(terms')
      BY <1>8, <3>3, FS_AddElement
    <3> QED
      BY <1>1, <1>4, <1>8, <2>2, <2>6, <3>1, <3>4 DEF TermsTablesAreTyped
  <2>12. EventsHaveTerms'
    <3>1. TermsAnnounced(es, e, g, k, "ProductTermsPublished", p, v)
      BY <2>7
    <3>2. DOMAIN g = DOMAIN es \cup {k} /\ g[k] = e /\ \A i \in DOMAIN es : g[i] = es[i]
      BY <3>1 DEF TermsAnnounced
    <3>3. ASSUME NEW i \in DOMAIN g
          PROVE  \E w \in (terms \ {t}) \cup {u} : w.product = g[i].product /\ w.version = g[i].version
      <4>1. CASE i = k
        BY <2>2, <2>3, <3>2, <4>1
      <4>2. CASE i \in DOMAIN es
        <5>1. PICK w \in terms : w.product = g[i].product /\ w.version = g[i].version
          BY <1>1, <1>2, <3>2, <4>2 DEF EventsHaveTerms
        <5> QED
          BY <2>1, <2>2, <5>1
      <4> QED
        BY <3>2, <3>3, <4>1, <4>2
    <3> QED
      BY <1>8, <2>6, <3>3 DEF EventsHaveTerms
  <2>13. VersionsAreUnique'
    BY <1>1, <1>8, <2>2, <2>4 DEF VersionsAreUnique
  <2>14. VersionsAreCounted'
    <3>1. ASSUME NEW q \in Catalogue
          PROVE  {w.version : w \in TermsOf(q)'} = 1..Cardinality(TermsOf(q)')
      <4>1. CASE q # p
        <5>1. TermsOf(q)' = TermsOf(q)
          BY <1>8, <2>1, <2>2, <4>1 DEF TermsOf
        <5> QED
          BY <1>1, <5>1 DEF VersionsAreCounted
      <4>2. CASE q = p
        <5>1. PICK A, B, C : A = TermsOf(p) /\ B = TermsOf(q)' /\ C = A \ {t}
          OBVIOUS
        <5>2. B = C \cup {u} /\ t \in A /\ u \notin C /\ t \notin C /\ A = C \cup {t} /\ A \subseteq terms
          BY <1>8, <2>1, <2>2, <2>5, <4>2, <5>1 DEF TermsOf
        <5>3. IsFiniteSet(A)
          BY <1>1, <5>2, FS_Subset DEF TermsTablesAreTyped
        <5>4. IsFiniteSet(C)
          BY <5>2, <5>3, FS_Subset
        <5>5. Cardinality(B) = Cardinality(C) + 1
          BY <5>2, <5>4, FS_AddElement
        <5>6. Cardinality(A) = Cardinality(C) + 1
          BY <5>2, <5>4, FS_AddElement
        <5>7. {w.version : w \in B} = {w.version : w \in A}
          BY <2>1, <2>2, <5>2
        <5>8. {w.version : w \in A} = 1..Cardinality(A)
          BY <1>1, <2>2, <5>1 DEF VersionsAreCounted
        <5> QED
          BY <5>1, <5>5, <5>6, <5>7, <5>8
      <4> QED
        BY <4>1, <4>2
    <3> QED
      BY <3>1 DEF VersionsAreCounted
  <2>15. PeriodsAreApart'
    <3>1. ASSUME NEW w \in terms, w.product = p, w.status = "PUBLISHED" PROVE ~Overlap(u, w) /\ ~Overlap(w, u)
      <4>1. ~Overlap(t, w)
        BY <1>8, <2>1, <3>1 DEF TermsOf
      <4> QED
        BY <2>2, <4>1 DEF Overlap
    <3> QED
      BY <1>1, <1>8, <2>2, <3>1 DEF PeriodsAreApart, Overlap
  <2>16. DraftsWereRead'
    BY <1>1, <1>4 DEF DraftsWereRead
  <2> QED
    BY <2>10, <2>11, <2>12, <2>13, <2>14, <2>15, <2>16 DEF TermsInv
<1> QED
  BY <1>2, <1>6, <1>7, <1>8 DEF PublishTerms

(* It holds at the start.                                                  *)
LEMMA TermsStart == ProductsInit => TermsInv
<1> SUFFICES ASSUME ProductsInit PROVE TermsInv
  OBVIOUS
<1>1. /\ terms = {} /\ termsEvents = <<>> /\ DOMAIN command = ProductSessions
      /\ \A s \in ProductSessions : command[s].at = "waiting"
  BY DEF ProductsInit, Waiting
<1>2. termsEvents \in Seq(TermsEventRows) /\ DOMAIN termsEvents = {}
  BY <1>1
<1>3. TermsTablesAreTyped
  BY <1>1, <1>2, FS_EmptySet DEF TermsTablesAreTyped
<1>4. VersionsAreCounted
  <2>1. \A p : TermsOf(p) = {}
    BY <1>1 DEF TermsOf
  <2>2. Cardinality({}) = 0 /\ 1..0 = {}
    BY FS_EmptySet
  <2>3. \A p : {t.version : t \in TermsOf(p)} = {}
    BY <2>1
  <2> QED
    BY <2>1, <2>2, <2>3 DEF VersionsAreCounted
<1>5. TermsRowsAreSound /\ EventsHaveTerms /\ VersionsAreUnique /\ PeriodsAreApart /\ DraftsWereRead
  BY <1>1, <1>2 DEF TermsRowsAreSound, EventsHaveTerms, VersionsAreUnique, PeriodsAreApart, DraftsWereRead
<1> QED
  BY <1>3, <1>4, <1>5 DEF TermsInv

(* The steps of the products leave the terms alone.                        *)
LEMMA TermsStandStill ==
  ASSUME TermsInv, UNCHANGED terms, UNCHANGED termsEvents, retroactive \subseteq retroactive',
         \/ UNCHANGED command
         \/ \E s \in ProductSessions : \E c : c.at # "terms" /\ command' = [command EXCEPT ![s] = c]
  PROVE  TermsInv'
<1>1. DOMAIN command = ProductSessions
  BY DEF TermsInv, TermsTablesAreTyped
<1>2. /\ DOMAIN command' = ProductSessions
      /\ \A s \in ProductSessions : command'[s] = command[s] \/ command'[s].at # "terms"
  <2>1. CASE UNCHANGED command
    BY <1>1, <2>1
  <2>2. ASSUME NEW s \in ProductSessions, NEW c, c.at # "terms", command' = [command EXCEPT ![s] = c]
        PROVE  /\ DOMAIN command' = ProductSessions
               /\ \A t \in ProductSessions : command'[t] = command[t] \/ command'[t].at # "terms"
    BY <1>1, <2>2
  <2> QED
    BY <2>1, <2>2
<1> QED
  BY <1>2, TermsKept

(* Every step keeps it.                                                    *)
LEMMA TermsStep == TermsInv /\ [ProductsNext]_productVars => TermsInv'
<1> SUFFICES ASSUME TermsInv, [ProductsNext]_productVars PROVE TermsInv'
  OBVIOUS
<1>1. CASE UNCHANGED productVars
  BY <1>1, TermsStandStill DEF productVars
<1>2. ASSUME NEW r, CreateProduct(r.product, r.actor, r.key) PROVE TermsInv'
  <2>1. UNCHANGED terms /\ UNCHANGED termsEvents /\ UNCHANGED retroactive /\ UNCHANGED command
    BY <1>2 DEF CreateProduct, termsTables
  <2> QED
    BY <2>1, TermsStandStill
<1>3. ASSUME NEW s \in ProductSessions, NEW r, ReadProduct(s, r.product, r) PROVE TermsInv'
  <2>1. UNCHANGED terms /\ UNCHANGED termsEvents /\ UNCHANGED retroactive
    BY <1>3 DEF ReadProduct, termsTables
  <2>2. PICK c : c.at = "transition" /\ command' = [command EXCEPT ![s] = c]
    BY <1>3 DEF ReadProduct
  <2>3. c.at # "terms"
    BY <2>2
  <2> QED
    BY <2>1, <2>2, <2>3, TermsStandStill
<1>4. ASSUME NEW s \in ProductSessions, SaveTransition(s) \/ Forget(s) PROVE TermsInv'
  <2>1. UNCHANGED terms /\ UNCHANGED termsEvents /\ UNCHANGED retroactive
    BY <1>4 DEF SaveTransition, Forget, termsTables
  <2>2. Waiting.at # "terms" /\ command' = [command EXCEPT ![s] = Waiting]
    BY <1>4 DEF SaveTransition, Forget, Rested, Waiting
  <2> QED
    BY <2>1, <2>2, TermsStandStill
<1>5. ASSUME NEW p, NEW x, NEW y, Associate(p, x, y) \/ Arbitrate(p, x, y) \/ NextDay PROVE TermsInv'
  <2>1. UNCHANGED terms /\ UNCHANGED termsEvents /\ UNCHANGED retroactive /\ UNCHANGED command
    BY <1>5 DEF Associate, Arbitrate, NextDay, termsTables
  <2> QED
    BY <2>1, TermsStandStill
<1>6. ASSUME NEW r \in Drafts, CreateTerms(r.product, r.period, r.actor, r.key) PROVE TermsInv'
  BY <1>6, CreateTermsKeeps
<1>7. ASSUME NEW s \in ProductSessions, NEW r \in Publications, NEW t \in terms, ReadTerms(s, t, r) PROVE TermsInv'
  BY <1>7, ReadTermsKeeps
<1>8. ASSUME NEW s \in ProductSessions, PublishTerms(s) PROVE TermsInv'
  BY <1>8, PublishTermsKeeps
<1>9. ASSUME NEW t, NEW actor, NEW key, ApproveRetroactively(t, actor, key) PROVE TermsInv'
  <2>1. UNCHANGED terms /\ UNCHANGED termsEvents /\ UNCHANGED command /\ retroactive \subseteq retroactive'
    BY <1>9 DEF ApproveRetroactively
  <2> QED
    BY <2>1, TermsStandStill
<1>10. CASE LifecycleNext
  BY <1>2, <1>3, <1>4, <1>5, <1>10 DEF LifecycleNext
<1>11. CASE TermsNext
  BY <1>2, <1>4, <1>6, <1>7, <1>8, <1>9, <1>11 DEF TermsNext, TermsOf
<1> QED
  BY <1>1, <1>10, <1>11 DEF ProductsNext

(* Days are numbers.                                                       *)
LEMMA DaysAreNumbers ==
  ASSUME NEW day \in TermsDays
  PROVE  day \in Int
BY ProductsAssumption DEF TermsDays

(* It gives what the terms promise.                                        *)
LEMMA TermsFollow == TermsInv => TermsAreConsistent
<1> SUFFICES ASSUME TermsInv PROVE TermsAreConsistent
  OBVIOUS
<1>1. /\ TermsTablesAreTyped /\ TermsRowsAreSound /\ VersionsAreUnique
      /\ VersionsAreCounted /\ PeriodsAreApart
  BY DEF TermsInv
<1>2. ASSUME NEW p \in Catalogue
      PROVE  LET mine == TermsOf(p) IN
             /\ {t.version : t \in mine} = 1..Cardinality(mine)
             /\ \A t, u \in mine : t # u /\ t.status = "PUBLISHED" /\ u.status = "PUBLISHED" =>
                  (1..LastDay) \cap (t.from..t.to) \cap (u.from..u.to) = {}
             /\ \A t \in mine :
                  /\ Cardinality(TermsEvents("ProductTermsDrafted", p, t.version)) = 1
                  /\ Cardinality(TermsEvents("ProductTermsPublished", p, t.version))
                       = (IF t.status = "PUBLISHED" THEN 1 ELSE 0)
                  /\ \A i \in TermsEvents("ProductTermsPublished", p, t.version) :
                       /\ termsEvents[i].actor # t.creator
                       /\ \A key \in t.approval : \E a \in retroactive :
                            /\ a.key = key /\ a.product = p /\ a.version = t.version
                            /\ a.actor # termsEvents[i].actor
  <2>1. {t.version : t \in TermsOf(p)} = 1..Cardinality(TermsOf(p))
    BY <1>1 DEF VersionsAreCounted
  <2>2. ASSUME NEW t \in TermsOf(p), NEW u \in TermsOf(p), t # u, t.status = "PUBLISHED", u.status = "PUBLISHED"
        PROVE  (1..LastDay) \cap (t.from..t.to) \cap (u.from..u.to) = {}
    <3>1. ~Overlap(t, u)
      BY <1>1, <2>2 DEF PeriodsAreApart, TermsOf
    <3>2. t.from \in TermsDays /\ t.to \in TermsDays /\ u.from \in TermsDays /\ u.to \in TermsDays
      BY <1>1 DEF TermsOf, TermsTablesAreTyped, TermsRows
    <3>3. t.from \in Int /\ t.to \in Int /\ u.from \in Int /\ u.to \in Int
      BY <3>2, DaysAreNumbers
    <3>4. ASSUME NEW day \in (t.from..t.to) \cap (u.from..u.to) PROVE FALSE
      <4>1. day \in Int /\ t.from <= day /\ day <= t.to /\ u.from <= day /\ day <= u.to
        BY <3>3
      <4>2. t.from <= u.to /\ u.from <= t.to
        BY <3>3, <4>1
      <4> QED
        BY <3>1, <4>2 DEF Overlap
    <3> QED
      BY <3>4
  <2>3. ASSUME NEW kind, NEW v
        PROVE  TermsEvents(kind, p, v) = EventsOn(termsEvents, kind, p, v)
    BY DEF TermsEvents, EventsOn
  <2>4. ASSUME NEW t \in TermsOf(p)
        PROVE  /\ Cardinality(EventsOn(termsEvents, "ProductTermsDrafted", p, t.version)) = 1
               /\ Cardinality(EventsOn(termsEvents, "ProductTermsPublished", p, t.version))
                    = (IF t.status = "PUBLISHED" THEN 1 ELSE 0)
               /\ \A i \in EventsOn(termsEvents, "ProductTermsPublished", p, t.version) :
                    /\ termsEvents[i].actor # t.creator
                    /\ \A key \in t.approval : \E a \in retroactive :
                         /\ a.key = key /\ a.product = p /\ a.version = t.version
                         /\ a.actor # termsEvents[i].actor
    <3>1. t.product = p /\ TermsRowIsSound(t, termsEvents, retroactive)
      BY <1>1 DEF TermsOf, TermsRowsAreSound
    <3>2. PICK i : EventsOn(termsEvents, "ProductTermsDrafted", p, t.version) = {i}
      BY <3>1 DEF TermsRowIsSound
    <3>3. Cardinality({i}) = 1 /\ Cardinality({}) = 0
      BY FS_Singleton, FS_EmptySet
    <3>4. CASE t.status = "PUBLISHED"
      <4>1. PICK k : /\ EventsOn(termsEvents, "ProductTermsPublished", p, t.version) = {k}
                     /\ termsEvents[k].actor # t.creator
                     /\ \A key \in t.approval : \E a \in retroactive :
                          a.key = key /\ a.product = p /\ a.version = t.version /\ a.actor # termsEvents[k].actor
        BY <3>1, <3>4 DEF TermsRowIsSound
      <4>2. Cardinality({k}) = 1
        BY FS_Singleton
      <4> QED
        BY <3>2, <3>3, <3>4, <4>1, <4>2
    <3>5. CASE t.status # "PUBLISHED"
      <4>1. EventsOn(termsEvents, "ProductTermsPublished", p, t.version) = {}
        BY <3>1, <3>5 DEF TermsRowIsSound
      <4> QED
        BY <3>2, <3>3, <3>5, <4>1
    <3> QED
      BY <3>4, <3>5
  <2> QED
    BY <2>1, <2>2, <2>3, <2>4
<1> QED
  BY <1>2 DEF TermsAreConsistent

(* The promise about terms, for any products, people, periods and days:    *)
(* versions without a gap, published ones apart, drafted and published by  *)
(* two people with one event each, whichever publications race.            *)
THEOREM TermsStayConsistent == ProductsSpec => []TermsAreConsistent
<1>1. ProductsSpec => []TermsInv
  BY TermsStart, TermsStep, PTL DEF ProductsSpec
<1> QED
  BY <1>1, TermsFollow, PTL
=============================================================================
