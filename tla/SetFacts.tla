------------------------------ MODULE SetFacts ------------------------------
(***************************************************************************)
(* What the proofs need about finite sets, orders and sums.  Induction is  *)
(* stated with the set of the values a property holds of, in the place of  *)
(* the property.                                                           *)
(***************************************************************************)
EXTENDS Sums, FiniteSetTheorems, WellFoundedInduction, TLAPS

\* Induction on the subsets of a finite set: what a set has when all the sets with
\* one member less have it, every subset has.
LEMMA SubsetInduction ==
    ASSUME NEW S, IsFiniteSet(S), NEW Good,
           \A T \in SUBSET S : (\A x \in T : T \ {x} \in Good) => T \in Good
    PROVE  \A T \in SUBSET S : T \in Good
  <1> DEFINE Bad == {T \in SUBSET S : T \notin Good}
             R == StrictSubsetOrdering(S)
  <1> SUFFICES ASSUME Bad # {} PROVE FALSE
    OBVIOUS
  <1>1. Bad \subseteq FiniteSubsetsOf(S)
    BY FS_Subset DEF FiniteSubsetsOf
  <1>2. PICK T \in Bad : \A U \in Bad : ~(<<U, T>> \in R)
    <2>1. IsWellFoundedOn(R, FiniteSubsetsOf(S))
      BY FS_StrictSubsetOrderingWellFounded
    <2> HIDE DEF Bad, R
    <2> QED  BY <1>1, <2>1, WFMin
  <1>3. PICK x \in T : T \ {x} \in Bad
    BY Zenon
  <1>4. <<T \ {x}, T>> \in R
    BY DEF StrictSubsetOrdering
  <1> QED  BY <1>2, <1>3, <1>4, Zenon

\* Induction on a finite set: what holds of {} and is kept by adding an element
\* holds of the set.
LEMMA SetInduction ==
    ASSUME NEW S, IsFiniteSet(S), NEW Good,
           {} \in Good,
           \A T \in SUBSET S : \A x \in T : T \ {x} \in Good => T \in Good
    PROVE  S \in Good
  <1>1. ASSUME NEW T \in SUBSET S, \A x \in T : T \ {x} \in Good PROVE T \in Good
    <2>1. CASE T = {}
      BY <2>1
    <2>2. CASE T # {}
      BY <1>1, <2>2, Zenon
    <2> QED  BY <2>1, <2>2
  <1> QED  BY <1>1, SubsetInduction, Zenon

\* A nonempty, bounded set of naturals has a largest element.
LEMMA LargestElement ==
    ASSUME NEW S \in SUBSET Nat, S # {}, NEW n \in Nat, \A s \in S : s <= n
    PROVE  \E m \in S : \A s \in S : s <= m
  <1> DEFINE Good == {T \in SUBSET S : T # {} => \E m \in T : \A s \in T : s <= m}
  <1>1. IsFiniteSet(S)
    BY FS_BoundedSetOfNaturals
  <1>2. {} \in Good
    OBVIOUS
  <1>3. ASSUME NEW T \in SUBSET S, NEW x \in T, T \ {x} \in Good  PROVE T \in Good
    <2>1. CASE T \ {x} = {}
      <3>1. \A s \in T : s = x
        BY <2>1
      <3> QED  BY <3>1
    <2>2. CASE T \ {x} # {}
      <3>1. PICK m \in T \ {x} : \A s \in T \ {x} : s <= m
        BY <1>3, <2>2
      <3>2. m \in Nat /\ x \in Nat /\ \A s \in T : s \in Nat
        OBVIOUS
      <3>3. CASE x <= m
        BY <3>1, <3>2, <3>3
      <3>4. CASE ~(x <= m)
        <4>1. \A s \in T : s <= x
          BY <3>1, <3>2, <3>4
        <4> QED  BY <4>1
      <3> QED  BY <3>3, <3>4
    <2> QED  BY <2>1, <2>2
  <1>4. S \in Good
    <2> HIDE DEF Good
    <2> QED  BY <1>1, <1>2, <1>3, SetInduction, Zenon
  <1> QED  BY <1>4

\* A finite set of naturals is bounded.
LEMMA FiniteIsBounded ==
    ASSUME NEW S \in SUBSET Nat, IsFiniteSet(S)
    PROVE  \E n \in Nat : \A s \in S : s <= n
  <1> DEFINE Good == {T \in SUBSET S : \E n \in Nat : \A s \in T : s <= n}
  <1>1. {} \in Good
    BY 0 \in Nat
  <1>2. ASSUME NEW T \in SUBSET S, NEW x \in T, T \ {x} \in Good  PROVE T \in Good
    <2>1. PICK n \in Nat : \A s \in T \ {x} : s <= n
      BY <1>2
    <2>2. n + x \in Nat /\ \A s \in T : s \in Nat /\ s <= n + x
      BY <2>1
    <2> QED  BY <2>2
  <1>3. S \in Good
    <2> HIDE DEF Good
    <2> QED  BY <1>1, <1>2, SetInduction, Zenon
  <1> QED  BY <1>3

\* Every position below the size of a set is taken by one of its members.
LEMMA RankIsTaken ==
    ASSUME NEW S \in SUBSET Nat, IsFiniteSet(S), NEW i \in Nat, i < Cardinality(S)
    PROVE  \E a \in S : Rank(a, S) = i
  <1> DEFINE Taken(T) == \A j \in Nat : j < Cardinality(T) => \E a \in T : Rank(a, T) = j
             Good == {T \in SUBSET S : Taken(T)}
  <1>1. ASSUME NEW T \in SUBSET S, \A x \in T : T \ {x} \in Good  PROVE Taken(T)
    <2> SUFFICES ASSUME NEW j \in Nat, j < Cardinality(T) PROVE \E a \in T : Rank(a, T) = j
      OBVIOUS
    <2>0. IsFiniteSet(T)
      BY FS_Subset, Zenon
    <2>1. IsFiniteSet(T) /\ Cardinality(T) \in Nat /\ T # {}
      BY <2>0, FS_CardinalityType, FS_EmptySet
    <2>2. PICK m \in T : \A s \in T : s <= m
      <3>1. PICK n \in Nat : \A s \in T : s <= n
        BY <2>1, FiniteIsBounded
      <3> QED  BY <2>1, <3>1, LargestElement, Zenon
    <2>3. IsFiniteSet(T \ {m}) /\ Cardinality(T \ {m}) = Cardinality(T) - 1
      BY <2>1, <2>2, FS_RemoveElement
    <2>4. CASE j = Cardinality(T) - 1
      <3>1. m \in Nat /\ \A s \in T : s \in Nat
        OBVIOUS
      <3>2. \A s \in T : s < m <=> s # m
        BY <2>2, <3>1
      <3>3. {b \in T : b < m} = T \ {m}
        BY <3>2, Zenon
      <3> QED  BY <2>3, <2>4, <3>3, Zenon DEF Rank
    <2>5. CASE j < Cardinality(T) - 1
      <3>1. PICK a \in T \ {m} : Rank(a, T \ {m}) = j
        BY <1>1, <2>3, <2>5, Zenon
      <3>2. a \in Nat /\ m \in Nat /\ a <= m
        BY <2>2
      <3>3. {b \in T : b < a} = {b \in T \ {m} : b < a}
        BY <3>2
      <3> QED  BY <3>1, <3>3, Zenon DEF Rank
    <2> QED  BY <2>1, <2>4, <2>5
  <1>2. S \in Good
    <2> HIDE DEF Taken
    <2>1. \A T \in SUBSET S : (\A x \in T : T \ {x} \in Good) => T \in Good
      BY <1>1
    <2> HIDE DEF Good
    <2> QED  BY <2>1, SubsetInduction, Zenon
  <1> QED  BY <1>2

-----------------------------------------------------------------------------
(* Sums of naturals.  A sum is the number of coins when every member has a *)
(* purse of its own.                                                       *)

Coins(f, S) == UNION {{a} \X (1 .. f[a]) : a \in S}

LEMMA PurseIsFinite ==
    ASSUME NEW x, NEW n \in Nat
    PROVE  IsFiniteSet({x} \X (1 .. n)) /\ Cardinality({x} \X (1 .. n)) = n
  <1> DEFINE A == {x}  B == 1 .. n
  <1>1. IsFiniteSet(A) /\ Cardinality(A) = 1
    BY FS_Singleton
  <1>2. IsFiniteSet(B) /\ Cardinality(B) = n
    BY FS_Interval
  <1>3. IsFiniteSet(A \X B) /\ Cardinality(A \X B) = Cardinality(A) * Cardinality(B)
    <2> HIDE DEF A, B
    <2> QED  BY <1>1, <1>2, FS_Product
  <1> QED  BY <1>1, <1>2, <1>3

LEMMA CoinsAreFinite ==
    ASSUME NEW S, IsFiniteSet(S), NEW f, \A a \in S : f[a] \in Nat
    PROVE  IsFiniteSet(Coins(f, S))
  <1> DEFINE Good == {T \in SUBSET S : IsFiniteSet(Coins(f, T))}
  <1>1. {} \in Good
    <2>1. Coins(f, {}) = {}
      BY DEF Coins
    <2> QED  BY <2>1, FS_EmptySet
  <1>2. ASSUME NEW T \in SUBSET S, NEW x \in T, T \ {x} \in Good  PROVE T \in Good
    <2> DEFINE Purse == {x} \X (1 .. f[x])
    <2>1. Coins(f, T) = Coins(f, T \ {x}) \cup Purse
      BY DEF Coins
    <2>2. IsFiniteSet(Purse)
      BY PurseIsFinite, Zenon
    <2>3. IsFiniteSet(Coins(f, T \ {x}))
      BY <1>2
    <2>4. IsFiniteSet(Coins(f, T))
      <3> HIDE DEF Purse
      <3> QED  BY <2>1, <2>2, <2>3, FS_Union, Zenon
    <2> QED  BY <2>4
  <1>3. S \in Good
    <2> HIDE DEF Good
    <2> QED  BY <1>1, <1>2, SetInduction, Zenon
  <1> QED  BY <1>3

LEMMA CoinsSplit ==
    ASSUME NEW S, IsFiniteSet(S), NEW f, \A a \in S : f[a] \in Nat, NEW x \in S
    PROVE  Cardinality(Coins(f, S)) = f[x] + Cardinality(Coins(f, S \ {x}))
  <1> DEFINE Purse == {x} \X (1 .. f[x])
  <1>1. Coins(f, S) = Coins(f, S \ {x}) \cup Purse
    BY DEF Coins
  <1>2. Coins(f, S \ {x}) \cap Purse = {}
    BY DEF Coins
  <1>3. IsFiniteSet(Purse) /\ Cardinality(Purse) = f[x]
    BY PurseIsFinite, Zenon
  <1>4. IsFiniteSet(Coins(f, S \ {x}))
    BY FS_RemoveElement, CoinsAreFinite, Zenon
  <1>5. Cardinality(Coins(f, S)) =
            Cardinality(Coins(f, S \ {x})) + Cardinality(Purse) - Cardinality({})
    <2> HIDE DEF Purse
    <2>1. PICK R : R = Coins(f, S \ {x})
      OBVIOUS
    <2>2. Cardinality(R \cup Purse) = Cardinality(R) + Cardinality(Purse) - Cardinality(R \cap Purse)
      BY <1>3, <1>4, <2>1, FS_Union, Zenon
    <2> QED  BY <1>1, <1>2, <2>1, <2>2, Zenon
  <1> QED  BY <1>3, <1>4, <1>5, FS_EmptySet, FS_CardinalityType

\* What the recursion of MapThenSumSet computes.
LEMMA SumIsCount ==
    ASSUME NEW S, IsFiniteSet(S), NEW f, \A a \in S : f[a] \in Nat
    PROVE  SumOf(f, S) = Cardinality(Coins(f, S))
  <1> DEFINE Pick(s) == CHOOSE x \in s : TRUE
             count == [s \in SUBSET S |-> Cardinality(Coins(f, s))]
             Body(g) == [s \in SUBSET S |-> IF s = {} THEN 0 ELSE f[Pick(s)] + g[s \ {Pick(s)}]]
  <1>1. count = Body(count)
    <2>1. ASSUME NEW s \in SUBSET S PROVE count[s] = Body(count)[s]
      <3>1. CASE s = {}
        <4>1. Coins(f, {}) = {}
          BY DEF Coins
        <4> QED  BY <3>1, <4>1, FS_EmptySet
      <3>2. CASE s # {}
        <4>1. Pick(s) \in s
          BY <3>2
        <4>2. IsFiniteSet(s) /\ \A a \in s : f[a] \in Nat
          BY FS_Subset
        <4>3. Cardinality(Coins(f, s)) = f[Pick(s)] + Cardinality(Coins(f, s \ {Pick(s)}))
          <5> HIDE DEF Pick
          <5> QED  BY <4>1, <4>2, CoinsSplit
        <4> QED  BY <3>2, <4>1, <4>3
      <3> QED  BY <3>1, <3>2
    <2> QED  BY <2>1, Zenon
  <1>2. ASSUME NEW g, g = Body(g) PROVE g = count
    <2> DEFINE Good == {T \in SUBSET S : g[T] = count[T]}
    <2>1. ASSUME NEW T \in SUBSET S, \A x \in T : T \ {x} \in Good  PROVE T \in Good
      <3>1. g[T] = Body(g)[T] /\ count[T] = Body(count)[T]
        BY <1>1, <1>2, Zenon
      <3>2. CASE T = {}
        BY <3>1, <3>2
      <3>3. CASE T # {}
        <4>1. Pick(T) \in T
          BY <3>3
        <4>2. g[T \ {Pick(T)}] = count[T \ {Pick(T)}]
          BY <2>1, <4>1, Zenon
        <4> QED  BY <3>1, <3>3, <4>2
      <3> QED  BY <3>2, <3>3
    <2>2. \A T \in SUBSET S : T \in Good
      <3> HIDE DEF Good
      <3> QED  BY <2>1, SubsetInduction, Zenon
    <2> QED  BY <1>2, <2>2, Zenon
  <1> QED  BY <1>1, <1>2, Zenon DEF SumOf, MapThenSumSet, MapThenFoldSet

LEMMA SumType ==
    ASSUME NEW S, IsFiniteSet(S), NEW f, \A a \in S : f[a] \in Nat
    PROVE  SumOf(f, S) \in Nat
  BY SumIsCount, CoinsAreFinite, FS_CardinalityType

LEMMA SumEmpty ==
    ASSUME NEW f
    PROVE  SumOf(f, {}) = 0
  <1>1. Coins(f, {}) = {}
    BY DEF Coins
  <1> QED  BY <1>1, SumIsCount, FS_EmptySet

\* A member's share can be taken out of the sum.
LEMMA SumSplit ==
    ASSUME NEW S, IsFiniteSet(S), NEW f, \A a \in S : f[a] \in Nat, NEW x \in S
    PROVE  SumOf(f, S) = f[x] + SumOf(f, S \ {x})
  <1>1. IsFiniteSet(S \ {x})
    BY FS_RemoveElement
  <1> QED  BY <1>1, SumIsCount, CoinsSplit

LEMMA SumSingle ==
    ASSUME NEW x, NEW f, f[x] \in Nat
    PROVE  SumOf(f, {x}) = f[x]
  <1>1. PICK S : S = {x}
    BY Zenon
  <1>2. IsFiniteSet(S) /\ x \in S /\ (\A a \in S : f[a] \in Nat) /\ S \ {x} = {}
    BY <1>1, FS_Singleton
  <1>3. SumOf(f, S) = f[x] + SumOf(f, S \ {x})
    BY <1>2, SumSplit
  <1>4. SumOf(f, S \ {x}) = 0
    BY <1>2, SumEmpty
  <1> QED  BY <1>1, <1>3, <1>4

\* The sum depends on the values over the set only.
LEMMA SumSame ==
    ASSUME NEW S, IsFiniteSet(S), NEW f, NEW g, \A a \in S : f[a] \in Nat /\ g[a] = f[a]
    PROVE  SumOf(g, S) = SumOf(f, S)
  <1>1. Coins(g, S) = Coins(f, S)
    BY DEF Coins
  <1> QED  BY <1>1, SumIsCount

\* Changing one value changes the sum by as much.
LEMMA SumChange ==
    ASSUME NEW S, IsFiniteSet(S), NEW f, NEW g, NEW x \in S,
           \A a \in S : f[a] \in Nat /\ g[a] \in Nat /\ (a # x => g[a] = f[a])
    PROVE  SumOf(g, S) + f[x] = SumOf(f, S) + g[x]
  <1>1. SumOf(f, S) = f[x] + SumOf(f, S \ {x}) /\ SumOf(g, S) = g[x] + SumOf(g, S \ {x})
    BY SumSplit
  <1>2. IsFiniteSet(S \ {x})
    BY FS_RemoveElement
  <1>3. SumOf(g, S \ {x}) = SumOf(f, S \ {x}) /\ SumOf(f, S \ {x}) \in Nat
    BY <1>2, SumSame, SumType
  <1> QED  BY <1>1, <1>3

\* Sums add up.
LEMMA SumPlus ==
    ASSUME NEW S, IsFiniteSet(S), NEW f, NEW g, NEW h,
           \A a \in S : f[a] \in Nat /\ g[a] \in Nat /\ h[a] = f[a] + g[a]
    PROVE  SumOf(h, S) = SumOf(f, S) + SumOf(g, S)
  <1> DEFINE Good == {T \in SUBSET S : SumOf(h, T) = SumOf(f, T) + SumOf(g, T)}
  <1>1. {} \in Good
    BY SumEmpty
  <1>2. ASSUME NEW T \in SUBSET S, NEW x \in T, T \ {x} \in Good  PROVE T \in Good
    <2>1. IsFiniteSet(T) /\ IsFiniteSet(T \ {x}) /\ \A a \in T : h[a] \in Nat
      BY FS_Subset, FS_RemoveElement
    <2>2. /\ SumOf(f, T) = f[x] + SumOf(f, T \ {x})
          /\ SumOf(g, T) = g[x] + SumOf(g, T \ {x})
          /\ SumOf(h, T) = h[x] + SumOf(h, T \ {x})
      BY <2>1, SumSplit
    <2>3. SumOf(f, T \ {x}) \in Nat /\ SumOf(g, T \ {x}) \in Nat
      BY <2>1, SumType
    <2>4. SumOf(h, T) = SumOf(f, T) + SumOf(g, T)
      BY <1>2, <2>2, <2>3
    <2> QED  BY <2>4
  <1>3. S \in Good
    <2> HIDE DEF Good
    <2> QED  BY <1>1, <1>2, SetInduction, Zenon
  <1> QED  BY <1>3

\* A sum can be taken group by group: key[a] is the group of a.
LEMMA SumByGroup ==
    ASSUME NEW S, IsFiniteSet(S), NEW f, \A a \in S : f[a] \in Nat,
           NEW K, IsFiniteSet(K), NEW key, \A a \in S : key[a] \in K
    PROVE  SumOf([k \in K |-> SumOf(f, {a \in S : key[a] = k})], K) = SumOf(f, S)
  <1> DEFINE Part(T, k) == {a \in T : key[a] = k}
             Groups(T) == [k \in K |-> SumOf(f, Part(T, k))]
             Good == {T \in SUBSET S : SumOf(Groups(T), K) = SumOf(f, T)}
  <1>0. ASSUME NEW T \in SUBSET S, NEW k \in K
        PROVE  IsFiniteSet(Part(T, k)) /\ Groups(T)[k] = SumOf(f, Part(T, k)) /\ Groups(T)[k] \in Nat
    <2>1. IsFiniteSet(Part(T, k)) /\ \A a \in Part(T, k) : f[a] \in Nat
      BY FS_Subset
    <2> HIDE DEF Part
    <2> QED  BY <2>1, SumType
  <1>1. {} \in Good
    <2>1. \A k \in K : Groups({})[k] = 0
      <3>1. \A k \in K : Part({}, k) = {}
        OBVIOUS
      <3> HIDE DEF Part
      <3> QED  BY <3>1, SumEmpty
    <2>2. ASSUME NEW L \in SUBSET K PROVE SumOf(Groups({}), L) = 0
      <3> DEFINE Zero == {M \in SUBSET K : SumOf(Groups({}), M) = 0}
      <3> HIDE DEF Groups
      <3>1. ASSUME NEW M \in SUBSET K, \A x \in M : M \ {x} \in Zero PROVE M \in Zero
        <4>1. CASE M = {}
          BY <4>1, SumEmpty
        <4>2. CASE M # {}
          <5>1. PICK x \in M : TRUE
            BY <4>2
          <5>2. SumOf(Groups({}), M) = Groups({})[x] + SumOf(Groups({}), M \ {x})
            BY <2>1, FS_Subset, SumSplit
          <5> QED  BY <2>1, <3>1, <5>2
        <4> QED  BY <4>1, <4>2
      <3>2. \A M \in SUBSET K : M \in Zero
        <4> HIDE DEF Zero
        <4> QED  BY <3>1, SubsetInduction, Zenon
      <3> QED  BY <3>2
    <2> HIDE DEF Groups
    <2> QED  BY <2>2, SumEmpty
  <1>2. ASSUME NEW T \in SUBSET S, NEW x \in T, T \ {x} \in Good  PROVE T \in Good
    <2>1. \A k \in K \ {key[x]} : Part(T, k) = Part(T \ {x}, k)
      OBVIOUS
    <2>2. Part(T \ {x}, key[x]) = Part(T, key[x]) \ {x} /\ x \in Part(T, key[x])
      OBVIOUS
    <2>3. \A a \in Part(T, key[x]) : f[a] \in Nat
      OBVIOUS
    <2> HIDE DEF Part
    <2>4. Groups(T)[key[x]] = f[x] + Groups(T \ {x})[key[x]]
      <3>1. SumOf(f, Part(T, key[x])) = f[x] + SumOf(f, Part(T, key[x]) \ {x})
        BY <1>0, <2>2, <2>3, SumSplit
      <3> QED  BY <2>2, <3>1, Zenon
    <2>5. \A k \in K : Groups(T)[k] \in Nat /\ Groups(T \ {x})[k] \in Nat
                        /\ (k # key[x] => Groups(T)[k] = Groups(T \ {x})[k])
      BY <1>0, <2>1
    <2>6. SumOf(f, T) = f[x] + SumOf(f, T \ {x})
      BY FS_Subset, SumSplit, Zenon
    <2> HIDE DEF Groups
    <2>10. key[x] \in K
      OBVIOUS
    <2>7. SumOf(Groups(T), K) + Groups(T \ {x})[key[x]]
              = SumOf(Groups(T \ {x}), K) + Groups(T)[key[x]]
      <3>1. PICK A, B : A = Groups(T) /\ B = Groups(T \ {x})
        OBVIOUS
      <3>2. \A k \in K : A[k] \in Nat /\ B[k] \in Nat /\ (k # key[x] => A[k] = B[k])
        BY <2>5, <3>1
      <3>3. SumOf(A, K) + B[key[x]] = SumOf(B, K) + A[key[x]]
        BY <2>10, <3>2, SumChange
      <3> QED  BY <3>1, <3>3
    <2>8. SumOf(Groups(T), K) \in Nat /\ SumOf(Groups(T \ {x}), K) \in Nat
      BY <2>5, SumType, SMTT(30)
    <2>9. SumOf(Groups(T), K) = SumOf(f, T)
      BY <1>2, <2>4, <2>5, <2>6, <2>7, <2>8
    <2> QED  BY <2>9
  <1>3. S \in Good
    <2> HIDE DEF Good
    <2> QED  BY <1>1, <1>2, SetInduction, Zenon
  <1> QED  BY <1>3

\* A sum of equal shares.
LEMMA SumConstant ==
    ASSUME NEW S, IsFiniteSet(S), NEW c \in Nat, NEW f, \A a \in S : f[a] = c
    PROVE  SumOf(f, S) = c * Cardinality(S)
  <1> DEFINE Good == {T \in SUBSET S : SumOf(f, T) = c * Cardinality(T)}
  <1>1. {} \in Good
    BY SumEmpty, FS_EmptySet
  <1>2. ASSUME NEW T \in SUBSET S, NEW x \in T, T \ {x} \in Good  PROVE T \in Good
    <2>1. IsFiniteSet(T)
      BY FS_Subset
    <2>2. /\ Cardinality(T \ {x}) = Cardinality(T) - 1
          /\ Cardinality(T) \in Nat
      BY <2>1, FS_RemoveElement, FS_CardinalityType
    <2>3. SumOf(f, T) = f[x] + SumOf(f, T \ {x})
      BY <2>1, SumSplit
    <2>4. SumOf(f, T) = c + c * (Cardinality(T) - 1)
      BY <1>2, <2>2, <2>3
    <2>5. c + c * (Cardinality(T) - 1) = c * Cardinality(T)
      BY <2>2
    <2> QED  BY <2>4, <2>5
  <1>3. S \in Good
    <2> HIDE DEF Good
    <2> QED  BY <1>1, <1>2, SetInduction, Zenon
  <1> QED  BY <1>3

\* Multiplying every value multiplies the sum.
LEMMA SumScale ==
    ASSUME NEW S, IsFiniteSet(S), NEW c \in Nat, NEW f, NEW g,
           \A a \in S : f[a] \in Nat /\ g[a] = c * f[a]
    PROVE  SumOf(g, S) = c * SumOf(f, S)
  <1> DEFINE Good == {T \in SUBSET S : SumOf(g, T) = c * SumOf(f, T)}
  <1>1. {} \in Good
    BY SumEmpty
  <1>2. ASSUME NEW T \in SUBSET S, NEW x \in T, T \ {x} \in Good  PROVE T \in Good
    <2>1. IsFiniteSet(T) /\ IsFiniteSet(T \ {x}) /\ \A a \in T : f[a] \in Nat /\ g[a] \in Nat
      BY FS_Subset, FS_RemoveElement
    <2>2. SumOf(f, T) = f[x] + SumOf(f, T \ {x}) /\ SumOf(g, T) = g[x] + SumOf(g, T \ {x})
      BY <2>1, SumSplit
    <2>3. SumOf(f, T \ {x}) \in Nat
      BY <2>1, SumType
    <2>4. SumOf(g, T) = c * f[x] + c * SumOf(f, T \ {x})
      BY <1>2, <2>2
    <2>5. f[x] \in Nat
      OBVIOUS
    <2>6. c * f[x] + c * SumOf(f, T \ {x}) = c * (f[x] + SumOf(f, T \ {x}))
      BY <2>3, <2>5
    <2> QED  BY <2>2, <2>4, <2>6
  <1>3. S \in Good
    <2> HIDE DEF Good
    <2> QED  BY <1>1, <1>2, SetInduction, Zenon
  <1> QED  BY <1>3

\* A sum over a set is the sum over two parts of it.
LEMMA SumParts ==
    ASSUME NEW S, IsFiniteSet(S), NEW f, \A a \in S : f[a] \in Nat, NEW P \in SUBSET S
    PROVE  SumOf(f, S) = SumOf(f, P) + SumOf(f, S \ P)
  <1> DEFINE Q(T) == (S \ P) \cup T
             Good == {T \in SUBSET P : SumOf(f, Q(T)) = SumOf(f, T) + SumOf(f, S \ P)}
  <1>0. IsFiniteSet(P) /\ IsFiniteSet(S \ P) /\ SumOf(f, S \ P) \in Nat
    <2>1. IsFiniteSet(P) /\ IsFiniteSet(S \ P)
      BY FS_Subset, FS_Difference
    <2> QED  BY <2>1, SumType
  <1>1. {} \in Good
    <2>1. Q({}) = S \ P
      OBVIOUS
    <2> QED  BY <1>0, <2>1, SumEmpty
  <1>2. ASSUME NEW T \in SUBSET P, NEW x \in T, T \ {x} \in Good  PROVE T \in Good
    <2>1. Q(T) \subseteq S /\ x \in Q(T) /\ Q(T) \ {x} = Q(T \ {x})
      OBVIOUS
    <2>2. IsFiniteSet(Q(T)) /\ IsFiniteSet(T) /\ IsFiniteSet(T \ {x})
      BY <2>1, FS_Subset, FS_RemoveElement
    <2> HIDE DEF Q
    <2>3. \A a \in Q(T) : f[a] \in Nat
      BY <2>1
    <2>4. SumOf(f, Q(T)) = f[x] + SumOf(f, Q(T \ {x}))
      <3>1. PICK R : R = Q(T)
        OBVIOUS
      <3>2. SumOf(f, R) = f[x] + SumOf(f, R \ {x})
        BY <2>1, <2>2, <2>3, <3>1, SumSplit
      <3> QED  BY <2>1, <3>1, <3>2, Zenon
    <2>5. SumOf(f, T) = f[x] + SumOf(f, T \ {x}) /\ SumOf(f, T \ {x}) \in Nat /\ f[x] \in Nat
      BY <2>2, SumSplit, SumType
    <2>6. SumOf(f, Q(T)) = SumOf(f, T) + SumOf(f, S \ P)
      BY <1>0, <1>2, <2>4, <2>5
    <2> QED  BY <2>6
  <1>3. P \in Good
    <2> HIDE DEF Good
    <2> QED  BY <1>0, <1>1, <1>2, SetInduction, Zenon
  <1>4. Q(P) = S
    OBVIOUS
  <1> QED  BY <1>3, <1>4

\* A sum of values that are at least c is at least as many times c.
LEMMA SumAtLeast ==
    ASSUME NEW S, IsFiniteSet(S), NEW c \in Nat, NEW f, \A a \in S : f[a] \in Nat /\ f[a] >= c
    PROVE  SumOf(f, S) >= c * Cardinality(S)
  <1> DEFINE low == [a \in S |-> c]
             rest == [a \in S |-> f[a] - c]
  <1>1. SumOf(low, S) = c * Cardinality(S)
    BY SumConstant
  <1>2. \A a \in S : low[a] \in Nat /\ rest[a] \in Nat /\ f[a] = low[a] + rest[a]
    OBVIOUS
  <1> HIDE DEF low, rest
  <1>3. SumOf(f, S) = SumOf(low, S) + SumOf(rest, S)
    BY <1>2, SumPlus
  <1>4. SumOf(rest, S) \in Nat /\ SumOf(low, S) \in Nat
    BY <1>2, SumType
  <1> QED  BY <1>1, <1>3, <1>4

-----------------------------------------------------------------------------
(* Division with a remainder.                                              *)

LEMMA Division ==
    ASSUME NEW x \in Nat, NEW d \in Nat \ {0}
    PROVE  /\ x \div d \in Nat
           /\ d * (x \div d) <= x
           /\ x <= d * (x \div d) + (d - 1)
  OBVIOUS

\* A factor can be cancelled.
LEMMA Cancel ==
    ASSUME NEW d \in Nat \ {0}, NEW x \in Int, NEW y \in Int, d * x < d * y
    PROVE  x < y
  <1> SUFFICES ASSUME y <= x PROVE FALSE
    OBVIOUS
  <1>1. PICK z \in Nat : x = y + z
    <2>1. x - y \in Nat /\ x = y + (x - y)
      OBVIOUS
    <2> QED  BY <2>1
  <1>2. d * x = d * y + d * z /\ d * z \in Nat /\ d * y \in Int
    BY <1>1
  <1> QED  BY <1>2

\* Rounding every quotient down loses less than one each.
LEMMA SumOfQuotients ==
    ASSUME NEW S, IsFiniteSet(S), NEW d \in Nat \ {0}, NEW f, NEW g,
           \A a \in S : f[a] \in Nat /\ g[a] = f[a] \div d
    PROVE  /\ d * SumOf(g, S) <= SumOf(f, S)
           /\ SumOf(f, S) <= d * SumOf(g, S) + (d - 1) * Cardinality(S)
  <1> DEFINE dg == [a \in S |-> d * g[a]]
             rest == [a \in S |-> f[a] - d * g[a]]
             lost == [a \in S |-> (d - 1) - rest[a]]
  <1>1. \A a \in S : /\ g[a] \in Nat /\ dg[a] \in Nat /\ rest[a] \in Nat /\ lost[a] \in Nat
                      /\ f[a] = dg[a] + rest[a] /\ rest[a] + lost[a] = d - 1
    <2> SUFFICES ASSUME NEW a \in S
                 PROVE  /\ g[a] \in Nat /\ dg[a] \in Nat /\ rest[a] \in Nat /\ lost[a] \in Nat
                        /\ f[a] = dg[a] + rest[a] /\ rest[a] + lost[a] = d - 1
      OBVIOUS
    <2>1. g[a] \in Nat /\ d * g[a] <= f[a] /\ f[a] <= d * g[a] + (d - 1) /\ f[a] \in Nat
      BY Division, Zenon
    <2>2. d * g[a] \in Nat
      BY <2>1
    <2>3. dg[a] = d * g[a] /\ rest[a] = f[a] - d * g[a] /\ lost[a] = (d - 1) - (f[a] - d * g[a])
      OBVIOUS
    <2> HIDE DEF dg, rest, lost
    <2> QED  BY <2>1, <2>2, <2>3
  <1>2. SumOf(dg, S) = d * SumOf(g, S)
    BY <1>1, SumScale
  <1> DEFINE all == [a \in S |-> d - 1]
  <1>3. SumOf(all, S) = (d - 1) * Cardinality(S)
    BY SumConstant
  <1>4. \A a \in S : all[a] = rest[a] + lost[a]
    BY <1>1
  <1> HIDE DEF dg, rest, lost, all
  <1>5. SumOf(f, S) = SumOf(dg, S) + SumOf(rest, S)
    BY <1>1, SumPlus
  <1>6. SumOf(all, S) = SumOf(rest, S) + SumOf(lost, S)
    BY <1>1, <1>4, SumPlus
  <1>7. SumOf(dg, S) \in Nat /\ SumOf(rest, S) \in Nat /\ SumOf(lost, S) \in Nat
    BY <1>1, SumType
  <1> QED  BY <1>2, <1>3, <1>5, <1>6, <1>7

\* As many members as one likes are among the first ones.
LEMMA FirstOnes ==
    ASSUME NEW S \in SUBSET Nat, IsFiniteSet(S), NEW j \in Nat, j <= Cardinality(S)
    PROVE  SumOf([a \in S |-> IF Rank(a, S) < j THEN 1 ELSE 0], S) = j
  <1> DEFINE first(T, k) == [a \in T |-> IF Rank(a, T) < k THEN 1 ELSE 0]
             Right(T) == \A k \in Nat : k <= Cardinality(T) => SumOf(first(T, k), T) = k
             Good == {T \in SUBSET S : Right(T)}
  <1>1. ASSUME NEW T \in SUBSET S, \A x \in T : T \ {x} \in Good  PROVE Right(T)
    <2> SUFFICES ASSUME NEW k \in Nat, k <= Cardinality(T) PROVE SumOf(first(T, k), T) = k
      OBVIOUS
    <2>1. IsFiniteSet(T)
      BY FS_Subset, Zenon
    <2>2. Cardinality(T) \in Nat
      BY <2>1, FS_CardinalityType
    <2>3. \A a \in T : first(T, k)[a] \in Nat
      OBVIOUS
    <2>4. CASE T = {}
      BY <2>4, SumEmpty, FS_EmptySet
    <2>5. CASE T # {}
      <3>1. PICK m \in T : \A s \in T : s <= m
        <4>1. PICK n \in Nat : \A s \in T : s <= n
          BY <2>1, FiniteIsBounded
        <4> QED  BY <2>5, <4>1, LargestElement, Zenon
      <3>2. IsFiniteSet(T \ {m}) /\ Cardinality(T \ {m}) = Cardinality(T) - 1
        BY <2>1, FS_RemoveElement, Zenon
      <3>3. Rank(m, T) = Cardinality(T) - 1
        <4>1. m \in Nat /\ \A s \in T : s \in Nat
          OBVIOUS
        <4>2. \A s \in T : s < m <=> s # m
          BY <3>1, <4>1
        <4>3. {b \in T : b < m} = T \ {m}
          BY <4>2, Zenon
        <4> QED  BY <3>2, <4>3 DEF Rank
      <3>4. CASE k = Cardinality(T)
        <4>1. ASSUME NEW a \in T PROVE Rank(a, T) < k
          <5>1. {b \in T : b < a} \subseteq T \ {a}
            OBVIOUS
          <5>2. IsFiniteSet(T \ {a}) /\ Cardinality(T \ {a}) = Cardinality(T) - 1
            BY <2>1, FS_RemoveElement
          <5>3. Cardinality({b \in T : b < a}) <= Cardinality(T) - 1
            BY <5>1, <5>2, FS_Subset
          <5>4. Cardinality({b \in T : b < a}) \in Nat
            BY <5>1, <5>2, FS_Subset, FS_CardinalityType
          <5> QED  BY <2>2, <3>4, <5>3, <5>4 DEF Rank
        <4>2. \A a \in T : first(T, k)[a] = 1
          BY <4>1
        <4> HIDE DEF first
        <4>3. SumOf(first(T, k), T) = 1 * Cardinality(T)
          BY <2>1, <4>2, SumConstant, Zenon
        <4> QED  BY <2>2, <3>4, <4>3
      <3>5. CASE k < Cardinality(T)
        <4>1. first(T, k)[m] = 0
          BY <2>2, <3>3, <3>5
        <4>2. ASSUME NEW a \in T \ {m} PROVE first(T, k)[a] = first(T \ {m}, k)[a]
          <5>1. a \in Nat /\ m \in Nat /\ a <= m
            BY <3>1
          <5>2. {b \in T : b < a} = {b \in T \ {m} : b < a}
            BY <5>1
          <5> QED  BY <5>2 DEF Rank
        <4>3. \A a \in T \ {m} : first(T \ {m}, k)[a] \in Nat
          OBVIOUS
        <4>4. SumOf(first(T \ {m}, k), T \ {m}) = k
          <5>1. k <= Cardinality(T \ {m})
            BY <2>2, <3>2, <3>5
          <5>2. Right(T \ {m})
            <6> HIDE DEF Right
            <6> QED  BY <1>1
          <5> HIDE DEF first
          <5> QED  BY <5>1, <5>2
        <4> HIDE DEF first
        <4>5. SumOf(first(T, k), T) = first(T, k)[m] + SumOf(first(T, k), T \ {m})
          <5>1. PICK g : g = first(T, k)
            OBVIOUS
          <5> QED  BY <2>1, <2>3, <5>1, SumSplit, Zenon
        <4>6. SumOf(first(T, k), T \ {m}) = SumOf(first(T \ {m}, k), T \ {m})
          <5>1. PICK g, h : g = first(T, k) /\ h = first(T \ {m}, k)
            OBVIOUS
          <5>2. \A a \in T \ {m} : h[a] \in Nat /\ g[a] = h[a]
            BY <4>2, <4>3, <5>1
          <5> QED  BY <3>2, <5>1, <5>2, SumSame, Zenon
        <4> QED  BY <4>1, <4>4, <4>5, <4>6
      <3> QED  BY <2>2, <3>4, <3>5
    <2> QED  BY <2>4, <2>5
  <1>2. S \in Good
    <2> HIDE DEF Right
    <2>1. \A T \in SUBSET S : (\A x \in T : T \ {x} \in Good) => T \in Good
      BY <1>1
    <2> HIDE DEF Good
    <2> QED  BY <2>1, SubsetInduction, Zenon
  <1> QED  BY <1>2

=============================================================================
