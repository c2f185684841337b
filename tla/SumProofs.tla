------------------------------ MODULE SumProofs ------------------------------
(***************************************************************************)
(* Facts about finite sets and the sums of Sums that the proofs about the  *)
(* schedules, the assignments and the allocations need.  An induction over *)
(* a set or a number is an argument about the least exception.             *)
(***************************************************************************)
EXTENDS Sums, FiniteSets, FiniteSetsExt, FiniteSetTheorems, WellFoundedInduction, TLAPS

-----------------------------------------------------------------------------
(* Finite sets, by their size.                                              *)

\* If some subset of a finite set is bad, then one is whose proper subsets are not.
LEMMA SmallestBad ==
    ASSUME NEW S, IsFiniteSet(S), NEW Bad \in SUBSET (SUBSET S), Bad # {}
    PROVE  \E T \in Bad : \A U \in SUBSET T : U # T => U \notin Bad
<1>1. PICK T \in Bad : \A U \in Bad : <<U, T>> \notin StrictSubsetOrdering(S)
  <2>1. IsWellFoundedOn(StrictSubsetOrdering(S), FiniteSubsetsOf(S))
    BY FS_StrictSubsetOrderingWellFounded, Zenon
  <2>2. FiniteSubsetsOf(S) = SUBSET S
    BY FS_FiniteSubsetsOfFinite, Zenon
  <2>3. IsWellFoundedOn(StrictSubsetOrdering(S), SUBSET S)
    BY <2>1, <2>2, Zenon
  <2> QED
    BY <2>3, WFMin, Zenon
<1>2. ASSUME NEW U \in SUBSET T, U # T PROVE U \notin Bad
  <2>1. <<U, T>> \in StrictSubsetOrdering(S)
    BY <1>2 DEF StrictSubsetOrdering
  <2> QED
    BY <1>1, <2>1, Zenon
<1> QED
  BY <1>2, Zenon

\* What holds of the empty set and of every set that one more member makes, as a
\* set of sets.
LEMMA AllSubsets ==
    ASSUME NEW S, IsFiniteSet(S), NEW Good, {} \in Good,
           \A T \in SUBSET S : \A e \in S \ T : T \in Good => T \cup {e} \in Good
    PROVE  \A T \in SUBSET S : T \in Good
<1> DEFINE Bad == {T \in SUBSET S : T \notin Good}
<1>1. SUFFICES ASSUME Bad # {} PROVE FALSE
  OBVIOUS
<1>2. PICK T \in Bad : \A U \in SUBSET T : U # T => U \notin Bad
  <2> HIDE DEF Bad
  <2>1. Bad \in SUBSET (SUBSET S)
    BY DEF Bad
  <2> QED
    BY <1>1, <2>1, SmallestBad, Zenon
<1>3. PICK e \in T : TRUE
  OBVIOUS
<1>4. T \ {e} \in Good /\ T \ {e} \in SUBSET S /\ e \in S \ (T \ {e})
  BY <1>2, <1>3
<1>5. (T \ {e}) \cup {e} = T
  BY <1>3
<1> QED
  BY <1>4, <1>5

\* A function takes finitely many values on a finite set.
LEMMA FiniteImage ==
    ASSUME NEW S, IsFiniteSet(S), NEW f
    PROVE  IsFiniteSet({f[e] : e \in S})
<1> DEFINE Image(T) == {f[e] : e \in T}
           Good == {T \in SUBSET S : IsFiniteSet(Image(T))}
<1>1. {} \in Good
  <2>1. Image({}) = {}
    OBVIOUS
  <2> QED
    BY <2>1, FS_EmptySet
<1>2. ASSUME NEW T \in SUBSET S, NEW e \in S \ T, T \in Good PROVE T \cup {e} \in Good
  <2>1. Image(T \cup {e}) = Image(T) \cup {f[e]}
    OBVIOUS
  <2>2. IsFiniteSet(Image(T))
    BY <1>2
  <2> HIDE DEF Image
  <2>3. IsFiniteSet(Image(T) \cup {f[e]})
    BY <2>2, FS_AddElement
  <2> QED
    BY <2>1, <2>3
<1>3. S \in Good
  <2> HIDE DEF Good
  <2> QED
    BY <1>1, <1>2, AllSubsets
<1> QED
  BY <1>3

-----------------------------------------------------------------------------
(* Sums.                                                                    *)

Pick(T) == CHOOSE e \in T : TRUE

\* The sums of f over the subsets of S.
Sums(f, S, sum) ==
    sum = [T \in SUBSET S |-> IF T = {} THEN 0 ELSE f[Pick(T)] + sum[T \ {Pick(T)}]]

\* What is picked is a member.
LEMMA PickIn == ASSUME NEW T, T # {} PROVE Pick(T) \in T
BY DEF Pick

\* Two solutions agree on the sets that both are about.
LEMMA SumsAgree ==
    ASSUME NEW f, NEW S, NEW R, NEW g, NEW h, Sums(f, S, g), Sums(f, R, h),
           NEW V, IsFiniteSet(V), V \subseteq S, V \subseteq R
    PROVE  g[V] = h[V]
<1> DEFINE Bad == {T \in SUBSET V : g[T] # h[T]}
<1>1. SUFFICES ASSUME Bad # {} PROVE FALSE
  OBVIOUS
<1>2. PICK T \in Bad : \A U \in SUBSET T : U # T => U \notin Bad
  <2> HIDE DEF Bad
  <2>1. Bad \in SUBSET (SUBSET V)
    BY DEF Bad
  <2> QED
    BY <1>1, <2>1, SmallestBad, Zenon
<1>3. T \in SUBSET S /\ T \in SUBSET R
  OBVIOUS
<1>4. /\ g[T] = IF T = {} THEN 0 ELSE f[Pick(T)] + g[T \ {Pick(T)}]
      /\ h[T] = IF T = {} THEN 0 ELSE f[Pick(T)] + h[T \ {Pick(T)}]
  BY <1>3 DEF Sums
<1>5. T # {}
  BY <1>4
<1>6. T \ {Pick(T)} \in SUBSET T /\ T \ {Pick(T)} # T
  BY <1>5, PickIn
<1>7. g[T \ {Pick(T)}] = h[T \ {Pick(T)}]
  BY <1>2, <1>6
<1> QED
  BY <1>4, <1>5, <1>7

\* Total picks a solution, if there is one.
LEMMA TotalIsSum ==
    ASSUME NEW f, NEW S, NEW g, Sums(f, S, g), IsFiniteSet(S)
    PROVE  Total(f, S) = g[S]
<1>1. Total(f, S) = (CHOOSE sum : Sums(f, S, sum))[S]
  BY DEF Total, Sums, Pick
<1>2. Sums(f, S, CHOOSE sum : Sums(f, S, sum))
  BY Zenon
<1> QED
  BY <1>1, <1>2, SumsAgree

\* A finite set has sums, because its proper subsets have.
LEMMA SumsExist ==
    ASSUME NEW f, NEW S, IsFiniteSet(S)
    PROVE  \E g : Sums(f, S, g)
<1> DEFINE Bad == {T \in SUBSET S : ~\E g : Sums(f, T, g)}
<1>1. SUFFICES ASSUME Bad # {} PROVE FALSE
  OBVIOUS
<1>2. PICK T \in Bad : \A U \in SUBSET T : U # T => U \notin Bad
  <2> HIDE DEF Bad
  <2>1. Bad \in SUBSET (SUBSET S)
    BY DEF Bad
  <2> QED
    BY <1>1, <2>1, SmallestBad, Zenon
<1> DEFINE g == [U \in SUBSET T |-> IF U = {} THEN 0
                                   ELSE f[Pick(U)] + Total(f, U \ {Pick(U)})]
<1>3. ASSUME NEW U \in SUBSET T, U # T
      PROVE  Total(f, U) = g[U]
  <2>1. U \in SUBSET S
    OBVIOUS
  <2>2. PICK h : Sums(f, U, h)
    BY <1>2, <1>3, <2>1
  <2>3. IsFiniteSet(U)
    BY <2>1, FS_Subset
  <2>4. Total(f, U) = h[U]
    BY <2>2, <2>3, TotalIsSum
  <2>5. h[U] = IF U = {} THEN 0 ELSE f[Pick(U)] + h[U \ {Pick(U)}]
    <3>1. U \in SUBSET U
      OBVIOUS
    <3> QED
      BY <2>2, <3>1 DEF Sums
  <2>6. CASE U = {}
    BY <2>4, <2>5, <2>6
  <2>7. CASE U # {}
    <3> DEFINE W == U \ {Pick(U)}
    <3>1. Pick(U) \in U
      BY <2>7, PickIn
    <3>2. W \in SUBSET T /\ W # T /\ W \in SUBSET S /\ W \subseteq U
      BY <3>1
    <3>3. PICK k : Sums(f, W, k)
      BY <1>2, <3>2
    <3>4. IsFiniteSet(W)
      BY <3>2, FS_Subset
    <3>5. Total(f, W) = k[W]
      BY <3>3, <3>4, TotalIsSum
    <3>6. k[W] = h[W]
      <4> HIDE DEF W, Bad, g
      <4> QED
        BY <2>2, <3>2, <3>3, <3>4, SumsAgree
    <3>7. g[U] = f[Pick(U)] + Total(f, W)
      BY <2>7
    <3>8. h[U] = f[Pick(U)] + h[W]
      BY <2>5, <2>7
    <3> QED
      BY <2>4, <3>5, <3>6, <3>7, <3>8
  <2> QED
    BY <2>6, <2>7
<1>4. \A U \in SUBSET T : U # {} => Total(f, U \ {Pick(U)}) = g[U \ {Pick(U)}]
  <2> SUFFICES ASSUME NEW U \in SUBSET T, U # {}
               PROVE  Total(f, U \ {Pick(U)}) = g[U \ {Pick(U)}]
    OBVIOUS
  <2>1. U \ {Pick(U)} \in SUBSET T /\ U \ {Pick(U)} # T
    BY PickIn
  <2> HIDE DEF g
  <2> QED
    BY <1>3, <2>1
<1>5. g = [U \in SUBSET T |-> IF U = {} THEN 0 ELSE f[Pick(U)] + g[U \ {Pick(U)}]]
  <2>1. \A U \in SUBSET T : g[U] = IF U = {} THEN 0 ELSE f[Pick(U)] + g[U \ {Pick(U)}]
    <3>1. \A U \in SUBSET T : g[U] = IF U = {} THEN 0
                                     ELSE f[Pick(U)] + Total(f, U \ {Pick(U)})
      OBVIOUS
    <3> HIDE DEF g
    <3> QED
      BY <1>4, <3>1
  <2>2. g = [U \in SUBSET T |-> g[U]]
    OBVIOUS
  <2> HIDE DEF g
  <2> QED
    BY <2>1, <2>2
<1>6. Sums(f, T, g)
  BY <1>5 DEF Sums
<1> QED
  BY <1>2, <1>6

\* The sum over nothing, and over something.
LEMMA TotalStep ==
    ASSUME NEW f, NEW S, IsFiniteSet(S)
    PROVE  Total(f, S) = IF S = {} THEN 0 ELSE f[Pick(S)] + Total(f, S \ {Pick(S)})
<1>1. PICK g : Sums(f, S, g)
  BY SumsExist
<1>2. Total(f, S) = g[S]
  BY <1>1, TotalIsSum
<1>3. g[S] = IF S = {} THEN 0 ELSE f[Pick(S)] + g[S \ {Pick(S)}]
  <2>1. S \in SUBSET S
    OBVIOUS
  <2> QED
    BY <1>1, <2>1 DEF Sums
<1>4. Total(f, S \ {Pick(S)}) = g[S \ {Pick(S)}]
  <2> DEFINE U == S \ {Pick(S)}
  <2>1. U \in SUBSET S
    OBVIOUS
  <2>2. IsFiniteSet(U)
    BY <2>1, FS_Subset, Zenon
  <2>3. PICK h : Sums(f, U, h)
    BY <2>2, SumsExist
  <2> HIDE DEF U
  <2>4. Total(f, U) = h[U]
    BY <2>2, <2>3, TotalIsSum
  <2>5. h[U] = g[U]
    BY <1>1, <2>1, <2>2, <2>3, SumsAgree
  <2> QED
    BY <2>4, <2>5 DEF U
<1> QED
  BY <1>2, <1>3, <1>4

\* The sum over nothing.
LEMMA TotalOfNothing == ASSUME NEW f PROVE Total(f, {}) = 0
BY TotalStep, FS_EmptySet


\* Which member a sum takes out does not matter.
LEMMA TotalAny ==
    ASSUME NEW f, NEW S, IsFiniteSet(S), \A e \in S : f[e] \in Int
    PROVE  /\ Total(f, S) \in Int
           /\ \A e \in S : Total(f, S) = f[e] + Total(f, S \ {e})
<1> DEFINE Fine(T) == /\ Total(f, T) \in Int
                      /\ \A e \in T : Total(f, T) = f[e] + Total(f, T \ {e})
           Bad == {T \in SUBSET S : ~Fine(T)}
<1>1. SUFFICES ASSUME Bad # {} PROVE FALSE
  <2>1. S \notin Bad => Fine(S)
    OBVIOUS
  <2> QED
    BY <1>1, <2>1
<1>2. PICK T \in Bad : \A U \in SUBSET T : U # T => U \notin Bad
  <2> HIDE DEF Bad
  <2>1. Bad \in SUBSET (SUBSET S)
    BY DEF Bad
  <2> QED
    BY <1>1, <2>1, SmallestBad, Zenon
<1> DEFINE c == Pick(T)
<1>3. \A U \in SUBSET T : U # T => Fine(U)
  BY <1>2
<1>4. T # {} => c \in T
  BY PickIn
<1>5. Total(f, T) = IF T = {} THEN 0 ELSE f[c] + Total(f, T \ {c})
  <2>1. IsFiniteSet(T)
    BY FS_Subset
  <2> QED
    BY <2>1, TotalStep
<1> HIDE DEF c, Fine
<1>6. T = {} => Fine(T)
  BY <1>5 DEF Fine
<1>7. ASSUME T # {} PROVE Fine(T)
  <2>1. c \in T /\ f[c] \in Int
    BY <1>4, <1>7
  <2>2. Fine(T \ {c})
    BY <1>3, <2>1
  <2>3. Total(f, T) = f[c] + Total(f, T \ {c}) /\ Total(f, T \ {c}) \in Int
    BY <1>5, <1>7, <2>2 DEF Fine
  <2>4. ASSUME NEW e \in T, e # c
        PROVE  Total(f, T) = f[e] + Total(f, T \ {e})
    <3> DEFINE R == (T \ {c}) \ {e}
    <3>1. /\ e \in T \ {c} /\ c \in T \ {e} /\ R = (T \ {e}) \ {c}
          /\ f[e] \in Int
      BY <2>1, <2>4
    <3>2. Fine(T \ {e}) /\ Fine(R)
      BY <1>3
    <3>3. Total(f, T \ {c}) = f[e] + Total(f, R)
      BY <2>2, <3>1 DEF Fine
    <3>4. Total(f, T \ {e}) = f[c] + Total(f, R)
      BY <3>1, <3>2 DEF Fine
    <3>5. Total(f, R) \in Int
      BY <3>2 DEF Fine
    <3> QED
      BY <2>1, <2>3, <3>1, <3>3, <3>4, <3>5
  <2>5. Total(f, T) \in Int
    BY <2>1, <2>3
  <2>6. \A e \in T : Total(f, T) = f[e] + Total(f, T \ {e})
    BY <2>3, <2>4, Zenon
  <2> QED
    BY <2>5, <2>6, Zenon DEF Fine
<1> QED
  BY <1>2, <1>6, <1>7

\* A sum gains what a new member adds.
LEMMA TotalAdd ==
    ASSUME NEW f, NEW S, IsFiniteSet(S), NEW e, e \notin S, \A d \in S \cup {e} : f[d] \in Int
    PROVE  Total(f, S \cup {e}) = f[e] + Total(f, S)
<1>1. IsFiniteSet(S \cup {e})
  BY FS_AddElement
<1>2. (S \cup {e}) \ {e} = S /\ e \in S \cup {e}
  OBVIOUS
<1> QED
  BY <1>1, <1>2, TotalAny

\* The sum only depends on the values.
LEMMA TotalSame ==
    ASSUME NEW f, NEW g, NEW S, IsFiniteSet(S), \A e \in S : f[e] \in Int /\ g[e] = f[e]
    PROVE  Total(g, S) = Total(f, S)
<1> DEFINE Good == {T \in SUBSET S : Total(g, T) = Total(f, T)}
<1>1. {} \in Good
  BY TotalOfNothing
<1>2. ASSUME NEW T \in SUBSET S, NEW e \in S \ T, T \in Good PROVE T \cup {e} \in Good
  <2>1. IsFiniteSet(T)
    BY FS_Subset
  <2>2. /\ Total(f, T \cup {e}) = f[e] + Total(f, T)
        /\ Total(g, T \cup {e}) = g[e] + Total(g, T)
    BY <2>1, TotalAdd
  <2> QED
    BY <1>2, <2>2
<1>3. S \in Good
  <2> HIDE DEF Good
  <2> QED
    BY <1>1, <1>2, AllSubsets
<1> QED
  BY <1>3

\* What is at most as much everywhere sums to at most as much.
LEMMA TotalMonotone ==
    ASSUME NEW f, NEW g, NEW S, IsFiniteSet(S),
           \A e \in S : f[e] \in Int /\ g[e] \in Int /\ f[e] <= g[e]
    PROVE  Total(f, S) <= Total(g, S)
<1> DEFINE Good == {T \in SUBSET S : Total(f, T) <= Total(g, T)}
<1>1. {} \in Good
  BY TotalOfNothing
<1>2. ASSUME NEW T \in SUBSET S, NEW e \in S \ T, T \in Good PROVE T \cup {e} \in Good
  <2>1. IsFiniteSet(T)
    BY FS_Subset
  <2>2. /\ Total(f, T \cup {e}) = f[e] + Total(f, T)
        /\ Total(g, T \cup {e}) = g[e] + Total(g, T)
    BY <2>1, TotalAdd
  <2>3. Total(f, T) \in Int /\ Total(g, T) \in Int
    BY <2>1, TotalAny
  <2> QED
    BY <1>2, <2>2, <2>3
<1>3. S \in Good
  <2> HIDE DEF Good
  <2> QED
    BY <1>1, <1>2, AllSubsets
<1> QED
  BY <1>3

\* Members that add nothing may be left out.
LEMMA TotalOfSome ==
    ASSUME NEW f, NEW S, IsFiniteSet(S), \A e \in S : f[e] \in Int,
           NEW R \in SUBSET S, \A e \in S \ R : f[e] = 0
    PROVE  Total(f, S) = Total(f, R)
<1> DEFINE Good == {T \in SUBSET S : Total(f, T) = Total(f, T \cap R)}
<1>1. {} \in Good
  OBVIOUS
<1>2. ASSUME NEW T \in SUBSET S, NEW e \in S \ T, T \in Good PROVE T \cup {e} \in Good
  <2>1. IsFiniteSet(T) /\ IsFiniteSet(T \cap R)
    BY FS_Subset
  <2>2. Total(f, T \cup {e}) = f[e] + Total(f, T)
    BY <2>1, TotalAdd
  <2>3. Total(f, T) \in Int
    BY <2>1, TotalAny
  <2>4. CASE e \in R
    <3>1. (T \cup {e}) \cap R = (T \cap R) \cup {e} /\ e \notin T \cap R
      BY <2>4
    <3>2. Total(f, (T \cap R) \cup {e}) = f[e] + Total(f, T \cap R)
      BY <2>1, <3>1, TotalAdd
    <3> QED
      BY <1>2, <2>2, <3>1, <3>2
  <2>5. CASE e \notin R
    <3>1. (T \cup {e}) \cap R = T \cap R /\ f[e] = 0
      BY <2>5
    <3>2. Total(f, T \cup {e}) = Total(f, T)
      BY <2>2, <2>3, <3>1
    <3>3. Total(f, T) = Total(f, T \cap R)
      BY <1>2
    <3> QED
      BY <3>1, <3>2, <3>3
  <2> QED
    BY <2>4, <2>5
<1>3. S \in Good
  <2> HIDE DEF Good
  <2> QED
    BY <1>1, <1>2, AllSubsets
<1>4. S \cap R = R
  OBVIOUS
<1> QED
  BY <1>3, <1>4

\* Ones sum to the size, a constant to its multiple.
LEMMA TotalOfConstant ==
    ASSUME NEW f, NEW S, IsFiniteSet(S), NEW k \in Int, \A e \in S : f[e] = k
    PROVE  Total(f, S) = k * Cardinality(S)
<1> DEFINE Good == {T \in SUBSET S : Total(f, T) = k * Cardinality(T)}
<1>1. {} \in Good
  BY TotalOfNothing, FS_EmptySet
<1>2. ASSUME NEW T \in SUBSET S, NEW e \in S \ T, T \in Good PROVE T \cup {e} \in Good
  <2>1. IsFiniteSet(T)
    BY FS_Subset
  <2>2. Total(f, T \cup {e}) = k + Total(f, T)
    BY <2>1, TotalAdd
  <2>3. Cardinality(T \cup {e}) = Cardinality(T) + 1 /\ Cardinality(T) \in Nat
    BY <2>1, FS_AddElement, FS_CardinalityType
  <2>4. \A n \in Nat : k * (n + 1) = k + k * n
    OBVIOUS
  <2> QED
    BY <1>2, <2>2, <2>3, <2>4
<1>3. S \in Good
  <2> HIDE DEF Good
  <2> QED
    BY <1>1, <1>2, AllSubsets
<1> QED
  BY <1>3

\* The sum changes by what one member changes.
LEMMA TotalChange ==
    ASSUME NEW f, NEW g, NEW S, IsFiniteSet(S), NEW e \in S,
           \A d \in S : f[d] \in Int /\ g[d] \in Int, \A d \in S \ {e} : g[d] = f[d]
    PROVE  Total(g, S) = Total(f, S) + (g[e] - f[e])
<1>1. IsFiniteSet(S \ {e})
  BY FS_Subset
<1>2. Total(g, S \ {e}) = Total(f, S \ {e}) /\ Total(f, S \ {e}) \in Int
  BY <1>1, TotalSame, TotalAny
<1>3. /\ Total(f, S) = f[e] + Total(f, S \ {e})
      /\ Total(g, S) = g[e] + Total(g, S \ {e})
  BY TotalAny
<1> QED
  BY <1>2, <1>3

\* A factor of every member is a factor of the sum.
LEMMA TotalOfProduct ==
    ASSUME NEW f, NEW g, NEW S, IsFiniteSet(S), NEW k \in Int,
           \A e \in S : f[e] \in Int /\ g[e] = k * f[e]
    PROVE  Total(g, S) = k * Total(f, S)
<1> DEFINE Good == {T \in SUBSET S : Total(g, T) = k * Total(f, T)}
<1>1. {} \in Good
  BY TotalOfNothing
<1>2. ASSUME NEW T \in SUBSET S, NEW e \in S \ T, T \in Good PROVE T \cup {e} \in Good
  <2>1. IsFiniteSet(T)
    BY FS_Subset
  <2>2. \A d \in S : g[d] \in Int
    OBVIOUS
  <2>3. /\ Total(f, T \cup {e}) = f[e] + Total(f, T)
        /\ Total(g, T \cup {e}) = g[e] + Total(g, T)
    BY <2>1, <2>2, TotalAdd
  <2>4. Total(f, T) \in Int /\ f[e] \in Int /\ g[e] = k * f[e]
    BY <2>1, TotalAny
  <2>5. \A m, n \in Int : k * (m + n) = k * m + k * n
    OBVIOUS
  <2> QED
    BY <1>2, <2>3, <2>4, <2>5
<1>3. S \in Good
  <2> HIDE DEF Good
  <2> QED
    BY <1>1, <1>2, AllSubsets
<1> QED
  BY <1>3

\* Whole multiples.
Multiple(n, k) == \E q \in Int : n = k * q

\* Multiples sum to a multiple.
LEMMA TotalOfMultiples ==
    ASSUME NEW f, NEW S, IsFiniteSet(S), NEW k \in Int, \A e \in S : Multiple(f[e], k)
    PROVE  Multiple(Total(f, S), k)
<1> DEFINE h == [e \in S |-> CHOOSE q \in Int : f[e] = k * q]
<1>1. \A e \in S : h[e] \in Int /\ f[e] = k * h[e]
  BY DEF Multiple
<1> HIDE DEF h
<1>2. Total(f, S) = k * Total(h, S) /\ Total(h, S) \in Int
  BY <1>1, TotalOfProduct, TotalAny
<1> QED
  BY <1>2 DEF Multiple

\* The sum over an image without collisions.
LEMMA TotalOfImage ==
    ASSUME NEW S, IsFiniteSet(S), NEW m, NEW f, NEW g,
           \A d, e \in S : m[d] = m[e] => d = e,
           \A e \in S : f[e] \in Int /\ f[e] = g[m[e]]
    PROVE  Total(g, {m[e] : e \in S}) = Total(f, S)
<1> DEFINE Image(T) == {m[e] : e \in T}
           Good == {T \in SUBSET S : IsFiniteSet(Image(T)) /\ Total(g, Image(T)) = Total(f, T)}
<1>1. {} \in Good
  <2>1. Image({}) = {}
    OBVIOUS
  <2> QED
    BY <2>1, TotalOfNothing, FS_EmptySet
<1>2. ASSUME NEW T \in SUBSET S, NEW e \in S \ T, T \in Good PROVE T \cup {e} \in Good
  <2>1. IsFiniteSet(T) /\ IsFiniteSet(Image(T)) /\ Total(g, Image(T)) = Total(f, T)
    BY <1>2, FS_Subset
  <2>2. Image(T \cup {e}) = Image(T) \cup {m[e]}
    OBVIOUS
  <2>3. m[e] \notin Image(T)
    OBVIOUS
  <2>4. \A d \in Image(T) \cup {m[e]} : g[d] \in Int
    OBVIOUS
  <2>5. Total(f, T \cup {e}) = f[e] + Total(f, T)
    BY <2>1, TotalAdd
  <2>6. T \cup {e} \in SUBSET S /\ g[m[e]] = f[e]
    OBVIOUS
  <2> HIDE DEF Image
  <2>7. Total(g, Image(T) \cup {m[e]}) = g[m[e]] + Total(g, Image(T))
    BY <2>1, <2>3, <2>4, TotalAdd
  <2>8. IsFiniteSet(Image(T) \cup {m[e]})
    BY <2>1, FS_AddElement
  <2>9. Total(g, Image(T \cup {e})) = Total(f, T \cup {e})
    BY <2>1, <2>2, <2>5, <2>6, <2>7
  <2> QED
    BY <2>2, <2>6, <2>8, <2>9
<1>3. S \in Good
  <2> HIDE DEF Good
  <2> QED
    BY <1>1, <1>2, AllSubsets
<1> QED
  BY <1>3

\* The sum over one.
LEMMA TotalOfOne == ASSUME NEW f, NEW e, f[e] \in Int PROVE Total(f, {e}) = f[e]
<1>1. IsFiniteSet({e}) /\ {e} \ {e} = {}
  BY FS_Singleton
<1>2. Total(f, {e}) = f[e] + Total(f, {e} \ {e})
  BY <1>1, TotalAny
<1> QED
  BY <1>1, <1>2, TotalOfNothing

\* The sum over two sets without a common member.
LEMMA TotalOfUnion ==
    ASSUME NEW f, NEW R, NEW S, IsFiniteSet(R), IsFiniteSet(S), R \cap S = {},
           \A e \in R \cup S : f[e] \in Int
    PROVE  Total(f, R \cup S) = Total(f, R) + Total(f, S)
<1> DEFINE Good == {T \in SUBSET S : Total(f, R \cup T) = Total(f, R) + Total(f, T)}
<1>1. {} \in Good
  <2>1. R \cup {} = R /\ Total(f, R) \in Int
    BY TotalAny
  <2> QED
    BY <2>1, TotalOfNothing
<1>2. ASSUME NEW T \in SUBSET S, NEW e \in S \ T, T \in Good PROVE T \cup {e} \in Good
  <2>1. IsFiniteSet(T) /\ IsFiniteSet(R \cup T)
    BY FS_Subset, FS_Union
  <2>2. Total(f, T \cup {e}) = f[e] + Total(f, T)
    BY <2>1, TotalAdd
  <2>3. e \notin R \cup T /\ R \cup (T \cup {e}) = (R \cup T) \cup {e}
    OBVIOUS
  <2>4. Total(f, (R \cup T) \cup {e}) = f[e] + Total(f, R \cup T)
    BY <2>1, <2>3, TotalAdd
  <2>5. Total(f, R) \in Int /\ Total(f, T) \in Int /\ f[e] \in Int
    BY <2>1, TotalAny
  <2>6. Total(f, R \cup T) = Total(f, R) + Total(f, T)
    BY <1>2
  <2> HIDE DEF Good
  <2>7. Total(f, R \cup (T \cup {e})) = Total(f, R) + Total(f, T \cup {e})
    <3>1. Total(f, R \cup (T \cup {e})) = Total(f, (R \cup T) \cup {e})
      BY ONLY <2>3, Zenon
    <3>2. Total(f, (R \cup T) \cup {e}) = f[e] + (Total(f, R) + Total(f, T))
      BY <2>4, <2>6, Zenon
    <3>3. Total(f, R) + Total(f, T \cup {e}) = Total(f, R) + (f[e] + Total(f, T))
      BY <2>2, Zenon
    <3>4. \A k, m, n \in Int : k + (m + n) = m + (k + n)
      OBVIOUS
    <3>5. f[e] + (Total(f, R) + Total(f, T)) = Total(f, R) + (f[e] + Total(f, T))
      BY <2>5, <3>4, Zenon
    <3> QED
      BY <3>1, <3>2, <3>3, <3>5, Zenon
  <2> QED
    BY <2>7 DEF Good
<1>3. S \in Good
  <2> HIDE DEF Good
  <2> QED
    BY <1>1, <1>2, AllSubsets
<1> QED
  BY <1>3

\* A part of what is nowhere negative sums to at most as much.
LEMMA TotalOfPart ==
    ASSUME NEW f, NEW S, IsFiniteSet(S), \A e \in S : f[e] \in Nat, NEW R \in SUBSET S
    PROVE  Total(f, R) <= Total(f, S)
<1> DEFINE g == [e \in S |-> IF e \in R THEN f[e] ELSE 0]
<1>1. /\ \A e \in S : g[e] \in Int /\ f[e] \in Int /\ g[e] <= f[e]
      /\ \A e \in S \ R : g[e] = 0
      /\ \A e \in R : f[e] \in Int /\ g[e] = f[e]
  OBVIOUS
<1>2. IsFiniteSet(R)
  BY FS_Subset
<1> HIDE DEF g
<1>3. Total(g, S) = Total(g, R)
  BY <1>1, TotalOfSome
<1>4. Total(g, R) = Total(f, R)
  BY <1>1, <1>2, TotalSame
<1>5. Total(g, S) <= Total(f, S)
  BY <1>1, TotalMonotone
<1> QED
  BY <1>3, <1>4, <1>5

\* A finite set of numbers has a largest and a smallest.
LEMMA Extremes ==
    ASSUME NEW S, IsFiniteSet(S), S \subseteq Int, S # {}
    PROVE  /\ Max(S) \in S /\ \A n \in S : Max(S) >= n
           /\ Min(S) \in S /\ \A n \in S : Min(S) <= n
<1> DEFINE Bounded(T) == \E l, h \in T : \A n \in T : l <= n /\ h >= n
           Good == {T \in SUBSET S : T = {} \/ Bounded(T)}
<1>1. {} \in Good
  OBVIOUS
<1>2. ASSUME NEW T \in SUBSET S, NEW e \in S \ T, T \in Good PROVE T \cup {e} \in Good
  <2>1. CASE T = {}
    <3>1. T \cup {e} = {e} /\ e <= e /\ e >= e
      BY <2>1
    <3> QED
      BY <3>1
  <2>2. CASE T # {}
    <3>1. PICK l, h \in T : \A n \in T : l <= n /\ h >= n
      BY <1>2, <2>2
    <3> DEFINE k == IF e < l THEN e ELSE l
               j == IF e > h THEN e ELSE h
    <3>2. /\ k \in T \cup {e} /\ j \in T \cup {e}
          /\ \A n \in T \cup {e} : n \in Int
      OBVIOUS
    <3>3. k <= l /\ k <= e /\ j >= h /\ j >= e /\ l \in Int /\ h \in Int /\ e \in Int
          /\ k \in Int /\ j \in Int
      OBVIOUS
    <3> HIDE DEF k, j
    <3>4. \A n \in T \cup {e} : k <= n /\ j >= n
      BY <3>1, <3>2, <3>3
    <3> QED
      BY <3>2, <3>4
  <2> QED
    BY <2>1, <2>2
<1>3. S \in Good
  <2> HIDE DEF Good
  <2> QED
    BY <1>1, <1>2, AllSubsets
<1>4. PICK l, h \in S : \A n \in S : l <= n /\ h >= n
  BY <1>3
<1>5. Max(S) \in S /\ \A n \in S : Max(S) >= n
  BY <1>4 DEF Max
<1>6. Min(S) \in S /\ \A n \in S : Min(S) <= n
  BY <1>4 DEF Min
<1> QED
  BY <1>5, <1>6

=============================================================================
