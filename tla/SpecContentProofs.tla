------------------------- MODULE SpecContentProofs -------------------------
(***************************************************************************)
(* Proofs about SpecContent, for all files, worlds, questions and answers. *)
(* First what a selection from a sequence keeps, then the invariant.       *)
(***************************************************************************)
EXTENDS SpecContent, FiniteSetTheorems, SequenceTheorems, WellFoundedInduction, TLAPS

-----------------------------------------------------------------------------
(* Smallest counterexamples.                                                *)

\* A set of natural numbers that is not empty has a least member.
LEMMA LeastMember ==
    ASSUME NEW T \in SUBSET Nat, T # {}
    PROVE  \E k \in T : \A l \in Nat : l < k => l \notin T
<1>1. PICK k \in T : \A l \in T : <<l, k>> \notin OpToRel(<, Nat)
  BY WFMin, NatLessThanWellFounded, Zenon
<1>2. k \in Nat
  OBVIOUS
<1>3. \A l \in T : ~(l < k)
  <2> SUFFICES ASSUME NEW l \in T, l < k PROVE FALSE
    OBVIOUS
  <2>1. l \in Nat
    OBVIOUS
  <2>2. <<l, k>> \in OpToRel(<, Nat)
    BY <1>2, <2>1 DEF OpToRel
  <2> QED
    BY <1>1, <2>2, Zenon
<1> QED
  BY <1>3

\* Some positions in a sequence: one of them is the last.
LEMMA LastPosition ==
    ASSUME NEW n \in Nat, NEW P \in SUBSET (1..n), P # {}
    PROVE  \E i \in P : \A k \in P : k <= i
<1> DEFINE T == {n - i : i \in P}
<1>1. T \in SUBSET Nat /\ T # {}
  <2>1. \A i \in P : n - i \in Nat
    OBVIOUS
  <2> QED
    BY <2>1
<1>2. PICK m \in T : \A l \in Nat : l < m => l \notin T
  <2> HIDE DEF T
  <2> QED
    BY <1>1, LeastMember, Zenon
<1>3. PICK i \in P : m = n - i
  OBVIOUS
<1>4. ASSUME NEW k \in P PROVE k <= i
  <2>1. n - k \in T /\ n - k \in Nat
    BY <1>1
  <2>2. ~(n - k < m)
    BY <1>2, <2>1
  <2> QED
    BY <1>3, <2>2
<1> QED
  BY <1>4

\* A set that has the empty sequence and every sequence one longer than a member
\* has all sequences.
LEMMA AllSequences ==
    ASSUME NEW S, NEW T, <<>> \in T,
           \A s \in Seq(S) : s \in T => \A e \in S : Append(s, e) \in T
    PROVE  Seq(S) \subseteq T
<1> DEFINE Lengths == {n \in Nat : \E s \in Seq(S) : Len(s) = n /\ s \notin T}
<1>1. SUFFICES ASSUME Lengths # {} PROVE FALSE
  <2>1. \A s \in Seq(S) : Len(s) \in Nat
    BY LenProperties
  <2> QED
    BY <2>1
<1>2. PICK n \in Lengths : \A l \in Nat : l < n => l \notin Lengths
  <2> HIDE DEF Lengths
  <2>1. Lengths \in SUBSET Nat
    BY DEF Lengths
  <2> QED
    BY <1>1, <2>1, LeastMember, Zenon
<1>3. PICK s \in Seq(S) : Len(s) = n /\ s \notin T
  OBVIOUS
<1>4. s # <<>>
  BY <1>3
<1>5. PICK r \in Seq(S), e \in S : s = Append(r, e)
  BY <1>4, SequenceEmptyOrAppend
<1>6. Len(r) \in Nat /\ Len(r) < n
  BY <1>3, <1>5, LenProperties, AppendProperties
<1>7. r \in T
  BY <1>2, <1>6
<1> QED
  BY <1>3, <1>5, <1>7

-----------------------------------------------------------------------------
(* Selections.                                                              *)

\* What was kept of each beginning of a sequence, up to the first n members.
Recursion(s, P, n, kept) ==
    kept = [i \in 0..n |-> IF i = 0 THEN <<>>
                           ELSE IF s[i] \in P THEN Append(kept[i - 1], s[i])
                           ELSE kept[i - 1]]

\* The recursion has a solution for every length.
LEMMA RecursionExists ==
    ASSUME NEW s, NEW P, NEW n \in Nat
    PROVE  \E kept : Recursion(s, P, n, kept)
<1> DEFINE T == {k \in Nat : ~\E kept : Recursion(s, P, k, kept)}
<1>1. SUFFICES ASSUME T # {} PROVE FALSE
  OBVIOUS
<1>2. PICK k \in T : \A l \in Nat : l < k => l \notin T
  <2> HIDE DEF T
  <2>1. T \in SUBSET Nat
    BY DEF T
  <2> QED
    BY <1>1, <2>1, LeastMember, Zenon
<1>3. CASE k = 0
  <2>1. Recursion(s, P, 0, [i \in 0..0 |-> <<>>])
    BY DEF Recursion
  <2> QED
    BY <1>3, <2>1
<1>4. CASE k # 0
  <2>1. k \in Nat /\ k - 1 \in Nat /\ k - 1 < k
    BY <1>4
  <2>2. PICK g : Recursion(s, P, k - 1, g)
    BY <1>2, <2>1
  <2> DEFINE step(i) == IF i = 0 THEN <<>>
                        ELSE IF s[i] \in P THEN Append(g[i - 1], s[i])
                        ELSE g[i - 1]
             h == [i \in 0..k |-> step(i)]
  <2>3. \A i \in 0..(k - 1) : g[i] = step(i)
    BY <2>2 DEF Recursion
  <2>4. \A i \in 0..(k - 1) : h[i] = g[i]
    BY <2>3
  <2>5. \A i \in 0..k : i # 0 => h[i - 1] = g[i - 1]
    <3> HIDE DEF h, step, T
    <3>1. \A i \in 0..k : i # 0 => i - 1 \in 0..(k - 1)
      BY <2>1
    <3> QED
      BY <2>4, <3>1
  <2>6. \A i \in 0..k : step(i) = IF i = 0 THEN <<>>
                                  ELSE IF s[i] \in P THEN Append(h[i - 1], s[i])
                                  ELSE h[i - 1]
    BY <2>5
  <2>7. h = [i \in 0..k |-> step(i)]
    OBVIOUS
  <2> HIDE DEF h, step
  <2>8. Recursion(s, P, k, h)
    BY <2>6, <2>7 DEF Recursion
  <2> QED
    BY <1>2, <2>8
<1> QED
  BY <1>3, <1>4

\* What was kept of a beginning depends on that beginning only.
LEMMA RecursionAgrees ==
    ASSUME NEW s, NEW t, NEW P, NEW n \in Nat, NEW m \in Nat, n <= m,
           \A i \in 1..n : s[i] = t[i],
           NEW g, NEW h, Recursion(s, P, n, g), Recursion(t, P, m, h)
    PROVE  g[n] = h[n]
<1> DEFINE T == {i \in 0..n : g[i] # h[i]}
<1>1. SUFFICES ASSUME T # {} PROVE FALSE
  OBVIOUS
<1>2. PICK i \in T : \A l \in Nat : l < i => l \notin T
  <2> HIDE DEF T
  <2>1. T \in SUBSET Nat
    BY DEF T
  <2> QED
    BY <1>1, <2>1, LeastMember, Zenon
<1>3. g[i] = IF i = 0 THEN <<>>
             ELSE IF s[i] \in P THEN Append(g[i - 1], s[i]) ELSE g[i - 1]
  BY DEF Recursion
<1>4. h[i] = IF i = 0 THEN <<>>
             ELSE IF t[i] \in P THEN Append(h[i - 1], t[i]) ELSE h[i - 1]
  <2>1. i \in 0..m
    OBVIOUS
  <2> QED
    BY <2>1 DEF Recursion
<1>5. CASE i = 0
  BY <1>3, <1>4, <1>5
<1>6. CASE i # 0
  <2>1. i - 1 \in 0..n /\ i - 1 < i /\ i \in 1..n
    BY <1>6
  <2>2. g[i - 1] = h[i - 1]
    BY <1>2, <2>1
  <2> QED
    BY <1>3, <1>4, <1>6, <2>1, <2>2
<1> QED
  BY <1>5, <1>6

\* Selected is the last value of any solution.
LEMMA SelectedIsKept ==
    ASSUME NEW s, NEW P, Len(s) \in Nat
    PROVE  \E kept : Recursion(s, P, Len(s), kept) /\ Selected(s, P) = kept[Len(s)]
<1>1. Selected(s, P) = (CHOOSE g : Recursion(s, P, Len(s), g))[Len(s)]
  BY DEF Selected, Recursion
<1>2. \E g : Recursion(s, P, Len(s), g)
  BY RecursionExists
<1>3. Recursion(s, P, Len(s), CHOOSE g : Recursion(s, P, Len(s), g))
  BY <1>2, Zenon
<1> QED
  BY <1>1, <1>3, Zenon

\* Nothing is selected from nothing, and a member at the end is kept at the end.
LEMMA SelectedEmpty ==
    ASSUME NEW P
    PROVE  Selected(<<>>, P) = <<>>
<1>1. Len(<<>>) = 0
  OBVIOUS
<1>2. PICK kept : Recursion(<<>>, P, 0, kept) /\ Selected(<<>>, P) = kept[0]
  BY <1>1, SelectedIsKept
<1> QED
  BY <1>2 DEF Recursion

LEMMA SelectedAppend ==
    ASSUME NEW S, NEW s \in Seq(S), NEW e \in S, NEW P
    PROVE  Selected(Append(s, e), P) =
               IF e \in P THEN Append(Selected(s, P), e) ELSE Selected(s, P)
<1> DEFINE t == Append(s, e)
           n == Len(s)
<1>1. /\ n \in Nat /\ Len(t) = n + 1 /\ t[n + 1] = e
      /\ \A i \in 1..n : s[i] = t[i]
  BY LenProperties, AppendProperties
<1> HIDE DEF t, n
<1>2. PICK g : Recursion(s, P, n, g) /\ Selected(s, P) = g[n]
  BY <1>1, SelectedIsKept DEF n
<1>3. n + 1 \in Nat /\ n <= n + 1
  BY <1>1
<1>4. PICK h : Recursion(t, P, n + 1, h) /\ Selected(t, P) = h[n + 1]
  BY <1>1, <1>3, SelectedIsKept
<1>5. g[n] = h[n]
  BY <1>1, <1>2, <1>3, <1>4, RecursionAgrees
<1>6. h[n + 1] = IF t[n + 1] \in P THEN Append(h[(n + 1) - 1], t[n + 1])
                 ELSE h[(n + 1) - 1]
  <2>1. n + 1 \in 0..(n + 1) /\ n + 1 # 0
    BY <1>1
  <2> QED
    BY <1>4, <2>1 DEF Recursion
<1>7. (n + 1) - 1 = n
  BY <1>1
<1> QED
  BY <1>1, <1>2, <1>4, <1>5, <1>6, <1>7 DEF t

\* The members of sequences.
LEMMA RowsType ==
    ASSUME NEW S, NEW s \in Seq(S)
    PROVE  Rows(s) \subseteq S /\ Rows(s) = {s[i] : i \in 1..Len(s)}
BY LenProperties, ElementOfSeq DEF Rows

LEMMA RowsOfNothing == Rows(<<>>) = {}
BY DEF Rows

LEMMA RowsAppend ==
    ASSUME NEW S, NEW s \in Seq(S), NEW e \in S
    PROVE  Rows(Append(s, e)) = Rows(s) \cup {e}
<1>1. Append(s, e) \in Seq(S) /\ Len(Append(s, e)) = Len(s) + 1 /\ Len(s) \in Nat
  BY AppendProperties, LenProperties
<1>2. \A i \in 1..(Len(s) + 1) :
          Append(s, e)[i] = IF i = Len(s) + 1 THEN e ELSE s[i]
  BY <1>1, AppendProperties
<1>3. /\ Rows(s) = {s[i] : i \in 1..Len(s)}
      /\ Rows(Append(s, e)) = {Append(s, e)[i] : i \in 1..(Len(s) + 1)}
  BY <1>1, RowsType
<1> QED
  BY <1>1, <1>2, <1>3

LEMMA RowsConcat ==
    ASSUME NEW S, NEW s \in Seq(S), NEW t \in Seq(S)
    PROVE  Rows(s \o t) = Rows(s) \cup Rows(t)
<1>1. /\ s \o t \in Seq(S) /\ Len(s \o t) = Len(s) + Len(t)
      /\ Len(s) \in Nat /\ Len(t) \in Nat
  BY ConcatProperties, LenProperties
<1>2. \A i \in 1..(Len(s) + Len(t)) :
          (s \o t)[i] = IF i <= Len(s) THEN s[i] ELSE t[i - Len(s)]
  BY ConcatProperties
<1>3. /\ Rows(s) = {s[i] : i \in 1..Len(s)}
      /\ Rows(t) = {t[i] : i \in 1..Len(t)}
      /\ Rows(s \o t) = {(s \o t)[i] : i \in 1..(Len(s) + Len(t))}
  BY <1>1, RowsType
<1>4. Rows(s \o t) \subseteq Rows(s) \cup Rows(t)
  BY <1>1, <1>2, <1>3
<1>5. Rows(s) \subseteq Rows(s \o t)
  BY <1>1, <1>2, <1>3
<1>6. ASSUME NEW i \in 1..Len(t) PROVE t[i] \in Rows(s \o t)
  <2>1. i + Len(s) \in 1..(Len(s) + Len(t)) /\ ~(i + Len(s) <= Len(s))
    BY <1>1
  <2>2. (s \o t)[i + Len(s)] = t[i]
    BY <1>1, <1>2, <2>1
  <2> QED
    BY <1>3, <2>1, <2>2
<1> QED
  BY <1>3, <1>4, <1>5, <1>6

\* What is selected are the members of the set, in a sequence of the same type.
LEMMA SelectedType ==
    ASSUME NEW S, NEW s \in Seq(S), NEW P
    PROVE  Selected(s, P) \in Seq(S) /\ Rows(Selected(s, P)) = Rows(s) \cap P
<1> DEFINE T == {r \in Seq(S) : /\ Selected(r, P) \in Seq(S)
                                /\ Rows(Selected(r, P)) = Rows(r) \cap P}
<1>1. <<>> \in T
  BY EmptySeq, SelectedEmpty, RowsOfNothing
<1>2. ASSUME NEW r \in Seq(S), r \in T, NEW e \in S PROVE Append(r, e) \in T
  <2>1. Append(r, e) \in Seq(S) /\ Rows(Append(r, e)) = Rows(r) \cup {e}
    BY AppendProperties, RowsAppend
  <2>2. Selected(r, P) \in Seq(S) /\ Rows(Selected(r, P)) = Rows(r) \cap P
    BY <1>2
  <2>3. /\ Append(Selected(r, P), e) \in Seq(S)
        /\ Rows(Append(Selected(r, P), e)) = Rows(Selected(r, P)) \cup {e}
    BY <2>2, AppendProperties, RowsAppend
  <2>4. Selected(Append(r, e), P) = IF e \in P THEN Append(Selected(r, P), e)
                                    ELSE Selected(r, P)
    BY SelectedAppend
  <2>5. /\ Selected(Append(r, e), P) \in Seq(S)
        /\ Rows(Selected(Append(r, e), P)) = Rows(Append(r, e)) \cap P
    BY <2>1, <2>2, <2>3, <2>4
  <2> QED
    BY <2>1, <2>5
<1> HIDE DEF T
<1>3. Seq(S) \subseteq T
  BY <1>1, <1>2, AllSequences
<1> QED
  BY <1>3 DEF T

\* Sets that agree on the members of a sequence select the same.
LEMMA SelectedSame ==
    ASSUME NEW S, NEW s \in Seq(S), NEW P, NEW Q, Rows(s) \cap P = Rows(s) \cap Q
    PROVE  Selected(s, P) = Selected(s, Q)
<1> DEFINE T == {r \in Seq(S) : Rows(r) \cap P = Rows(r) \cap Q
                                => Selected(r, P) = Selected(r, Q)}
<1>1. <<>> \in T
  BY EmptySeq, SelectedEmpty
<1>2. ASSUME NEW r \in Seq(S), r \in T, NEW e \in S PROVE Append(r, e) \in T
  <2>1. Append(r, e) \in Seq(S) /\ Rows(Append(r, e)) = Rows(r) \cup {e}
    BY AppendProperties, RowsAppend
  <2>2. /\ Selected(Append(r, e), P) = IF e \in P THEN Append(Selected(r, P), e)
                                       ELSE Selected(r, P)
        /\ Selected(Append(r, e), Q) = IF e \in Q THEN Append(Selected(r, Q), e)
                                       ELSE Selected(r, Q)
    BY SelectedAppend
  <2>3. ASSUME Rows(Append(r, e)) \cap P = Rows(Append(r, e)) \cap Q
        PROVE  Selected(Append(r, e), P) = Selected(Append(r, e), Q)
    <3>1. Rows(r) \cap P = Rows(r) \cap Q /\ (e \in P <=> e \in Q)
      BY <2>1, <2>3
    <3>2. Selected(r, P) = Selected(r, Q)
      BY <1>2, <3>1
    <3> QED
      BY <2>2, <3>1, <3>2
  <2> QED
    BY <2>1, <2>3
<1> HIDE DEF T
<1>3. Seq(S) \subseteq T
  BY <1>1, <1>2, AllSequences
<1> QED
  BY <1>3 DEF T

\* A set that has all members selects everything, one that has none nothing.
LEMMA SelectedAll ==
    ASSUME NEW S, NEW s \in Seq(S), NEW P, Rows(s) \subseteq P
    PROVE  Selected(s, P) = s
<1> DEFINE T == {r \in Seq(S) : Rows(r) \subseteq P => Selected(r, P) = r}
<1>1. <<>> \in T
  BY EmptySeq, SelectedEmpty
<1>2. ASSUME NEW r \in Seq(S), r \in T, NEW e \in S PROVE Append(r, e) \in T
  <2>1. Append(r, e) \in Seq(S) /\ Rows(Append(r, e)) = Rows(r) \cup {e}
    BY AppendProperties, RowsAppend
  <2>2. Selected(Append(r, e), P) = IF e \in P THEN Append(Selected(r, P), e)
                                    ELSE Selected(r, P)
    BY SelectedAppend
  <2> QED
    BY <1>2, <2>1, <2>2
<1> HIDE DEF T
<1>3. Seq(S) \subseteq T
  BY <1>1, <1>2, AllSequences
<1> QED
  BY <1>3 DEF T

LEMMA SelectedNone ==
    ASSUME NEW S, NEW s \in Seq(S), NEW P, Rows(s) \cap P = {}
    PROVE  Selected(s, P) = <<>>
<1>1. Selected(s, P) \in Seq(S) /\ Rows(Selected(s, P)) = {}
  BY SelectedType
<1>2. DOMAIN Selected(s, P) = 1..Len(Selected(s, P)) /\ Len(Selected(s, P)) \in Nat
  BY <1>1, LenProperties
<1>3. 1 \notin 1..Len(Selected(s, P))
  BY <1>1, <1>2 DEF Rows
<1>4. Len(Selected(s, P)) = 0
  BY <1>2, <1>3
<1> QED
  BY <1>1, <1>4

\* A selection of a selection selects by both sets.
LEMMA SelectedTwice ==
    ASSUME NEW S, NEW s \in Seq(S), NEW P, NEW Q
    PROVE  Selected(Selected(s, P), Q) = Selected(s, P \cap Q)
<1> DEFINE T == {r \in Seq(S) : Selected(Selected(r, P), Q) = Selected(r, P \cap Q)}
<1>1. <<>> \in T
  BY EmptySeq, SelectedEmpty
<1>2. ASSUME NEW r \in Seq(S), r \in T, NEW e \in S PROVE Append(r, e) \in T
  <2>1. Append(r, e) \in Seq(S) /\ Selected(r, P) \in Seq(S)
    BY AppendProperties, SelectedType
  <2>2. /\ Selected(Append(r, e), P) = IF e \in P THEN Append(Selected(r, P), e)
                                       ELSE Selected(r, P)
        /\ Selected(Append(r, e), P \cap Q) =
               IF e \in P \cap Q THEN Append(Selected(r, P \cap Q), e)
               ELSE Selected(r, P \cap Q)
    BY SelectedAppend
  <2>3. Selected(Append(Selected(r, P), e), Q) =
            IF e \in Q THEN Append(Selected(Selected(r, P), Q), e)
            ELSE Selected(Selected(r, P), Q)
    BY <2>1, SelectedAppend
  <2>4. Selected(Selected(r, P), Q) = Selected(r, P \cap Q)
    BY <1>2
  <2>5. Selected(Selected(Append(r, e), P), Q) = Selected(Append(r, e), P \cap Q)
    <3>1. CASE e \in P /\ e \in Q
      <4>1. e \in P \cap Q
        BY <3>1
      <4> QED
        BY <2>2, <2>3, <2>4, <3>1, <4>1, Zenon
    <3>2. CASE e \in P /\ e \notin Q
      <4>1. e \notin P \cap Q
        BY <3>2
      <4> QED
        BY <2>2, <2>3, <2>4, <3>2, <4>1, Zenon
    <3>3. CASE e \notin P
      <4>1. e \notin P \cap Q
        BY <3>3
      <4> QED
        BY <2>2, <2>4, <3>3, <4>1, Zenon
    <3> QED
      BY <3>1, <3>2, <3>3
  <2> QED
    BY <2>1, <2>5
<1> HIDE DEF T
<1>3. Seq(S) \subseteq T
  BY <1>1, <1>2, AllSequences
<1> QED
  BY <1>3 DEF T

\* Two sequences are selected from one after the other.
LEMMA SelectedConcat ==
    ASSUME NEW S, NEW s \in Seq(S), NEW t \in Seq(S), NEW P
    PROVE  Selected(s \o t, P) = Selected(s, P) \o Selected(t, P)
<1> DEFINE T == {r \in Seq(S) : Selected(s \o r, P) = Selected(s, P) \o Selected(r, P)}
<1>1. <<>> \in T
  <2>1. Selected(s, P) \in Seq(S)
    BY SelectedType
  <2>2. s \o <<>> = s /\ Selected(s, P) \o <<>> = Selected(s, P)
    BY <2>1, ConcatEmptySeq
  <2> QED
    BY <2>2, EmptySeq, SelectedEmpty
<1>2. ASSUME NEW r \in Seq(S), r \in T, NEW e \in S PROVE Append(r, e) \in T
  <2>1. /\ Append(r, e) \in Seq(S) /\ s \o r \in Seq(S)
        /\ Selected(s, P) \in Seq(S) /\ Selected(r, P) \in Seq(S)
    BY AppendProperties, ConcatProperties, SelectedType
  <2>2. s \o Append(r, e) = Append(s \o r, e)
    BY <2>1, SMT
  <2>3. Selected(s, P) \o Append(Selected(r, P), e)
            = Append(Selected(s, P) \o Selected(r, P), e)
    BY <2>1, SMT
  <2>4. /\ Selected(Append(r, e), P) = IF e \in P THEN Append(Selected(r, P), e)
                                       ELSE Selected(r, P)
        /\ Selected(Append(s \o r, e), P) =
               IF e \in P THEN Append(Selected(s \o r, P), e) ELSE Selected(s \o r, P)
    BY <2>1, SelectedAppend
  <2>5. Selected(s \o r, P) = Selected(s, P) \o Selected(r, P)
    BY <1>2
  <2>6. Selected(s \o Append(r, e), P) = Selected(s, P) \o Selected(Append(r, e), P)
    BY <2>2, <2>3, <2>4, <2>5
  <2> QED
    BY <2>1, <2>6
<1> HIDE DEF T
<1>3. Seq(S) \subseteq T
  BY <1>1, <1>2, AllSequences
<1> QED
  BY <1>3 DEF T

\* A sequence is one of its own members.
LEMMA SequenceOfRows ==
    ASSUME NEW S, NEW s \in Seq(S)
    PROVE  s \in Seq(Rows(s))
<1>1. Len(s) \in Nat /\ s \in [1..Len(s) -> S] /\ DOMAIN s = 1..Len(s)
  BY LenProperties
<1>2. s \in [1..Len(s) -> Rows(s)]
  BY <1>1 DEF Rows
<1> QED
  BY <1>1, <1>2

LEMMA ConcatOfRows ==
    ASSUME NEW s, s \in Seq(Rows(s)), NEW t, t \in Seq(Rows(t))
    PROVE  s \o t \in Seq(Rows(s \o t)) /\ Rows(s \o t) = Rows(s) \cup Rows(t)
<1> DEFINE S == Rows(s) \cup Rows(t)
<1>1. s \in Seq(S) /\ t \in Seq(S)
  BY SeqMonotonic
<1> HIDE DEF S
<1>2. s \o t \in Seq(S) /\ Rows(s \o t) = Rows(s) \cup Rows(t)
  BY <1>1, ConcatProperties, RowsConcat
<1> QED
  BY <1>2, SequenceOfRows

-----------------------------------------------------------------------------
(* The invariant.                                                           *)

\* A question, with or without an answer.
Question(q) ==
    /\ q \in [about : {q.about}, target : {q.target}, effect : {q.effect},
              resolution : {q.resolution}, blocking : BOOLEAN]
    /\ None \notin DOMAIN q.effect

\* Entities and questions are lists, of questions that can be answered.
Lists ==
    /\ world \in Worlds
    /\ entities \in Seq(Rows(entities))
    /\ questions \in Seq(Rows(questions))
    /\ \A q \in Rows(questions) : Question(q)

\* A session is READY only without an open question.
ReadyIsAnswered == stage = "ready" => Open(questions) = {}

\* Every extracted constraint is in the spec or the subject of a question that
\* holds the session up until it is answered.
NothingIsLost ==
    \A c \in extracted :
        \/ c \in DOMAIN constraints
        \/ \E i \in DOMAIN questions : questions[i].about = c /\ questions[i].blocking

IInv ==
    /\ TypeOK /\ Lists
    /\ ReadyIsAnswered /\ NothingIsLost
    /\ RowsAreIngestedOnce /\ AnswersAreApplied

\* What every request that touches the spec ends with.
LEMMA RecomputedType ==
    ASSUME NEW T, NEW q
    PROVE  /\ RecomputedStage(T, q) \in Stages
           /\ RecomputedStage(T, q) = "ready" => q = {}
           /\ RecomputedStage(T, q) # "explained"
BY DEF RecomputedStage, Stages

\* The entities of a table: one per row, all of its category and its file.
LEMMA EntitiesOfRows ==
    ASSUME NEW f, NEW t, NEW cells, cells \in Seq(Rows(cells)),
           NEW rows, rows = RowsToEntities(f, t, cells)
    PROVE  /\ rows \in Seq(Rows(rows))
           /\ \A e \in Rows(rows) : e.category = t.category /\ e.source = f
           /\ \A i \in DOMAIN rows : rows[i].row = i
<1> DEFINE E == {EntityOf(f, t, cells[i], i) : i \in DOMAIN cells}
<1>1. DOMAIN cells = 1..Len(cells) /\ Len(cells) \in Nat
  BY LenProperties
<1>2. rows = [i \in 1..Len(cells) |-> EntityOf(f, t, cells[i], i)]
  BY <1>1 DEF RowsToEntities
<1>3. \A i \in 1..Len(cells) : EntityOf(f, t, cells[i], i) \in E
  BY <1>1
<1>4. \A e \in E : e.category = t.category /\ e.source = f
  BY DEF EntityOf
<1>8. \A i \in DOMAIN rows : rows[i].row = i
  BY <1>2 DEF EntityOf
<1> HIDE DEF E
<1>5. rows \in [1..Len(cells) -> E]
  BY <1>2, <1>3
<1>6. rows \in Seq(E)
  BY <1>1, <1>5
<1>7. Rows(rows) \subseteq E /\ rows \in Seq(Rows(rows))
  BY <1>6, RowsType, SequenceOfRows
<1> QED
  BY <1>4, <1>7, <1>8

\* The tables of a spec come from files that were read.
LEMMA TablesWereRead ==
    ASSUME TypeOK, NEW f \in DOMAIN tables
    PROVE  f \in Files /\ fileRows[f] \in DOMAIN Cells /\ tables[f] \in Tables
BY DEF TypeOK

\* What is kept when a mapping is confirmed, as one set.
LEMMA OthersType ==
    ASSUME entities \in Seq(Rows(entities)), NEW f, NEW category
    PROVE  /\ Others(f, category) \in Seq(Rows(entities))
           /\ Rows(Others(f, category)) \subseteq Rows(entities)
BY SelectedType DEF Others

\* A confirmation takes the entities of its file and category away and does not
\* touch the others.
LEMMA OthersOfFile ==
    ASSUME entities \in Seq(Rows(entities)), NEW f, NEW category, NEW g, NEW c,
           ~(g = f /\ c = category)
    PROVE  FromFile(Others(f, category), g, c) = FromFile(entities, g, c)
<1> DEFINE S == Rows(entities)
           P == {e \in S : ~(e.category = category /\ e.source = f)}
           others == Selected(entities, P)
           Q == {e \in Rows(others) : e.source = g /\ e.category = c}
           R == {e \in S : e.source = g /\ e.category = c}
<1>1. entities \in Seq(S) /\ Rows(entities) = S
  OBVIOUS
<1>2. Rows(others) = S \cap P
  BY SelectedType
<1>3. S \cap (P \cap Q) = S \cap R
  BY <1>2
<1> HIDE DEF S, P, Q, R
<1>4. Selected(others, Q) = Selected(entities, P \cap Q)
  BY <1>1, SelectedTwice
<1>5. Selected(entities, P \cap Q) = Selected(entities, R)
  BY <1>1, <1>3, SelectedSame
<1> QED
  BY <1>4, <1>5 DEF S, P, Q, R, FromFile, Others

\* The entities of a file in two lists are those of the one, then of the other.
LEMMA ConcatOfFile ==
    ASSUME NEW s, s \in Seq(Rows(s)), NEW t, t \in Seq(Rows(t)), NEW f, NEW c
    PROVE  FromFile(s \o t, f, c) = FromFile(s, f, c) \o FromFile(t, f, c)
<1> DEFINE S == Rows(s) \cup Rows(t)
           P == {e \in S : e.source = f /\ e.category = c}
<1>1. s \in Seq(S) /\ t \in Seq(S) /\ Rows(s \o t) = S
  BY SeqMonotonic, ConcatOfRows
<1>2. FromFile(s \o t, f, c) = Selected(s \o t, P)
  BY <1>1 DEF FromFile
<1>3. FromFile(s, f, c) = Selected(s, P) /\ FromFile(t, f, c) = Selected(t, P)
  <2>1. /\ Rows(s) \cap P = Rows(s) \cap {e \in Rows(s) : e.source = f /\ e.category = c}
        /\ Rows(t) \cap P = Rows(t) \cap {e \in Rows(t) : e.source = f /\ e.category = c}
    OBVIOUS
  <2> HIDE DEF P
  <2> QED
    BY <1>1, <2>1, SelectedSame DEF FromFile
<1> HIDE DEF P, S
<1>4. Selected(s \o t, P) = Selected(s, P) \o Selected(t, P)
  <2>1. s \in Seq(S) /\ t \in Seq(S)
    BY <1>1
  <2>2. \A r \in Seq(S) : Selected(s \o r, P) = Selected(s, P) \o Selected(r, P)
    BY <2>1, SelectedConcat, SMT
  <2> QED
    BY <2>1, <2>2
<1> QED
  BY <1>2, <1>3, <1>4

\* All entities of a table, or none when they came from elsewhere.
LEMMA AllOfFile ==
    ASSUME NEW s, s \in Seq(Rows(s)), NEW f, NEW c,
           \A e \in Rows(s) : e.source = f /\ e.category = c
    PROVE  FromFile(s, f, c) = s
<1>1. Rows(s) \subseteq {e \in Rows(s) : e.source = f /\ e.category = c}
  OBVIOUS
<1> QED
  BY <1>1, SelectedAll DEF FromFile

LEMMA NoneOfFile ==
    ASSUME NEW s, s \in Seq(Rows(s)), NEW f, NEW c,
           \A e \in Rows(s) : ~(e.source = f /\ e.category = c)
    PROVE  FromFile(s, f, c) = <<>>
<1>1. Rows(s) \cap {e \in Rows(s) : e.source = f /\ e.category = c} = {}
  OBVIOUS
<1> QED
  BY <1>1, SelectedNone DEF FromFile

\* What the fields of a table may be changed to.
LEMMA ParameterTable ==
    ASSUME NEW t \in Tables, t.role = "parameter", NEW p \in Fields,
           NEW new, new = [t EXCEPT !.field = p, !.confirmed = TRUE]
    PROVE  new \in Tables /\ new.role = "parameter"
<1>1. t \in [role : {"parameter"}, field : Fields, confirmed : BOOLEAN]
  BY DEF Tables
<1>2. new \in [role : {"parameter"}, field : Fields, confirmed : BOOLEAN]
  BY <1>1
<1> QED
  BY <1>1, <1>2 DEF Tables

LEMMA PairwiseTable ==
    ASSUME NEW t \in Tables, t.role = "cost_matrix",
           NEW new, new = [t EXCEPT !.confirmed = TRUE]
    PROVE  new \in Tables /\ new.role = "cost_matrix"
<1>1. t \in [role : {"cost_matrix"}, confirmed : BOOLEAN]
  BY DEF Tables
<1>2. new \in [role : {"cost_matrix"}, confirmed : BOOLEAN]
  BY <1>1
<1> QED
  BY <1>1, <1>2 DEF Tables

-----------------------------------------------------------------------------
(* What a request leaves alone.                                             *)

\* A request that only derives the stage again.
LEMMA DialogueKept ==
    ASSUME IInv, UNCHANGED <<constraints, questions, extracted>>,
           stage' = "ready" => stage = "ready" \/ Open(questions) = {}
    PROVE  ReadyIsAnswered' /\ NothingIsLost' /\ AnswersAreApplied'
<1>1. Open(questions') = Open(questions)
  OBVIOUS
<1>2. ReadyIsAnswered'
  BY <1>1 DEF IInv, ReadyIsAnswered
<1>3. NothingIsLost'
  BY DEF IInv, NothingIsLost
<1>4. AnswersAreApplied'
  BY SMT DEF IInv, AnswersAreApplied
<1> QED
  BY <1>2, <1>3, <1>4

\* A request that leaves the data of the spec alone.
LEMMA DataKept ==
    ASSUME IInv, UNCHANGED <<fileRows, entities, tables, named, replaced>>
    PROVE  RowsAreIngestedOnce'
BY DEF IInv, RowsAreIngestedOnce

LEMMA ListsKept ==
    ASSUME IInv, UNCHANGED <<world, entities, questions>>
    PROVE  Lists'
BY DEF IInv, Lists

-----------------------------------------------------------------------------
(* One lemma per request.                                                   *)

LEMMA UploadStep ==
    ASSUME IInv, NEW f \in Files, NEW c \in world.uploads[f], Upload(f, c)
    PROVE  IInv'
<1>1. c \in Contents
  BY WorldsAssumption DEF IInv, Lists
<1>2. TypeOK'
  BY <1>1 DEF IInv, TypeOK, Upload, data, dialogue, history
<1>3. Lists' /\ RowsAreIngestedOnce'
  BY ListsKept, DataKept DEF Upload, data, dialogue, history
<1>4. ReadyIsAnswered' /\ NothingIsLost' /\ AnswersAreApplied'
  BY DialogueKept DEF Upload, data, dialogue, history
<1> QED
  BY <1>2, <1>3, <1>4 DEF IInv

LEMMA ConfirmParametersStep ==
    ASSUME IInv, NEW f \in Files, NEW p \in Fields, ConfirmParameters(f, p)
    PROVE  IInv'
<1> DEFINE new == [tables[f] EXCEPT !.field = p, !.confirmed = TRUE]
<1>1. f \in DOMAIN tables /\ tables[f].role = "parameter"
  BY DEF ConfirmParameters
<1>2. fileRows[f] \in DOMAIN Cells /\ tables[f] \in Tables
  BY <1>1, TablesWereRead DEF IInv
<1>3. new \in Tables /\ new.role = "parameter"
  <2>1. new = [tables[f] EXCEPT !.field = p, !.confirmed = TRUE]
    OBVIOUS
  <2> HIDE DEF new
  <2> QED
    BY <1>1, <1>2, <2>1, ParameterTable, Zenon
<1>4. tables' = [tables EXCEPT ![f] = new]
  BY DEF ConfirmParameters
<1> HIDE DEF new
<1>5. /\ DOMAIN tables' = DOMAIN tables
      /\ \A g \in DOMAIN tables : tables'[g] = IF g = f THEN new ELSE tables[g]
  BY <1>4
<1>6. params' \in [Fields -> DOMAIN Cells \cup {None}]
  BY <1>2 DEF ConfirmParameters, IInv, TypeOK
<1>7. stage' = RecomputedStage(Unconfirmed(tables'), Open(questions))
  BY DEF ConfirmParameters
<1>8. TypeOK'
  <2>1. stage' \in Stages
    BY <1>7, RecomputedType
  <2>2. \A g \in DOMAIN tables' : g \in Files /\ tables'[g] \in Tables /\ fileRows'[g] # None
    BY <1>3, <1>5 DEF ConfirmParameters, IInv, TypeOK
  <2> QED
    BY <1>6, <2>1, <2>2 DEF ConfirmParameters, IInv, TypeOK, dialogue, history
<1>9. Lists'
  BY ListsKept DEF ConfirmParameters, dialogue, history
<1>10. RowsAreIngestedOnce'
  BY <1>3, <1>5 DEF ConfirmParameters, history, IInv, RowsAreIngestedOnce
<1>11. ReadyIsAnswered' /\ NothingIsLost' /\ AnswersAreApplied'
  BY <1>7, RecomputedType, DialogueKept DEF ConfirmParameters, dialogue, history
<1> QED
  BY <1>8, <1>9, <1>10, <1>11 DEF IInv

LEMMA ConfirmPairwiseStep ==
    ASSUME IInv, NEW f \in Files, ConfirmPairwise(f)
    PROVE  IInv'
<1> DEFINE new == [tables[f] EXCEPT !.confirmed = TRUE]
<1>1. f \in DOMAIN tables /\ tables[f].role = "cost_matrix"
  BY DEF ConfirmPairwise
<1>2. tables[f] \in Tables
  BY <1>1, TablesWereRead DEF IInv
<1>3. new \in Tables /\ new.role = "cost_matrix"
  BY <1>1, <1>2, PairwiseTable
<1>4. tables' = [tables EXCEPT ![f] = new]
  BY DEF ConfirmPairwise
<1> HIDE DEF new
<1>5. /\ DOMAIN tables' = DOMAIN tables
      /\ \A g \in DOMAIN tables : tables'[g] = IF g = f THEN new ELSE tables[g]
  BY <1>4
<1>6. stage' = RecomputedStage(Unconfirmed(tables'), Open(questions))
  BY DEF ConfirmPairwise
<1>7. TypeOK'
  <2>1. stage' \in Stages
    BY <1>6, RecomputedType
  <2>2. \A g \in DOMAIN tables' : g \in Files /\ tables'[g] \in Tables /\ fileRows'[g] # None
    BY <1>3, <1>5 DEF ConfirmPairwise, IInv, TypeOK
  <2> QED
    BY <2>1, <2>2 DEF ConfirmPairwise, IInv, TypeOK, dialogue, history
<1>8. Lists'
  BY ListsKept DEF ConfirmPairwise, dialogue, history
<1>9. RowsAreIngestedOnce'
  BY <1>3, <1>5 DEF ConfirmPairwise, history, IInv, RowsAreIngestedOnce
<1>10. ReadyIsAnswered' /\ NothingIsLost' /\ AnswersAreApplied'
  BY <1>6, RecomputedType, DialogueKept DEF ConfirmPairwise, dialogue, history
<1> QED
  BY <1>7, <1>8, <1>9, <1>10 DEF IInv

LEMMA SolveStep ==
    ASSUME IInv, Solve
    PROVE  IInv'
<1>1. stage' \in {"explained", "failed"}
  BY DEF Solve
<1>2. TypeOK'
  BY <1>1 DEF Solve, IInv, TypeOK, data, dialogue, history, Stages
<1>3. Lists' /\ RowsAreIngestedOnce'
  BY ListsKept, DataKept DEF Solve, data, dialogue, history
<1>4. ReadyIsAnswered' /\ NothingIsLost' /\ AnswersAreApplied'
  BY <1>1, DialogueKept DEF Solve, dialogue, history
<1> QED
  BY <1>2, <1>3, <1>4 DEF IInv

LEMMA EditStep ==
    ASSUME IInv, NEW t \in ProblemTypes, NEW patched, EditSpec(t, patched)
    PROVE  IInv'
<1>1. stage' = stage \/ stage' = RecomputedStage(Unconfirmed(tables), Open(questions))
  BY DEF EditSpec
<1>2. TypeOK'
  BY <1>1, RecomputedType DEF EditSpec, IInv, TypeOK, data, dialogue, history
<1>3. Lists' /\ RowsAreIngestedOnce'
  BY ListsKept, DataKept DEF EditSpec, data, dialogue, history
<1>4. ReadyIsAnswered' /\ NothingIsLost' /\ AnswersAreApplied'
  BY <1>1, RecomputedType, DialogueKept DEF EditSpec, dialogue, history
<1> QED
  BY <1>2, <1>3, <1>4 DEF IInv

LEMMA ConfirmEntitiesStep ==
    ASSUME IInv, NEW f \in Files, NEW category \in Categories, NEW b \in BOOLEAN,
           ConfirmEntities(f, category, b)
    PROVE  IInv'
<1> DEFINE new == [tables[f] EXCEPT !.category = category, !.byId = b, !.confirmed = TRUE]
           others == Others(f, category)
           rows == RowsToEntities(f, new, Cells[fileRows[f]])
<1>1. f \in DOMAIN tables /\ tables[f].role = "entity"
  BY DEF ConfirmEntities
<1>2. fileRows[f] \in DOMAIN Cells /\ tables[f] \in Tables
  BY <1>1, TablesWereRead DEF IInv
<1>3. new \in Tables /\ new.role = "entity" /\ new.category = category /\ new.confirmed = TRUE
  <2> DEFINE T == [role : {"entity"}, category : Categories, byId : BOOLEAN,
                   confirmed : BOOLEAN]
  <2>1. tables[f] \in T
    BY <1>1, <1>2 DEF Tables
  <2>2. new \in T /\ new.category = category /\ new.confirmed = TRUE
    BY <2>1
  <2>3. T \subseteq Tables
    BY DEF Tables
  <2> HIDE DEF new
  <2> QED
    BY <2>2, <2>3
<1>4. tables' = [tables EXCEPT ![f] = new]
  BY DEF ConfirmEntities
<1>5. \/ /\ entities' = others
         /\ named' = [named EXCEPT ![f] = @ \ {category}]
         /\ stage' = stage /\ replaced' = replaced
      \/ /\ entities' = others \o rows
         /\ named' = [named EXCEPT ![f] = @ \cup {category}]
         /\ replaced' = replaced \ {f}
         /\ stage' = RecomputedStage(Unconfirmed(tables'), Open(questions))
  BY DEF ConfirmEntities
<1>6. UNCHANGED <<files, fileRows, type, params, constraints, questions, world, extracted>>
  BY DEF ConfirmEntities, dialogue
<1>7. /\ rows \in Seq(Rows(rows))
      /\ \A e \in Rows(rows) : e.category = category /\ e.source = f
      /\ \A i \in DOMAIN rows : rows[i].row = i
  <2> DEFINE cells == Cells[fileRows[f]]
  <2>1. cells \in Seq(Rows(cells)) /\ rows = RowsToEntities(f, new, cells)
    BY <1>2, ContentAssumption
  <2> HIDE DEF cells, rows, new
  <2>2. /\ rows \in Seq(Rows(rows))
        /\ \A e \in Rows(rows) : e.category = new.category /\ e.source = f
        /\ \A i \in DOMAIN rows : rows[i].row = i
    BY <2>1, EntitiesOfRows
  <2> QED
    BY <1>3, <2>2
<1>8. entities \in Seq(Rows(entities))
  BY DEF IInv, Lists
<1>9. others \in Seq(Rows(others)) /\ Rows(others) \subseteq Rows(entities)
  BY <1>8, OthersType, SequenceOfRows
<1>10. \A g, c : ~(g = f /\ c = category)
                => FromFile(others, g, c) = FromFile(entities, g, c)
  BY <1>8, OthersOfFile
<1>11. \A e \in Rows(others) : ~(e.source = f /\ e.category = category)
  BY <1>8, SelectedType DEF Others
<1>12. FromFile(others, f, category) = <<>>
  <2> HIDE DEF others
  <2> QED
    BY <1>9, <1>11, NoneOfFile
<1> HIDE DEF new, others, rows
<1>13. /\ DOMAIN tables' = DOMAIN tables
       /\ \A g \in DOMAIN tables : tables'[g] = IF g = f THEN new ELSE tables[g]
  BY <1>4
<1>14. /\ others \o rows \in Seq(Rows(others \o rows))
       /\ Rows(others \o rows) = Rows(others) \cup Rows(rows)
  BY <1>7, <1>9, ConcatOfRows
<1>15. /\ entities' \in Seq(Rows(entities'))
       /\ Rows(entities') \subseteq Rows(entities) \cup Rows(rows)
  BY <1>5, <1>9, <1>14
<1>16. named \in [Files -> SUBSET Categories] /\ replaced \subseteq Files
  BY DEF IInv, TypeOK
<1>17. /\ named' \in [Files -> SUBSET Categories] /\ replaced' \subseteq Files
       /\ \A g \in Files, c \in Categories :
             ~(g = f /\ c = category) => (c \in named'[g] <=> c \in named[g])
       /\ \A g \in Files : g # f => (g \in replaced' <=> g \in replaced)
  BY <1>5, <1>16
<1>18. TypeOK'
  <2>1. stage' \in Stages
    BY <1>5, RecomputedType DEF IInv, TypeOK
  <2>2. \A g \in DOMAIN tables' : g \in Files /\ tables'[g] \in Tables /\ fileRows'[g] # None
    BY <1>3, <1>6, <1>13 DEF IInv, TypeOK
  <2>3. \A e \in Rows(entities) : e.category \in Categories
    BY DEF IInv, TypeOK, Rows
  <2>4. \A e \in Rows(entities') : e.category \in Categories
    BY <1>7, <1>15, <2>3
  <2>5. \A i \in DOMAIN entities' : entities'[i].category \in Categories
    BY <2>4 DEF Rows
  <2> QED
    BY <1>6, <1>17, <2>1, <2>2, <2>5 DEF IInv, TypeOK
<1>19. Lists'
  BY <1>6, <1>15 DEF IInv, Lists
<1>20. ASSUME NEW g \in DOMAIN tables', NEW c \in Categories, tables'[g].role = "entity",
              NEW s, s = FromFile(entities', g, c)
       PROVE  /\ \A i \in DOMAIN s : s[i].row = i
              /\ c \notin named'[g] => s = <<>>
              /\ c \in named'[g] /\ c = tables'[g].category /\ g \notin replaced' =>
                    s = RowsToEntities(g, tables'[g], Cells[fileRows'[g]])
  <2>1. g \in DOMAIN tables /\ g \in Files
    BY <1>13 DEF IInv, TypeOK
  <2>2. CASE g = f /\ c = category
    <3>1. CASE entities' = others /\ named' = [named EXCEPT ![f] = @ \ {category}]
      <4>1. s = <<>> /\ DOMAIN s = {}
        BY <1>12, <1>20, <2>2, <3>1
      <4>2. category \notin named'[f]
        BY <1>16, <2>1, <2>2, <3>1
      <4> QED
        BY <2>2, <4>1, <4>2
    <3>2. CASE entities' = others \o rows /\ named' = [named EXCEPT ![f] = @ \cup {category}]
      <4>1. FromFile(rows, f, category) = rows
        BY <1>7, AllOfFile
      <4>2. FromFile(others \o rows, f, category)
                = FromFile(others, f, category) \o FromFile(rows, f, category)
        BY <1>7, <1>9, ConcatOfFile
      <4>3. s = rows
        BY <1>7, <1>12, <1>20, <2>2, <3>2, <4>1, <4>2, ConcatEmptySeq
      <4>4. rows = RowsToEntities(g, tables'[g], Cells[fileRows'[g]])
        BY <1>6, <1>13, <2>1, <2>2 DEF rows
      <4>5. category \in named'[f]
        BY <1>16, <2>1, <2>2, <3>2
      <4> QED
        BY <1>7, <2>2, <4>3, <4>4, <4>5
    <3> QED
      BY <1>5, <3>1, <3>2
  <2>3. CASE ~(g = f /\ c = category)
    <3>1. FromFile(others \o rows, g, c) = FromFile(others, g, c)
      <4>1. \A e \in Rows(rows) : ~(e.source = g /\ e.category = c)
        BY <1>7, <2>3
      <4>2. FromFile(rows, g, c) = <<>>
        BY <1>7, <4>1, NoneOfFile
      <4>3. FromFile(others \o rows, g, c) = FromFile(others, g, c) \o FromFile(rows, g, c)
        BY <1>7, <1>9, ConcatOfFile
      <4>4. FromFile(others, g, c) \in Seq(Rows(others))
        BY <1>9, SelectedType DEF FromFile
      <4> QED
        BY <4>2, <4>3, <4>4, ConcatEmptySeq
    <3>2. s = FromFile(entities, g, c)
      BY <1>5, <1>10, <1>20, <2>3, <3>1
    <3>3. tables[g].role = "entity"
      BY <1>1, <1>13, <1>20, <2>1
    <3>4. /\ \A i \in DOMAIN s : s[i].row = i
          /\ c \notin named[g] => s = <<>>
          /\ c \in named[g] /\ c = tables[g].category /\ g \notin replaced =>
                s = RowsToEntities(g, tables[g], Cells[fileRows[g]])
      BY <2>1, <3>2, <3>3 DEF IInv, RowsAreIngestedOnce
    <3>5. c \in named'[g] <=> c \in named[g]
      BY <1>17, <2>1, <2>3
    <3>6. CASE g = f
      <4>1. c # tables'[g].category
        BY <1>3, <1>13, <2>1, <2>3, <3>6
      <4> QED
        BY <3>4, <3>5, <4>1
    <3>7. CASE g # f
      <4>1. tables'[g] = tables[g] /\ (g \in replaced' <=> g \in replaced)
        BY <1>13, <1>17, <2>1, <3>7
      <4> QED
        BY <1>6, <3>4, <3>5, <4>1
    <3> QED
      BY <3>6, <3>7
  <2> QED
    BY <2>2, <2>3
<1>21. RowsAreIngestedOnce'
  BY <1>20 DEF RowsAreIngestedOnce
<1>22. ReadyIsAnswered' /\ NothingIsLost' /\ AnswersAreApplied'
  BY <1>5, <1>6, RecomputedType, DialogueKept
<1> QED
  BY <1>18, <1>19, <1>21, <1>22 DEF IInv

LEMMA ParseFailsStep ==
    ASSUME IInv, ParseFails
    PROVE  IInv'
<1>1. PICK read \in SUBSET Readable : ReadFiles(read)
  BY DEF ParseFails
<1>2. \A f \in Files : fileRows'[f] = IF f \in read THEN files[f] ELSE fileRows[f]
  BY <1>1 DEF ReadFiles
<1>3. \A f \in read : files[f] \in DOMAIN Cells /\ files[f] # None
  BY <1>1, ContentAssumption DEF Readable, Uploaded
<1>4. fileRows' \in [Files -> DOMAIN Cells \cup {None}]
  BY <1>1, <1>3 DEF ReadFiles, IInv, TypeOK
<1>5. stage' = "failed"
  BY DEF ParseFails
<1>6. replaced' = replaced \cup {f \in Files : fileRows'[f] # fileRows[f]}
  BY DEF ParseFails
<1>7. UNCHANGED <<files, type, entities, params, tables, constraints, questions,
                  world, extracted, named>>
  BY DEF ParseFails, data, dialogue
<1>8. TypeOK'
  <2>1. replaced' \subseteq Files
    BY <1>6 DEF IInv, TypeOK
  <2>2. \A f \in DOMAIN tables' : f \in Files /\ tables'[f] \in Tables /\ fileRows'[f] # None
    BY <1>2, <1>3, <1>7 DEF IInv, TypeOK
  <2>3. stage' \in Stages
    BY <1>5 DEF Stages
  <2> QED
    BY <1>4, <1>7, <2>1, <2>2, <2>3 DEF IInv, TypeOK
<1>9. Lists'
  BY <1>7, ListsKept
<1>10. RowsAreIngestedOnce'
  <2>1. \A f \in DOMAIN tables :
            f \notin replaced' => f \notin replaced /\ fileRows'[f] = fileRows[f]
    BY <1>6 DEF IInv, TypeOK
  <2> QED
    BY <1>7, <2>1 DEF IInv, RowsAreIngestedOnce
<1>11. ReadyIsAnswered' /\ NothingIsLost' /\ AnswersAreApplied'
  BY <1>5, <1>7, DialogueKept
<1> QED
  BY <1>8, <1>9, <1>10, <1>11 DEF IInv

\* The questions of a new spec: none answered, and one about every constraint
\* that the family of the problem does not support.
LEMMA QuestionsOfReply ==
    ASSUME NEW reply, reply.type \in ProblemTypes, reply.found \subseteq Rows(Constraints)
    PROVE  LET new == NewQuestions(reply)
           IN  /\ new \in Seq(Rows(new))
               /\ \A q \in Rows(new) : Asked(q) /\ None \notin DOMAIN q.effect
               /\ \A c \in reply.found \ Supported[reply.type] :
                     \E q \in Rows(new) : q.about = c /\ q.blocking
<1> DEFINE raised == {a \in Rows(Ambiguities) : a.about \in reply.raised}
           known == Selected(Ambiguities, raised)
           route == IF reply.routing THEN <<Routing>> ELSE <<>>
           lost == reply.found \ Supported[reply.type]
           dropped == Selected(Constraints, lost)
           flags == [i \in DOMAIN dropped |-> Flagged(dropped[i])]
           F == {Flagged(c) : c \in lost}
<1>1. NewQuestions(reply) = (known \o route) \o flags
  BY DEF NewQuestions
<1>2. known \in Seq(Rows(known)) /\ Rows(known) \subseteq Rows(Ambiguities)
  <2> HIDE DEF raised
  <2>1. /\ known \in Seq(Rows(Ambiguities))
        /\ Rows(known) = Rows(Ambiguities) \cap raised
    BY QuestionsAssumption, SelectedType
  <2> HIDE DEF known
  <2> QED
    BY <2>1, SequenceOfRows
<1>3. route \in Seq(Rows(route)) /\ Rows(route) \subseteq {Routing}
  <2>1. <<Routing>> \in Seq({Routing}) /\ <<>> \in Seq({Routing})
    OBVIOUS
  <2>2. route \in Seq({Routing})
    BY <2>1
  <2> HIDE DEF route
  <2> QED
    BY <2>2, RowsType, SequenceOfRows
<1>4. dropped \in Seq(Rows(Constraints)) /\ Rows(dropped) = lost
  <2> HIDE DEF lost
  <2>1. /\ dropped \in Seq(Rows(Constraints))
        /\ Rows(dropped) = Rows(Constraints) \cap lost
    BY QuestionsAssumption, SelectedType
  <2> QED
    BY <2>1 DEF lost
<1>5. Len(dropped) \in Nat /\ DOMAIN dropped = 1..Len(dropped)
  BY <1>4, LenProperties
<1>6. flags \in Seq(Rows(flags)) /\ Rows(flags) = F
  <2> HIDE DEF dropped, lost
  <2>1. flags = [i \in 1..Len(dropped) |-> Flagged(dropped[i])]
    BY <1>5
  <2>2. \A i \in 1..Len(dropped) : dropped[i] \in lost
    BY <1>4, <1>5 DEF Rows
  <2>3. flags \in [1..Len(dropped) -> F]
    BY <2>1, <2>2
  <2>4. flags \in Seq(F) /\ DOMAIN flags = DOMAIN dropped
    BY <1>5, <2>3
  <2>5. Rows(flags) = F
    BY <1>4, <2>4 DEF Rows
  <2> QED
    BY <2>4, <2>5
<1> HIDE DEF known, route, flags, lost
<1>7. known \o route \in Seq(Rows(known \o route))
      /\ Rows(known \o route) = Rows(known) \cup Rows(route)
  BY <1>2, <1>3, ConcatOfRows
<1> DEFINE new == (known \o route) \o flags
<1>8. new \in Seq(Rows(new)) /\ Rows(new) = (Rows(known) \cup Rows(route)) \cup F
  <2>1. new \in Seq(Rows(new)) /\ Rows(new) = Rows(known \o route) \cup Rows(flags)
    BY <1>6, <1>7, ConcatOfRows, Zenon
  <2> QED
    BY <1>6, <1>7, <2>1
<1>9. \A c \in lost : Asked(Flagged(c)) /\ None \notin DOMAIN Flagged(c).effect
  BY DEF Flagged, Asked
<1>10. \A c \in lost : Flagged(c).about = c /\ Flagged(c).blocking
  BY DEF Flagged
<1> HIDE DEF new
<1>11. \A q \in Rows(new) : Asked(q) /\ None \notin DOMAIN q.effect
  BY <1>2, <1>3, <1>8, <1>9, QuestionsAssumption
<1>12. \A c \in lost : \E q \in Rows(new) : q.about = c /\ q.blocking
  BY <1>8, <1>10
<1>13. NewQuestions(reply) = new
  BY <1>1 DEF new
<1> QED
  BY <1>8, <1>11, <1>12, <1>13 DEF lost

LEMMA ParseSucceedsStep ==
    ASSUME IInv, NEW reply \in world.replies, NEW classes \in [Uploaded -> Classifications],
           ParseSucceeds(reply, classes)
    PROVE  IInv'
<1> DEFINE new == NewQuestions(reply)
<1>1. /\ reply.type \in ProblemTypes /\ reply.found \subseteq Rows(Constraints)
      /\ reply.entities \in Seq(Rows(reply.entities))
      /\ \A e \in Rows(reply.entities) : e.category \in Categories /\ e.source \notin Files
  BY WorldsAssumption DEF IInv, Lists
<1>2. /\ new \in Seq(Rows(new))
      /\ \A q \in Rows(new) : Asked(q) /\ None \notin DOMAIN q.effect
      /\ \A c \in reply.found \ Supported[reply.type] :
            \E q \in Rows(new) : q.about = c /\ q.blocking
  BY <1>1, QuestionsOfReply, Zenon
<1>3. questions' = new
  BY DEF ParseSucceeds
<1> HIDE DEF new
<1>4. UNCHANGED <<files, world>>
  BY DEF ParseSucceeds
<1>5. /\ type' = reply.type /\ entities' = reply.entities
      /\ params' = [p \in Fields |-> None]
      /\ tables' = classes /\ extracted' = reply.found
      /\ constraints' = [c \in reply.found \cap Supported[reply.type] |-> "extracted"]
      /\ named' = [f \in Files |-> {}] /\ replaced' = {}
  BY DEF ParseSucceeds
<1>6. stage' = RecomputedStage(Unconfirmed(tables'), Open(questions'))
  BY DEF ParseSucceeds, Recompute
<1>7. DOMAIN tables' = Uploaded /\ \A f \in Uploaded : tables'[f] \in Classifications
  BY <1>5
<1>8. fileRows' = [f \in Files |-> IF f \in Uploaded THEN files[f] ELSE fileRows[f]]
  BY DEF ParseSucceeds, ReadFiles
<1>9. \A f \in Uploaded : f \in Files /\ files[f] \in DOMAIN Cells /\ files[f] # None
  BY DEF ParseSucceeds, Readable, Uploaded
<1>10. TypeOK'
  <2>1. fileRows' \in [Files -> DOMAIN Cells \cup {None}]
    BY <1>8, <1>9 DEF IInv, TypeOK
  <2>2. \A f \in DOMAIN tables' : f \in Files /\ tables'[f] \in Tables /\ fileRows'[f] # None
    BY <1>7, <1>8, <1>9 DEF Classifications
  <2>3. \A i \in DOMAIN entities' : entities'[i].category \in Categories
    BY <1>1, <1>5 DEF Rows
  <2>4. \A i \in DOMAIN questions' : questions'[i].resolution \in Answers \cup {None}
    BY <1>2, <1>3 DEF Rows, Asked
  <2>5. stage' \in Stages
    BY <1>6, RecomputedType
  <2>6. params' \in [Fields -> DOMAIN Cells \cup {None}]
    BY <1>5
  <2>7. named' \in [Files -> SUBSET Categories] /\ replaced' \subseteq Files
    BY <1>5
  <2>8. DOMAIN constraints' \subseteq extracted' /\ extracted' \subseteq Rows(Constraints)
    BY <1>1, <1>5
  <2> QED
    BY <1>1, <1>4, <1>5, <2>1, <2>2, <2>3, <2>4, <2>5, <2>6, <2>7, <2>8 DEF IInv, TypeOK
<1>11. Lists'
  <2>1. \A q \in Rows(new) : Question(q)
    BY <1>2 DEF Asked, Question
  <2> QED
    BY <1>1, <1>2, <1>3, <1>4, <1>5, <2>1 DEF IInv, Lists
<1>12. ReadyIsAnswered'
  BY <1>6, RecomputedType DEF ReadyIsAnswered
<1>13. NothingIsLost'
  <2>1. \A c \in reply.found \ Supported[reply.type] :
            \E i \in DOMAIN new : new[i].about = c /\ new[i].blocking
    BY <1>2 DEF Rows
  <2> QED
    BY <1>3, <1>5, <2>1 DEF NothingIsLost
<1>14. RowsAreIngestedOnce'
  <2>1. \A f \in Uploaded, c \in Categories : FromFile(reply.entities, f, c) = <<>>
    BY <1>1, <1>9, NoneOfFile
  <2>2. \A f \in Uploaded, c \in Categories : c \notin named'[f]
    BY <1>5, <1>9
  <2>3. DOMAIN <<>> = {}
    OBVIOUS
  <2> QED
    BY <1>5, <1>7, <2>1, <2>2, <2>3 DEF RowsAreIngestedOnce
<1>15. AnswersAreApplied'
  <2>1. \A i \in DOMAIN new : new[i].resolution \notin DOMAIN new[i].effect
    BY <1>2 DEF Rows, Asked
  <2> QED
    BY <1>3, <2>1 DEF AnswersAreApplied
<1> QED
  BY <1>10, <1>11, <1>12, <1>13, <1>14, <1>15 DEF IInv

\* An answered question is the question with an answer.
LEMMA AnsweredQuestion ==
    ASSUME NEW q, Question(q), NEW answer, NEW r, r = [q EXCEPT !.resolution = answer]
    PROVE  /\ Question(r) /\ r.resolution = answer
           /\ r.about = q.about /\ r.target = q.target
           /\ r.effect = q.effect /\ r.blocking = q.blocking
<1>1. r \in [about : {q.about}, target : {q.target}, effect : {q.effect},
             resolution : {answer}, blocking : {q.blocking}]
  BY DEF Question
<1>2. /\ r.about = q.about /\ r.target = q.target /\ r.effect = q.effect
      /\ r.resolution = answer /\ r.blocking = q.blocking
  BY <1>1
<1>3. q.blocking \in BOOLEAN /\ None \notin DOMAIN q.effect
  BY DEF Question
<1>4. r \in [about : {q.about}, target : {q.target}, effect : {q.effect},
             resolution : {answer}, blocking : BOOLEAN]
  BY <1>1, <1>3
<1>5. Question(r)
  BY <1>2, <1>3, <1>4 DEF Question
<1> QED
  BY <1>2, <1>5

LEMMA ResolveStep ==
    ASSUME IInv, NEW S \in SUBSET DOMAIN questions, NEW answers \in [S -> Answers],
           Resolve(answers)
    PROVE  IInv'
<1> DEFINE cancelled == {i \in DOMAIN answers : answers[i] = "cancel"}
           taken == {i \in DOMAIN answers : \A k \in cancelled : i <= k}
           patches(c) == {i \in taken \ cancelled :
                 questions[i].target = c /\ answers[i] \in DOMAIN questions[i].effect}
           last(P) == CHOOSE i \in P : \A k \in P : k <= i
           q(i) == questions[i]
           r(i) == questions'[i]
<1>1. UNCHANGED <<files, fileRows, type, entities, params, tables, world, extracted,
              named, replaced>>
  BY DEF Resolve, data, history
<1>2. /\ DOMAIN questions' = DOMAIN questions
      /\ \A i \in DOMAIN questions :
            r(i) = IF i \in taken THEN [q(i) EXCEPT !.resolution = answers[i]] ELSE q(i)
  BY DEF Resolve
<1>3. /\ DOMAIN constraints' = DOMAIN constraints
      /\ \A c \in DOMAIN constraints :
            constraints'[c] = IF patches(c) = {} THEN constraints[c]
                              ELSE q(last(patches(c))).effect[answers[last(patches(c))]]
  BY DEF Resolve
<1>4. stage' = IF cancelled # {} THEN "cancelled"
               ELSE RecomputedStage(Unconfirmed(tables), Open(questions'))
  BY DEF Resolve
<1>5. /\ \A i \in taken : i \in S /\ answers[i] \in Answers
      /\ \A i \in taken \ cancelled : answers[i] # "cancel"
      /\ \A i \in taken \cap cancelled : answers[i] = "cancel"
  OBVIOUS
<1>6. questions \in Seq(Rows(questions)) /\ \A i \in DOMAIN questions : Question(q(i))
  BY DEF IInv, Lists, Rows
<1>7. Len(questions) \in Nat /\ DOMAIN questions = 1..Len(questions)
  BY <1>6, LenProperties
<1>8. \A c : patches(c) # {} => /\ last(patches(c)) \in patches(c)
                                /\ last(patches(c)) \in taken \ cancelled
  <2> SUFFICES ASSUME NEW c, patches(c) # {}
               PROVE  /\ last(patches(c)) \in patches(c)
                      /\ last(patches(c)) \in taken \ cancelled
    OBVIOUS
  <2>1. patches(c) \in SUBSET (1..Len(questions))
    BY <1>7
  <2>2. patches(c) \subseteq taken \ cancelled
    OBVIOUS
  <2> HIDE DEF patches
  <2>3. \E i \in patches(c) : \A k \in patches(c) : k <= i
    BY <1>7, <2>1, LastPosition
  <2>4. last(patches(c)) \in patches(c)
    BY <2>3
  <2> QED
    BY <2>2, <2>4
<1>9. \A c : \A i \in patches(c) :
          /\ i \in taken \ cancelled /\ q(i).target = c
          /\ answers[i] \in DOMAIN q(i).effect
  OBVIOUS
<1>10. \A c : \A i \in taken \ cancelled :
          q(i).target = c /\ answers[i] \in DOMAIN q(i).effect => i \in patches(c)
  OBVIOUS
<1> HIDE DEF cancelled, taken, patches, last
<1>11. \A i \in DOMAIN questions :
          /\ Question(r(i))
          /\ r(i).about = q(i).about /\ r(i).target = q(i).target
          /\ r(i).effect = q(i).effect /\ r(i).blocking = q(i).blocking
          /\ r(i).resolution = IF i \in taken THEN answers[i] ELSE q(i).resolution
  <2> SUFFICES ASSUME NEW i \in DOMAIN questions
               PROVE  /\ Question(r(i))
                      /\ r(i).about = q(i).about /\ r(i).target = q(i).target
                      /\ r(i).effect = q(i).effect /\ r(i).blocking = q(i).blocking
                      /\ r(i).resolution = IF i \in taken THEN answers[i] ELSE q(i).resolution
    OBVIOUS
  <2>1. CASE i \in taken
    <3>1. Question(q(i)) /\ r(i) = [q(i) EXCEPT !.resolution = answers[i]]
      BY <1>2, <1>6, <2>1
    <3> HIDE DEF q, r
    <3> QED
      BY <2>1, <3>1, AnsweredQuestion
  <2>2. CASE i \notin taken
    BY <1>2, <1>6, <2>2
  <2> QED
    BY <2>1, <2>2
<1>12. TypeOK'
  <2>1. stage' \in Stages
    <3>1. "cancelled" \in Stages
      BY DEF Stages
    <3> QED
      BY <1>4, <3>1, RecomputedType
  <2>2. \A i \in DOMAIN questions' : questions'[i].resolution \in Answers \cup {None}
    BY <1>2, <1>5, <1>11 DEF IInv, TypeOK
  <2>3. DOMAIN constraints' \subseteq extracted' /\ extracted' \subseteq Rows(Constraints)
    BY <1>1, <1>3 DEF IInv, TypeOK
  <2> QED
    BY <1>1, <2>1, <2>2, <2>3 DEF IInv, TypeOK
<1>13. Lists'
  <2>1. questions' \in [1..Len(questions) -> Rows(questions')]
    BY <1>2, <1>7 DEF Rows, Resolve
  <2>2. questions' \in Seq(Rows(questions'))
    BY <1>7, <2>1
  <2>3. \A u \in Rows(questions') : Question(u)
    BY <1>2, <1>11 DEF Rows
  <2> QED
    BY <1>1, <2>2, <2>3 DEF IInv, Lists
<1>14. ReadyIsAnswered'
  BY <1>4, RecomputedType DEF ReadyIsAnswered
<1>15. NothingIsLost'
  <2>1. \A c \in extracted : \/ c \in DOMAIN constraints
                             \/ \E i \in DOMAIN questions : q(i).about = c /\ q(i).blocking
    BY DEF IInv, NothingIsLost
  <2>2. \A c \in extracted : \/ c \in DOMAIN constraints
                             \/ \E i \in DOMAIN questions : r(i).about = c /\ r(i).blocking
    BY <1>11, <2>1
  <2> QED
    BY <1>1, <1>2, <1>3, <2>2 DEF NothingIsLost
<1>16. RowsAreIngestedOnce'
  BY <1>1, DataKept
<1>17. ASSUME NEW i \in DOMAIN questions, r(i).target \in DOMAIN constraints,
              r(i).resolution \in DOMAIN r(i).effect \ {"cancel"}
       PROVE  \E k \in DOMAIN questions : \E answer \in DOMAIN r(k).effect :
                  /\ r(k).target = r(i).target /\ r(k).resolution # None
                  /\ constraints'[r(i).target] = r(k).effect[answer]
                  /\ k = i => answer = r(i).resolution
  <2> DEFINE c == r(i).target
  <2>1. c \in DOMAIN constraints /\ c = q(i).target /\ r(i).effect = q(i).effect
    BY <1>11, <1>17
  <2>2. CASE patches(c) # {}
    <3> DEFINE k == last(patches(c))
    <3>1. k \in taken \ cancelled /\ q(k).target = c /\ answers[k] \in DOMAIN q(k).effect
      BY <1>8, <1>9, <2>2
    <3>2. k \in DOMAIN questions /\ answers[k] # None
      BY <1>5, <3>1, QuestionsAssumption
    <3>3. constraints'[c] = q(k).effect[answers[k]]
      BY <1>3, <2>1, <2>2
    <3> HIDE DEF k
    <3>4. /\ r(k).target = c /\ r(k).effect = q(k).effect
          /\ r(k).resolution = answers[k]
      BY <1>11, <3>1, <3>2
    <3> QED
      BY <3>1, <3>2, <3>3, <3>4
  <2>3. CASE patches(c) = {}
    <3>1. i \notin taken
      <4> SUFFICES ASSUME i \in taken PROVE FALSE
        OBVIOUS
      <4>1. r(i).resolution = answers[i]
        BY <1>11
      <4>2. i \notin cancelled
        BY <1>5, <1>17, <4>1
      <4> QED
        BY <1>10, <1>17, <2>1, <2>3, <4>1, <4>2
    <3>2. r(i).resolution = q(i).resolution
      BY <1>11, <3>1
    <3>3. PICK k \in DOMAIN questions : \E answer \in DOMAIN q(k).effect :
              /\ q(k).target = c /\ q(k).resolution # None
              /\ constraints[c] = q(k).effect[answer]
              /\ k = i => answer = q(i).resolution
      BY <1>17, <2>1, <3>2 DEF IInv, AnswersAreApplied
    <3>4. r(k).target = c /\ r(k).effect = q(k).effect
      BY <1>11, <3>3
    <3>5. r(k).resolution # None
      BY <1>5, <1>11, <3>3, QuestionsAssumption
    <3>6. constraints'[c] = constraints[c]
      BY <1>3, <2>1, <2>3
    <3> QED
      BY <3>2, <3>3, <3>4, <3>5, <3>6
  <2> QED
    BY <2>2, <2>3
<1>18. AnswersAreApplied'
  BY <1>2, <1>3, <1>17 DEF AnswersAreApplied
<1> QED
  BY <1>12, <1>13, <1>14, <1>15, <1>16, <1>18 DEF IInv

\* No other request than a solve makes a READY session EXPLAINED.
LEMMA OnlySolveExplains ==
    ASSUME [Next]_vars, stage = "ready", stage' = "explained"
    PROVE  Solve
<1>1. stage' # stage
  OBVIOUS
<1>2. CASE UNCHANGED vars
  BY <1>1, <1>2 DEF vars
<1>3. ASSUME NEW f \in Files, NEW c, Upload(f, c) PROVE FALSE
  BY <1>1, <1>3 DEF Upload
<1>4. ASSUME NEW f \in Files, NEW c, NEW b, ConfirmEntities(f, c, b) PROVE FALSE
  <2>1. stage' = stage \/ stage' = RecomputedStage(Unconfirmed(tables'), Open(questions))
    BY <1>4 DEF ConfirmEntities
  <2> QED
    BY <1>1, <2>1, RecomputedType
<1>5. ASSUME NEW f \in Files, NEW p, ConfirmParameters(f, p) PROVE FALSE
  BY <1>5, RecomputedType DEF ConfirmParameters
<1>6. ASSUME NEW f \in Files, ConfirmPairwise(f) PROVE FALSE
  BY <1>6, RecomputedType DEF ConfirmPairwise
<1>7. CASE Parse
  BY <1>7, RecomputedType DEF Parse, ParseFails, ParseSucceeds, Recompute
<1>8. ASSUME NEW answers, Resolve(answers) PROVE FALSE
  <2>1. \/ stage' = "cancelled"
        \/ stage' = RecomputedStage(Unconfirmed(tables), Open(questions'))
    BY <1>8 DEF Resolve
  <2> QED
    BY <2>1, RecomputedType
<1>9. ASSUME NEW t, NEW patched, EditSpec(t, patched) PROVE FALSE
  BY <1>1, <1>9, RecomputedType DEF EditSpec
<1> QED
  BY <1>2, <1>3, <1>4, <1>5, <1>6, <1>7, <1>8, <1>9 DEF Next

-----------------------------------------------------------------------------
(* The theorems.                                                            *)

LEMMA InitiallyTrue ==
    ASSUME Init
    PROVE  IInv
<1>1. DOMAIN <<>> = {} /\ Rows(<<>>) = {} /\ <<>> \in Seq({})
  BY DEF Rows
<1>2. TypeOK
  <2>1. "created" \in Stages
    BY DEF Stages
  <2> QED
    BY <1>1, <2>1 DEF Init, TypeOK, NotRead
<1>3. Lists
  BY <1>1 DEF Init, Lists
<1>4. ReadyIsAnswered /\ NothingIsLost
  BY DEF Init, ReadyIsAnswered, NothingIsLost
<1>5. RowsAreIngestedOnce /\ AnswersAreApplied
  BY <1>1 DEF Init, RowsAreIngestedOnce, AnswersAreApplied
<1> QED
  BY <1>2, <1>3, <1>4, <1>5 DEF IInv

\* Every request, whatever its outcome, keeps the invariant.
LEMMA StepsKeepIt ==
    ASSUME IInv, [Next]_vars
    PROVE  IInv'
<1>1. CASE UNCHANGED vars
  <2>1. UNCHANGED <<files, fileRows, type, entities, params, tables, constraints,
                    questions, stage, world, extracted, named, replaced>>
    BY <1>1 DEF vars, data, dialogue, history
  <2>2. TypeOK'
    BY <2>1 DEF IInv, TypeOK
  <2>3. Lists' /\ RowsAreIngestedOnce'
    BY <2>1, ListsKept, DataKept
  <2>4. ReadyIsAnswered' /\ NothingIsLost' /\ AnswersAreApplied'
    BY <2>1, DialogueKept
  <2> QED
    BY <2>2, <2>3, <2>4 DEF IInv
<1>2. ASSUME NEW f \in Files, NEW c \in world.uploads[f], Upload(f, c) PROVE IInv'
  BY <1>2, UploadStep
<1>3. ASSUME NEW f \in Files, NEW c \in Categories, NEW b \in BOOLEAN,
             ConfirmEntities(f, c, b)
      PROVE  IInv'
  BY <1>3, ConfirmEntitiesStep
<1>4. ASSUME NEW f \in Files, NEW p \in Fields, ConfirmParameters(f, p) PROVE IInv'
  BY <1>4, ConfirmParametersStep
<1>5. ASSUME NEW f \in Files, ConfirmPairwise(f) PROVE IInv'
  BY <1>5, ConfirmPairwiseStep
<1>6. CASE ParseFails
  BY <1>6, ParseFailsStep
<1>7. ASSUME NEW reply \in world.replies, NEW classes \in [Uploaded -> Classifications],
             ParseSucceeds(reply, classes)
      PROVE  IInv'
  BY <1>7, ParseSucceedsStep
<1>8. ASSUME NEW S \in SUBSET DOMAIN questions, NEW answers \in [S -> Answers],
             Resolve(answers)
      PROVE  IInv'
  BY <1>8, ResolveStep
<1>9. ASSUME NEW t \in ProblemTypes, NEW patched, EditSpec(t, patched) PROVE IInv'
  BY <1>9, EditStep
<1>10. CASE Solve
  BY <1>10, SolveStep
<1>11. CASE Parse
  BY <1>6, <1>7, <1>11 DEF Parse
<1> QED
  BY <1>1, <1>2, <1>3, <1>4, <1>5, <1>8, <1>9, <1>10, <1>11 DEF Next

\* The lists are well formed, every table was read, nothing extracted is lost.
THEOREM Inductive == Spec => []IInv
<1>1. Init => IInv
  BY InitiallyTrue
<1>2. IInv /\ [Next]_vars => IInv'
  BY StepsKeepIt
<1> QED
  BY <1>1, <1>2, PTL DEF Spec

\* The variables keep their types, whatever is uploaded, parsed and answered.
THEOREM TypeCorrect == Spec => []TypeOK
<1>1. IInv => TypeOK
  BY DEF IInv
<1> QED
  BY <1>1, Inductive, PTL

\* No row of an entity table is there twice under one category, a category that
\* was not confirmed or was refused has none, and the one the table is confirmed
\* under has every row, for any number of files and rows, any order of requests.
THEOREM RowsIngestedOnce == Spec => []RowsAreIngestedOnce
<1>1. IInv => RowsAreIngestedOnce
  BY DEF IInv
<1> QED
  BY <1>1, Inductive, PTL

\* A recorded answer that maps to a parameter has changed its constraint, for
\* any questions, however many of them share a constraint.
THEOREM AnswersApplied == Spec => []AnswersAreApplied
<1>1. IInv => AnswersAreApplied
  BY DEF IInv
<1> QED
  BY <1>1, Inductive, PTL

\* A session becomes EXPLAINED only with every extracted constraint in the
\* model or an answer to the question that asked to leave it out.
THEOREM NothingDropped == Spec => NothingSilentlyDropped
<1> DEFINE Accounted == stage = "ready" /\ stage' = "explained" =>
               \A c \in extracted :
                  \/ c \in DOMAIN constraints /\ c \in Supported[type]
                  \/ \E i \in DOMAIN questions :
                        questions[i].about = c /\ questions[i].resolution # None
<1>1. IInv /\ [Next]_vars => Accounted
  <2> SUFFICES ASSUME IInv, [Next]_vars, stage = "ready", stage' = "explained",
                      NEW c \in extracted
               PROVE  \/ c \in DOMAIN constraints /\ c \in Supported[type]
                      \/ \E i \in DOMAIN questions :
                            questions[i].about = c /\ questions[i].resolution # None
    OBVIOUS
  <2>1. DOMAIN constraints \subseteq Supported[type]
    BY OnlySolveExplains DEF Solve, Buildable
  <2>2. Open(questions) = {}
    BY DEF IInv, ReadyIsAnswered
  <2>3. \/ c \in DOMAIN constraints
        \/ \E i \in DOMAIN questions : questions[i].about = c /\ questions[i].blocking
    BY DEF IInv, NothingIsLost
  <2> QED
    BY <2>1, <2>2, <2>3 DEF Open
<1>2. IInv /\ [Next]_vars => [Accounted]_vars
  BY <1>1
<1> QED
  BY <1>2, Inductive, PTL DEF Spec, NothingSilentlyDropped

=============================================================================
