------------------------ MODULE PersistentMemoryProofs ----------------------
(***************************************************************************)
(* Proofs about PersistentMemory: that the tiers of the store agree, that  *)
(* paging loses nothing, that cold records survive crashes and that        *)
(* forgotten ones stay away, for any agents, limits, sizes and bounds.     *)
(*                                                                         *)
(* HotTokens is a fold over a set and Kept a recursion over a list.  What  *)
(* they compute is proved by induction on the natural numbers, where a set *)
(* takes the place of the predicate.                                       *)
(***************************************************************************)
EXTENDS PersistentMemory, FiniteSetTheorems, SequenceTheorems,
        WellFoundedInduction, TLAPS

-----------------------------------------------------------------------------
(* Induction *)

\* A set that holds 0 and the successor of each of its numbers holds them all.
LEMMA NatSetInduction ==
  ASSUME NEW S, 0 \in S, \A n \in Nat : n \in S => n + 1 \in S
  PROVE  Nat \subseteq S
<1> SUFFICES ASSUME Nat \ S # {} PROVE FALSE
  OBVIOUS
<1>1. PICK x \in Nat \ S : \A y \in Nat \ S : ~ (<<y, x>> \in OpToRel(<, Nat))
  BY NatLessThanWellFounded, WFMin
<1>2. x # 0 /\ x \in Nat /\ x \notin S
  OBVIOUS
<1>3. x - 1 \in Nat /\ x - 1 < x /\ (x - 1) + 1 = x
  BY <1>2
<1>4. <<x - 1, x>> \in OpToRel(<, Nat)
  BY <1>2, <1>3 DEF OpToRel
<1>5. x - 1 \in S
  BY <1>1, <1>3, <1>4
<1> QED
  BY <1>2, <1>3, <1>5

\* The subsets of a finite set are finite; removing an element makes one smaller.
LEMMA Subsets ==
  ASSUME NEW S, IsFiniteSet(S)
  PROVE  /\ IsFiniteSet(S) /\ Cardinality(S) \in Nat
         /\ \A s \in SUBSET S :
              /\ IsFiniteSet(s) /\ Cardinality(s) \in Nat
              /\ Cardinality(s) <= Cardinality(S)
              /\ Cardinality(s) = 0 <=> s = {}
              /\ \A x \in s : Cardinality(s \ {x}) = Cardinality(s) - 1
BY FS_Subset, FS_CardinalityType, FS_EmptySet, FS_RemoveElement

-----------------------------------------------------------------------------
(* Sums *)

Sum(f, S) == FoldFunctionOnSet(+, 0, f, S)

\* The function by which MapThenFoldSet defines it, and the element it takes.
First(s) == CHOOSE x \in s : TRUE
Sums(f, S, g) ==
  g = [s \in SUBSET S |-> IF s = {} THEN 0 ELSE f[First(s)] + g[s \ {First(s)}]]
Summing(f, S) == CHOOSE g : Sums(f, S, g)

\* The definition of the fold, with names for its parts.
LEMMA SumIsSumming ==
  ASSUME NEW f, NEW S
  PROVE  Sum(f, S) = Summing(f, S)[S]
BY DEF Sum, FoldFunctionOnSet, MapThenFoldSet, Summing, First, Sums

\* The recursion has a solution: one for sets of n + 1 elements is made of one
\* for sets of n.
LEMMA SummingExists ==
  ASSUME NEW f, NEW S, IsFiniteSet(S)
  PROVE  Sums(f, S, Summing(f, S))
<1> DEFINE Value(g, s) == IF s = {} THEN 0 ELSE f[First(s)] + g[s \ {First(s)}]
           Good(n) == \E g : \A s \in SUBSET S :
                        Cardinality(s) <= n => g[s] = Value(g, s)
           G == {n \in Nat : Good(n)}
<1>1. \A s \in SUBSET S : s # {} => First(s) \in s
  BY DEF First
<1>2. 0 \in G
  <2>1. \A s \in SUBSET S : Cardinality(s) <= 0 =>
          [t \in SUBSET S |-> 0][s] = Value([t \in SUBSET S |-> 0], s)
    BY Subsets
  <2> QED
    BY <2>1
<1>3. ASSUME NEW n \in Nat, n \in G PROVE n + 1 \in G
  <2>1. PICK g : \A s \in SUBSET S : Cardinality(s) <= n => g[s] = Value(g, s)
    BY <1>3
  <2> DEFINE h == [s \in SUBSET S |-> Value(g, s)]
  <2>2. ASSUME NEW s \in SUBSET S, Cardinality(s) <= n + 1, s # {}
        PROVE  h[s] = f[First(s)] + h[s \ {First(s)}]
    <3>1. First(s) \in s /\ s \ {First(s)} \in SUBSET S
      BY <1>1, <2>2
    <3>2. Cardinality(s \ {First(s)}) <= n
      BY <2>2, <3>1, Subsets
    <3>3. h[s \ {First(s)}] = g[s \ {First(s)}]
      BY <2>1, <3>1, <3>2
    <3> QED
      BY <2>2, <3>3
  <2>3. \A s \in SUBSET S : Cardinality(s) <= n + 1 => h[s] = Value(h, s)
    BY <2>2
  <2>4. Good(n + 1)
    <3> HIDE DEF h
    <3> QED
      BY <2>3
  <2> HIDE DEF Good
  <2> QED
    BY <2>4
<1>4. Nat \subseteq G
  <2> HIDE DEF G
  <2> QED
    BY <1>2, <1>3, NatSetInduction
<1>5. Cardinality(S) \in G
  BY <1>4, Subsets
<1>6. PICK g : \A s \in SUBSET S :
                 Cardinality(s) <= Cardinality(S) => g[s] = Value(g, s)
  BY <1>5
<1> DEFINE k == [s \in SUBSET S |-> g[s]]
<1>7. Sums(f, S, k)
  BY <1>1, <1>6, Subsets DEF Sums
<1> QED
  BY <1>7 DEF Summing

\* Its values.
LEMMA SummingValues ==
  ASSUME NEW f, NEW S, IsFiniteSet(S), NEW s \in SUBSET S
  PROVE  Summing(f, S)[s] =
           IF s = {} THEN 0 ELSE f[First(s)] + Summing(f, S)[s \ {First(s)}]
<1>1. Sums(f, S, Summing(f, S))
  BY SummingExists
<1>2. Summing(f, S) =
        [t \in SUBSET S |->
           IF t = {} THEN 0 ELSE f[First(t)] + Summing(f, S)[t \ {First(t)}]]
  BY <1>1 DEF Sums
<1> QED
  BY <1>2

\* They do not depend on the set of which s is a subset.
LEMMA SummingIsLocal ==
  ASSUME NEW f, NEW S, IsFiniteSet(S), NEW T \in SUBSET S
  PROVE  Summing(f, S)[T] = Summing(f, T)[T]
<1> DEFINE G == {n \in Nat : \A s \in SUBSET T :
                   Cardinality(s) <= n => Summing(f, S)[s] = Summing(f, T)[s]}
<1>1. IsFiniteSet(T) /\ \A s \in SUBSET T : s \in SUBSET S
  BY Subsets
<1>2. \A s \in SUBSET T : s = {} => Summing(f, S)[s] = Summing(f, T)[s]
  BY <1>1, SummingValues
<1>3. 0 \in G
  BY <1>1, <1>2, Subsets
<1>4. ASSUME NEW n \in Nat, n \in G PROVE n + 1 \in G
  <2> SUFFICES ASSUME NEW s \in SUBSET T, Cardinality(s) <= n + 1, s # {}
               PROVE  Summing(f, S)[s] = Summing(f, T)[s]
    BY <1>2
  <2>1. First(s) \in s /\ s \ {First(s)} \in SUBSET T
    BY DEF First
  <2>2. Cardinality(s \ {First(s)}) <= n
    BY <1>1, <2>1, Subsets
  <2>3. Summing(f, S)[s \ {First(s)}] = Summing(f, T)[s \ {First(s)}]
    BY <1>4, <2>1, <2>2
  <2>4. /\ Summing(f, S)[s] = f[First(s)] + Summing(f, S)[s \ {First(s)}]
        /\ Summing(f, T)[s] = f[First(s)] + Summing(f, T)[s \ {First(s)}]
    BY <1>1, SummingValues
  <2> QED
    BY <2>3, <2>4
<1>5. Nat \subseteq G
  <2> HIDE DEF G
  <2> QED
    BY <1>3, <1>4, NatSetInduction
<1> QED
  BY <1>1, <1>5, Subsets

\* A sum is zero for the empty set and otherwise takes its elements one by one.
LEMMA SumSteps ==
  ASSUME NEW f, NEW S, IsFiniteSet(S)
  PROVE  /\ S = {} => Sum(f, S) = 0
         /\ S # {} => /\ First(S) \in S
                      /\ Sum(f, S) = f[First(S)] + Sum(f, S \ {First(S)})
<1>1. Sum(f, S) = IF S = {} THEN 0 ELSE f[First(S)] + Summing(f, S)[S \ {First(S)}]
  BY SummingValues, SumIsSumming
<1>2. Summing(f, S)[S \ {First(S)}] = Sum(f, S \ {First(S)})
  BY SummingIsLocal, SumIsSumming
<1>3. S # {} => First(S) \in S
  BY DEF First
<1> QED
  BY <1>1, <1>2, <1>3

\* A sum of natural numbers is one.
LEMMA SumType ==
  ASSUME NEW f, NEW S, IsFiniteSet(S), \A x \in S : f[x] \in Nat
  PROVE  Sum(f, S) \in Nat
<1> DEFINE G == {n \in Nat : \A s \in SUBSET S :
                   Cardinality(s) = n => Sum(f, s) \in Nat}
<1>1. 0 \in G
  <2> SUFFICES ASSUME NEW s \in SUBSET S, Cardinality(s) = 0
               PROVE  Sum(f, s) \in Nat
    OBVIOUS
  <2>1. s = {} /\ IsFiniteSet(s)
    BY Subsets
  <2>2. Sum(f, s) = 0
    BY <2>1, SumSteps
  <2> QED
    BY <2>2
<1>2. ASSUME NEW n \in Nat, n \in G PROVE n + 1 \in G
  <2> SUFFICES ASSUME NEW s \in SUBSET S, Cardinality(s) = n + 1
               PROVE  Sum(f, s) \in Nat
    OBVIOUS
  <2>1. s # {} /\ IsFiniteSet(s)
    BY Subsets
  <2>2. First(s) \in s /\ Sum(f, s) = f[First(s)] + Sum(f, s \ {First(s)})
    BY <2>1, SumSteps
  <2>3. Cardinality(s \ {First(s)}) = n
    BY <2>2, Subsets
  <2>4. Sum(f, s \ {First(s)}) \in Nat
    BY <1>2, <2>3
  <2> QED
    BY <2>2, <2>4
<1>3. Nat \subseteq G
  <2> HIDE DEF G
  <2> QED
    BY <1>1, <1>2, NatSetInduction
<1> QED
  BY <1>3, Subsets

\* Any element can be taken first.
LEMMA SumRemove ==
  ASSUME NEW f, NEW S, IsFiniteSet(S), \A x \in S : f[x] \in Nat, NEW e \in S
  PROVE  Sum(f, S) = f[e] + Sum(f, S \ {e})
<1> DEFINE G == {n \in Nat : \A s \in SUBSET S : Cardinality(s) = n =>
                   \A x \in s : Sum(f, s) = f[x] + Sum(f, s \ {x})}
<1>1. \A s \in SUBSET S : Sum(f, s) \in Nat
  BY Subsets, SumType
<1>2. 0 \in G
  BY Subsets
<1>3. ASSUME NEW n \in Nat, n \in G PROVE n + 1 \in G
  <2> SUFFICES ASSUME NEW s \in SUBSET S, Cardinality(s) = n + 1, NEW x \in s
               PROVE  Sum(f, s) = f[x] + Sum(f, s \ {x})
    OBVIOUS
  <2> DEFINE y == First(s)
  <2>1. y \in s /\ Sum(f, s) = f[y] + Sum(f, s \ {y})
    BY Subsets, SumSteps
  <2> HIDE DEF y
  <2>2. CASE x = y
    BY <2>1, <2>2
  <2>3. CASE x # y
    <3> DEFINE z == Sum(f, (s \ {y}) \ {x})
    <3>1. Cardinality(s \ {x}) = n /\ Cardinality(s \ {y}) = n
      BY <2>1, Subsets
    <3>2. Sum(f, s \ {y}) = f[x] + z
      BY <1>3, <2>3, <3>1
    <3>3. Sum(f, s \ {x}) = f[y] + Sum(f, (s \ {x}) \ {y})
      BY <1>3, <2>1, <2>3, <3>1
    <3>4. (s \ {x}) \ {y} = (s \ {y}) \ {x}
      OBVIOUS
    <3>5. Sum(f, s \ {x}) = f[y] + z
      BY <3>3, <3>4
    <3>6. z \in Nat /\ f[x] \in Nat /\ f[y] \in Nat
      BY <1>1, <2>1
    <3> HIDE DEF z
    <3> QED
      BY <2>1, <3>2, <3>5, <3>6
  <2> QED
    BY <2>2, <2>3
<1>4. Nat \subseteq G
  <2> HIDE DEF G
  <2> QED
    BY <1>2, <1>3, NatSetInduction
<1> QED
  BY <1>4, Subsets

\* Only the values on the set count.
LEMMA SumSame ==
  ASSUME NEW f, NEW g, NEW S, IsFiniteSet(S), \A x \in S : f[x] = g[x]
  PROVE  Sum(f, S) = Sum(g, S)
<1> DEFINE G == {n \in Nat : \A s \in SUBSET S :
                   Cardinality(s) = n => Sum(f, s) = Sum(g, s)}
<1>1. 0 \in G
  BY Subsets, SumSteps
<1>2. ASSUME NEW n \in Nat, n \in G PROVE n + 1 \in G
  <2> SUFFICES ASSUME NEW s \in SUBSET S, Cardinality(s) = n + 1
               PROVE  Sum(f, s) = Sum(g, s)
    OBVIOUS
  <2>1. s # {} /\ IsFiniteSet(s)
    BY Subsets
  <2>2. /\ First(s) \in s /\ Sum(f, s) = f[First(s)] + Sum(f, s \ {First(s)})
        /\ Sum(g, s) = g[First(s)] + Sum(g, s \ {First(s)})
    BY <2>1, SumSteps
  <2>3. Cardinality(s \ {First(s)}) = n
    BY <2>2, Subsets
  <2>4. Sum(f, s \ {First(s)}) = Sum(g, s \ {First(s)})
    BY <1>2, <2>3
  <2> QED
    BY <2>2, <2>4
<1>3. Nat \subseteq G
  <2> HIDE DEF G
  <2> QED
    BY <1>1, <1>2, NatSetInduction
<1> QED
  BY <1>3, Subsets

-----------------------------------------------------------------------------
(* Lists of records *)

\* The elements of a list come from the set it is over.
LEMMA ListedType ==
  ASSUME NEW S, NEW s \in Seq(S)
  PROVE  Listed(s) \subseteq S
BY DEF Listed

\* Appending adds one element.
LEMMA ListedAppend ==
  ASSUME NEW S, NEW s \in Seq(S), NEW e \in S
  PROVE  Append(s, e) \in Seq(S) /\ Listed(Append(s, e)) = Listed(s) \cup {e}
<1>1. /\ Append(s, e) \in Seq(S) /\ Len(Append(s, e)) = Len(s) + 1 /\ Len(s) \in Nat
      /\ \A i \in 1 .. Len(s) : Append(s, e)[i] = s[i]
      /\ Append(s, e)[Len(s) + 1] = e
  BY AppendProperties, LenProperties
<1>2. ASSUME NEW x \in Listed(Append(s, e)) PROVE x \in Listed(s) \cup {e}
  <2>1. PICK i \in 1 .. Len(s) + 1 : x = Append(s, e)[i]
    BY <1>1 DEF Listed
  <2>2. i \in 1 .. Len(s) \/ i = Len(s) + 1
    BY <1>1
  <2> QED
    BY <1>1, <2>1, <2>2 DEF Listed
<1>3. Listed(s) \subseteq Listed(Append(s, e))
  <2> SUFFICES ASSUME NEW i \in 1 .. Len(s) PROVE s[i] \in Listed(Append(s, e))
    BY DEF Listed
  <2>1. i \in 1 .. Len(Append(s, e)) /\ Append(s, e)[i] = s[i]
    BY <1>1
  <2> QED
    BY <2>1 DEF Listed
<1>4. e \in Listed(Append(s, e))
  <2>1. Len(s) + 1 \in 1 .. Len(Append(s, e))
    BY <1>1
  <2> QED
    BY <1>1, <2>1 DEF Listed
<1> QED
  BY <1>1, <1>2, <1>3, <1>4

\* A part of a list.
LEMMA ListedSubSeq ==
  ASSUME NEW S, NEW s \in Seq(S), NEW m \in Nat \ {0}, NEW n \in Nat, n <= Len(s)
  PROVE  /\ SubSeq(s, m, n) \in Seq(S) /\ Listed(SubSeq(s, m, n)) \subseteq Listed(s)
         /\ m <= n => Len(SubSeq(s, m, n)) = n - m + 1
<1>1. Len(s) \in Nat /\ \A i \in m .. n : i \in 1 .. Len(s) /\ s[i] \in S
  BY ElementOfSeq, LenProperties
<1>2. /\ SubSeq(s, m, n) \in Seq(S)
      /\ Len(SubSeq(s, m, n)) = IF m <= n THEN n - m + 1 ELSE 0
      /\ \A i \in 1 .. n - m + 1 : SubSeq(s, m, n)[i] = s[m + i - 1]
  BY <1>1, SubSeqProperties
<1>3. ASSUME NEW i \in 1 .. Len(SubSeq(s, m, n)) PROVE SubSeq(s, m, n)[i] \in Listed(s)
  <2>1. i \in 1 .. n - m + 1
    BY <1>2
  <2>2. m + i - 1 \in 1 .. Len(s)
    BY <1>1, <2>1
  <2> QED
    BY <1>2, <2>1, <2>2 DEF Listed
<1> QED
  BY <1>2, <1>3 DEF Listed

\* The warm list after an eviction.
LEMMA BoundedKeepsLimit ==
  ASSUME NEW S, NEW s \in Seq(S)
  PROVE  /\ Bounded(s) \in Seq(S) /\ Len(Bounded(s)) <= WarmLimit
         /\ Listed(Bounded(s)) \subseteq Listed(s)
<1>1. Len(s) \in Nat /\ WarmLimit \in Nat \ {0}
  BY LimitAssumption, LenProperties
<1>2. CASE Len(s) > WarmLimit
  <2>1. Len(s) - WarmLimit + 1 \in Nat \ {0} /\ Len(s) - WarmLimit + 1 <= Len(s)
    BY <1>1, <1>2
  <2> DEFINE m == Len(s) - WarmLimit + 1
  <2>2. /\ SubSeq(s, m, Len(s)) \in Seq(S)
        /\ Listed(SubSeq(s, m, Len(s))) \subseteq Listed(s)
        /\ Len(SubSeq(s, m, Len(s))) = Len(s) - m + 1
    <3>1. m \in Nat \ {0} /\ m <= Len(s)
      BY <2>1
    <3> HIDE DEF m
    <3> QED
      BY <1>1, <3>1, ListedSubSeq
  <2>3. Len(s) - m + 1 = WarmLimit
    BY <1>1
  <2> QED
    BY <1>1, <1>2, <2>2, <2>3 DEF Bounded
<1>3. CASE ~(Len(s) > WarmLimit)
  BY <1>1, <1>3 DEF Bounded
<1> QED
  BY <1>2, <1>3

\* The function by which Kept is defined.
Keeping(s, set, g) ==
  g = [i \in 0 .. Len(s) |->
         IF i = 0 THEN <<>>
         ELSE IF s[i] \in set THEN Append(g[i - 1], s[i]) ELSE g[i - 1]]
KeepingOf(s, set) == CHOOSE g : Keeping(s, set, g)

\* The definition, with names for its parts.
LEMMA KeptIsKeeping ==
  ASSUME NEW s, NEW set
  PROVE  Kept(s, set) = KeepingOf(s, set)[Len(s)]
BY DEF Kept, KeepingOf, Keeping

\* The recursion has a solution.
LEMMA KeepingExists ==
  ASSUME NEW S, NEW s \in Seq(S), NEW set
  PROVE  Keeping(s, set, KeepingOf(s, set))
<1> DEFINE Value(g, i) == IF i = 0 THEN <<>>
                          ELSE IF s[i] \in set THEN Append(g[i - 1], s[i]) ELSE g[i - 1]
           Good(n) == \E g : \A i \in 0 .. Len(s) : i <= n => g[i] = Value(g, i)
           G == {n \in Nat : Good(n)}
<1>1. Len(s) \in Nat
  BY LenProperties
<1>2. 0 \in G
  <2>1. \A i \in 0 .. Len(s) : i <= 0 =>
          [j \in 0 .. Len(s) |-> <<>>][i] = Value([j \in 0 .. Len(s) |-> <<>>], i)
    BY <1>1
  <2> QED
    BY <2>1
<1>3. ASSUME NEW n \in Nat, n \in G PROVE n + 1 \in G
  <2>1. PICK g : \A i \in 0 .. Len(s) : i <= n => g[i] = Value(g, i)
    BY <1>3
  <2> DEFINE h == [i \in 0 .. Len(s) |-> Value(g, i)]
  <2>2. ASSUME NEW i \in 0 .. Len(s), i <= n + 1 PROVE h[i] = Value(h, i)
    <3>1. CASE i = 0
      BY <1>1, <3>1
    <3>2. CASE i # 0
      <4>1. i - 1 \in 0 .. Len(s) /\ i - 1 <= n
        BY <1>1, <2>2, <3>2
      <4>2. h[i - 1] = g[i - 1]
        BY <2>1, <4>1
      <4> QED
        BY <4>2
    <3> QED
      BY <3>1, <3>2
  <2>3. Good(n + 1)
    <3> HIDE DEF h
    <3> QED
      BY <2>2
  <2> HIDE DEF Good
  <2> QED
    BY <2>3
<1>4. Nat \subseteq G
  <2> HIDE DEF G
  <2> QED
    BY <1>2, <1>3, NatSetInduction
<1>5. Len(s) \in G
  BY <1>1, <1>4
<1>6. PICK g : \A i \in 0 .. Len(s) : i <= Len(s) => g[i] = Value(g, i)
  BY <1>5
<1> DEFINE k == [i \in 0 .. Len(s) |-> g[i]]
<1>7. Keeping(s, set, k)
  <2>1. \A i \in 0 .. Len(s) : i # 0 => i - 1 \in 0 .. Len(s)
    BY <1>1
  <2>2. \A i \in 0 .. Len(s) : k[i] = Value(k, i)
    BY <1>1, <1>6, <2>1
  <2> QED
    BY <2>2 DEF Keeping
<1> QED
  BY <1>7 DEF KeepingOf

\* Kept keeps the elements of the list that are in the set, and no more.
LEMMA KeptIsPart ==
  ASSUME NEW S, NEW s \in Seq(S), NEW set
  PROVE  /\ Kept(s, set) \in Seq(S) /\ Len(Kept(s, set)) <= Len(s)
         /\ Listed(Kept(s, set)) = Listed(s) \cap set
<1> DEFINE g == KeepingOf(s, set)
           Upto(i) == {s[j] : j \in 1 .. i}
           G == {n \in Nat : n <= Len(s) =>
                   /\ g[n] \in Seq(S) /\ Len(g[n]) <= n
                   /\ Listed(g[n]) = Upto(n) \cap set}
<1>1. Len(s) \in Nat /\ \A i \in 1 .. Len(s) : s[i] \in S
  BY LenProperties, ElementOfSeq
<1>2. g = [i \in 0 .. Len(s) |->
             IF i = 0 THEN <<>>
             ELSE IF s[i] \in set THEN Append(g[i - 1], s[i]) ELSE g[i - 1]]
  <2>1. Keeping(s, set, g)
    BY KeepingExists
  <2> QED
    BY <2>1 DEF Keeping
<1> HIDE DEF g
<1>3. 0 \in G
  <2>1. g[0] = <<>>
    BY <1>1, <1>2
  <2>2. <<>> \in Seq(S) /\ Len(<<>>) = 0
    OBVIOUS
  <2>3. Listed(<<>>) = {} /\ Upto(0) = {}
    BY DEF Listed
  <2>4. g[0] \in Seq(S) /\ Len(g[0]) <= 0 /\ Listed(g[0]) = Upto(0) \cap set
    <3> HIDE DEF Upto
    <3> QED
      BY <2>1, <2>2, <2>3
  <2> QED
    BY <2>4
<1>4. ASSUME NEW n \in Nat, n \in G PROVE n + 1 \in G
  <2> SUFFICES ASSUME n + 1 <= Len(s)
               PROVE  /\ g[n + 1] \in Seq(S) /\ Len(g[n + 1]) <= n + 1
                      /\ Listed(g[n + 1]) = Upto(n + 1) \cap set
    OBVIOUS
  <2>1. /\ g[n] \in Seq(S) /\ Len(g[n]) <= n /\ Len(g[n]) \in Nat
        /\ Listed(g[n]) = Upto(n) \cap set
    BY <1>1, <1>4, LenProperties
  <2>2. n + 1 \in 1 .. Len(s) /\ s[n + 1] \in S
    BY <1>1
  <2>3. g[n + 1] = IF s[n + 1] \in set THEN Append(g[n], s[n + 1]) ELSE g[n]
    <3>1. n + 1 \in 0 .. Len(s) /\ n + 1 # 0 /\ (n + 1) - 1 = n
      BY <1>1
    <3> QED
      BY <1>2, <3>1
  <2>4. Upto(n + 1) = Upto(n) \cup {s[n + 1]}
    <3>1. 1 .. n + 1 = (1 .. n) \cup {n + 1}
      OBVIOUS
    <3> QED
      BY <3>1
  <2> HIDE DEF Upto
  <2>5. CASE s[n + 1] \in set
    <3>1. /\ Append(g[n], s[n + 1]) \in Seq(S)
          /\ Listed(Append(g[n], s[n + 1])) = Listed(g[n]) \cup {s[n + 1]}
      BY <2>1, <2>2, ListedAppend
    <3>2. Len(Append(g[n], s[n + 1])) = Len(g[n]) + 1
      BY <2>1, <2>2, AppendProperties
    <3>3. Len(Append(g[n], s[n + 1])) <= n + 1
      BY <2>1, <3>2
    <3> QED
      BY <2>1, <2>3, <2>4, <2>5, <3>1, <3>3
  <2>6. CASE s[n + 1] \notin set
    <3>1. Len(g[n]) <= n + 1
      BY <2>1
    <3> QED
      BY <2>1, <2>3, <2>4, <2>6, <3>1
  <2> QED
    BY <2>5, <2>6
<1>5. Nat \subseteq G
  <2> HIDE DEF G
  <2> QED
    BY <1>3, <1>4, NatSetInduction
<1>6. Len(s) \in G
  BY <1>1, <1>5
<1>7. /\ g[Len(s)] \in Seq(S) /\ Len(g[Len(s)]) <= Len(s)
      /\ Listed(g[Len(s)]) = Upto(Len(s)) \cap set
  BY <1>1, <1>6
<1>8. Upto(Len(s)) = Listed(s)
  BY DEF Listed
<1> QED
  BY <1>7, <1>8, KeptIsKeeping DEF g

\* What restoring a snapshot gives for the warm list.
LEMMA WarmRestoredIsCold ==
  ASSUME NEW S, NEW s \in Seq(S)
  PROVE  /\ WarmRestored(s) \in Seq(S) /\ Len(WarmRestored(s)) <= WarmLimit
         /\ Listed(WarmRestored(s)) \subseteq cold
<1> DEFINE found == Kept(s, cold)
<1>1. found \in Seq(S) /\ Listed(found) \subseteq cold /\ Len(found) \in Nat
  BY KeptIsPart, LenProperties
<1>2. WarmLimit \in Nat \ {0}
  BY LimitAssumption
<1>3. WarmRestored(s) = IF Len(found) > WarmLimit THEN SubSeq(found, 1, WarmLimit)
                        ELSE found
  BY DEF WarmRestored
<1> HIDE DEF found
<1>4. CASE Len(found) > WarmLimit
  <2>1. /\ SubSeq(found, 1, WarmLimit) \in Seq(S)
        /\ Listed(SubSeq(found, 1, WarmLimit)) \subseteq Listed(found)
        /\ Len(SubSeq(found, 1, WarmLimit)) = WarmLimit - 1 + 1
    BY <1>1, <1>2, <1>4, ListedSubSeq
  <2> QED
    BY <1>1, <1>2, <1>3, <1>4, <2>1
<1>5. CASE ~(Len(found) > WarmLimit)
  BY <1>1, <1>2, <1>3, <1>5
<1> QED
  BY <1>4, <1>5

-----------------------------------------------------------------------------
(* The hot tokens of an agent *)

\* A sum of sizes is a number, zero for no record; it shrinks when a record
\* goes and depends on the sizes of its records only.
LEMMA SizeSums ==
  ASSUME NEW f \in [Id -> Nat], NEW S \in SUBSET Id
  PROVE  /\ Sum(f, S) \in Nat
         /\ S = {} => Sum(f, S) = 0
         /\ \A m : Sum(f, S \ {m}) \in Nat /\ Sum(f, S \ {m}) <= Sum(f, S)
         /\ \A g : (\A m \in S : g[m] = f[m]) => Sum(g, S) = Sum(f, S)
<1>1. \A s \in SUBSET Id : IsFiniteSet(s)
  <2>1. IsFiniteSet(Id)
    BY BoundAssumption, FS_Interval DEF Id
  <2> QED
    BY <2>1, FS_Subset
<1>2. \A s \in SUBSET Id : Sum(f, s) \in Nat
  <2> SUFFICES ASSUME NEW s \in SUBSET Id PROVE Sum(f, s) \in Nat
    OBVIOUS
  <2>1. IsFiniteSet(s) /\ \A x \in s : f[x] \in Nat
    BY <1>1
  <2> QED
    BY <2>1, SumType
<1>3. S = {} => Sum(f, S) = 0
  BY <1>1, SumSteps
<1>4. ASSUME NEW m PROVE Sum(f, S \ {m}) \in Nat /\ Sum(f, S \ {m}) <= Sum(f, S)
  <2>1. Sum(f, S \ {m}) \in Nat /\ Sum(f, S) \in Nat
    BY <1>2
  <2>2. CASE m \in S
    <3>1. f[m] \in Nat
      BY <2>2
    <3>2. Sum(f, S) = f[m] + Sum(f, S \ {m})
      BY <1>1, <2>2, SumRemove
    <3> QED
      BY <2>1, <3>1, <3>2
  <2>3. CASE m \notin S
    <3>1. S \ {m} = S
      BY <2>3
    <3> QED
      BY <2>1, <3>1
  <2> QED
    BY <2>2, <2>3
<1>5. ASSUME NEW g, \A m \in S : g[m] = f[m] PROVE Sum(g, S) = Sum(f, S)
  BY <1>1, <1>5, SumSame
<1> QED
  BY <1>2, <1>3, <1>4, <1>5

-----------------------------------------------------------------------------
(* The inductive invariant *)

\* A snapshot that _snapshots_for can read.
Snapshot == [name : Agent, hot : SUBSET Id, warm : Seq(Id)]

Types ==
  /\ up \in BOOLEAN /\ torn \in BOOLEAN
  /\ budget \in [Agent -> Nat]
  /\ hot \in [Agent -> SUBSET Id] /\ warm \in [Agent -> Seq(Id)]
  /\ evicting \in Agent \cup {Nobody}
  /\ snapshots \in Seq(Snapshot)
  /\ count \in 0 .. MaxId
  /\ writer \in [Id -> Agent \cup {Nobody}]
  /\ size \in [Id -> Sizes \cup {0}] /\ weight \in [Id -> Weights \cup {0}]
  /\ crashes \in 0 .. MaxCrashes
  /\ recorded \in [Agent -> SUBSET Id]

\* Only records that were made are mentioned anywhere.
Made ==
  /\ \A n \in Agent : hot[n] \subseteq 1 .. count /\ recorded[n] \subseteq 1 .. count
  /\ \A set \in {cold, rewriting, file, paged, forgotten, struck} : set \subseteq 1 .. count
  /\ \A i \in 1 .. Len(snapshots) : snapshots[i].hot \subseteq 1 .. count

\* Nothing is in memory while there is no manager.
Down ==
  ~up => /\ evicting = Nobody /\ rewriting = {} /\ cold = {}
         /\ \A n \in Agent : recorded[n] = {}

\* What an agent has recorded it has written itself.
Own == \A n \in Agent : \A m \in recorded[n] : writer[m] = n

\* An agent is over its budget only while its records are evicted, and one
\* without a state has nothing hot.
Within ==
  \A n \in Agent : /\ budget[n] = 0 => hot[n] = {}
                   /\ n # evicting => HotTokens(n) <= budget[n]

WarmIsBounded == \A n \in Agent : Len(warm[n]) <= WarmLimit

\* What has been paged is on disk or will be, but for what a crash has struck.
PagedIsKept == paged \ (forgotten \cup struck) \subseteq file \cup rewriting

\* What was forgotten is in no tier, nor in the file, unless a snapshot has it hot.
InSnapshot(m) == \E i \in 1 .. Len(snapshots) : m \in snapshots[i].hot
ForgottenIsGone ==
  \A m \in forgotten :
    (\E n \in Agent : m \in hot[n]) \/ m \in cold \cup file \cup rewriting => InSnapshot(m)

IInv ==
  /\ Types /\ Made /\ Down /\ Own /\ Within /\ WarmIsBounded /\ WarmIsCold
  /\ IndexIsOnDisk /\ RecordedIsRecallable /\ PagedIsKept /\ ForgottenIsGone

-----------------------------------------------------------------------------
(* Facts the steps share *)

\* The sizes of records are numbers, and hot tokens their sum.
LEMMA Tokens ==
  ASSUME IInv
  PROVE  /\ size \in [Id -> Nat]
         /\ \A n \in Agent : HotTokens(n) = Sum(size, hot[n]) /\ HotTokens(n) \in Nat
<1>1. size \in [Id -> Nat] /\ hot \in [Agent -> SUBSET Id]
  <2>1. Sizes \cup {0} \subseteq Nat
    BY LimitAssumption
  <2> QED
    BY <2>1 DEF IInv, Types
<1>2. ASSUME NEW n \in Agent
      PROVE  HotTokens(n) = Sum(size, hot[n]) /\ HotTokens(n) \in Nat
  <2>1. HotTokens(n) = Sum(size, hot[n])
    BY DEF HotTokens, Sum
  <2>2. hot[n] \in SUBSET Id
    BY <1>1
  <2> QED
    BY <1>1, <2>1, <2>2, SizeSums
<1> QED
  BY <1>1, <1>2

\* A snapshot has an agent, hot records and warm references.
LEMMA SnapshotType ==
  ASSUME IInv, NEW i \in 1 .. Len(snapshots)
  PROVE  /\ snapshots[i].hot \in SUBSET Id /\ snapshots[i].hot \subseteq 1 .. count
         /\ snapshots[i].warm \in Seq(Id)
<1>1. snapshots[i] \in Snapshot
  BY ElementOfSeq DEF IInv, Types
<1> QED
  BY <1>1 DEF Snapshot, IInv, Made

\* The initial state.
LEMMA InitHolds ==
  ASSUME Init
  PROVE  IInv
<1>1. Types
  <2>1. /\ up \in BOOLEAN /\ torn \in BOOLEAN
        /\ budget \in [Agent -> Nat] /\ hot \in [Agent -> SUBSET Id]
        /\ evicting \in Agent \cup {Nobody}
    BY DEF Init
  <2>2. snapshots \in Seq(Snapshot) /\ warm \in [Agent -> Seq(Id)]
    BY DEF Init
  <2>3. /\ writer \in [Id -> Agent \cup {Nobody}] /\ recorded \in [Agent -> SUBSET Id]
        /\ size \in [Id -> Sizes \cup {0}] /\ weight \in [Id -> Weights \cup {0}]
    BY DEF Init
  <2>4. count \in 0 .. MaxId /\ crashes \in 0 .. MaxCrashes
    BY BoundAssumption DEF Init
  <2> QED
    BY <2>1, <2>2, <2>3, <2>4 DEF Types
<1>2. Len(snapshots) = 0 /\ \A n \in Agent : warm[n] = <<>> /\ hot[n] = {}
  BY DEF Init
<1>3. \A n \in Agent : Len(warm[n]) = 0 /\ Listed(warm[n]) = {}
  BY <1>2 DEF Listed
<1>4. Made
  BY <1>2 DEF Init, Made
<1>5. Within
  <2> SUFFICES ASSUME NEW n \in Agent PROVE HotTokens(n) <= budget[n]
    BY <1>2 DEF Within
  <2>1. HotTokens(n) = Sum(size, {})
    BY <1>2 DEF HotTokens, Sum
  <2>2. Sum(size, {}) = 0
    BY FS_EmptySet, SumSteps
  <2> QED
    BY <2>1, <2>2 DEF Init
<1>6. WarmIsBounded /\ WarmIsCold
  BY <1>3, LimitAssumption DEF WarmIsBounded, WarmIsCold
<1>7. Down /\ Own /\ IndexIsOnDisk /\ RecordedIsRecallable /\ PagedIsKept /\ ForgottenIsGone
  BY DEF Init, Down, Own, IndexIsOnDisk, RecordedIsRecallable, PagedIsKept, ForgottenIsGone
<1> QED
  BY <1>1, <1>4, <1>5, <1>6, <1>7 DEF IInv

-----------------------------------------------------------------------------
(* The steps *)

\* An agent's state is made or dropped: it has nothing hot, warm or recorded.
LEMMA ResetKeeps ==
  ASSUME IInv, NEW n \in Agent, NEW t \in Nat, Reset(n, t)
  PROVE  IInv'
<1> USE DEF IInv
<1>1. Types'
  <2>1. <<>> \in Seq(Id)
    OBVIOUS
  <2> QED
    BY <2>1 DEF Types, Reset, recordVars
<1>2. hot'[n] = {} /\ warm'[n] = <<>> /\ recorded'[n] = {} /\ budget'[n] = t
  BY DEF Types, Reset
<1>3. \A k \in Agent \ {n} : /\ hot'[k] = hot[k] /\ warm'[k] = warm[k]
                             /\ recorded'[k] = recorded[k] /\ budget'[k] = budget[k]
  BY DEF Types, Reset
<1>4. Made'
  BY <1>2, <1>3 DEF Made, Reset, recordVars
<1>5. Down' /\ Own'
  BY <1>2, <1>3 DEF Down, Own, Reset, recordVars, Ready
<1>6. Within'
  <2> SUFFICES ASSUME NEW k \in Agent
               PROVE  (budget[k] = 0 => hot[k] = {})' /\ (HotTokens(k) <= budget[k])'
    BY DEF Within
  <2>1. CASE k = n
    <3>1. HotTokens(k)' = Sum(size', hot'[k])
      BY DEF HotTokens, Sum, FoldFunctionOnSet, MapThenFoldSet
    <3>2. Sum(size', {}) = 0
      BY FS_EmptySet, SumSteps
    <3> QED
      BY <1>2, <2>1, <3>1, <3>2
  <2>2. CASE k # n
    <3>1. HotTokens(k)' = HotTokens(k)
      BY <1>3, <2>2 DEF Reset, recordVars, HotTokens, FoldFunctionOnSet, MapThenFoldSet
    <3>2. k # evicting
      BY NobodyAssumption DEF Reset, Ready
    <3> QED
      BY <1>3, <2>2, <3>1, <3>2 DEF Within
  <2> QED
    BY <2>1, <2>2
<1>7. WarmIsBounded' /\ WarmIsCold'
  <2>1. Len(<<>>) = 0 /\ Listed(<<>>) = {}
    BY DEF Listed
  <2>2. ASSUME NEW k \in Agent
        PROVE  Len(warm'[k]) <= WarmLimit /\ Listed(warm'[k]) \subseteq cold'
    <3>1. CASE k = n
      BY <1>2, <2>1, <3>1, LimitAssumption
    <3>2. CASE k # n
      BY <1>3, <3>2 DEF WarmIsBounded, WarmIsCold, Reset
    <3> QED
      BY <3>1, <3>2
  <2> QED
    BY <2>2 DEF WarmIsBounded, WarmIsCold, Listed
<1>8. IndexIsOnDisk' /\ PagedIsKept'
  BY DEF IndexIsOnDisk, PagedIsKept, Reset
<1>9. RecordedIsRecallable'
  BY <1>2, <1>3 DEF RecordedIsRecallable, Recallable, Listed, Reset, recordVars
<1>10. ForgottenIsGone'
  BY <1>2, <1>3 DEF ForgottenIsGone, InSnapshot, Reset
<1> QED
  BY <1>1, <1>4, <1>5, <1>6, <1>7, <1>8, <1>9, <1>10

\* A new record is hot; its agent may be over its budget now, and is evicting.
LEMMA AppendKeeps ==
  ASSUME IInv, NEW n \in Agent, NEW z \in Sizes, NEW w \in Weights,
         AppendContextFrame(n, z, w)
  PROVE  IInv'
<1> DEFINE m == count + 1
<1> USE DEF IInv
<1>1. /\ m \in Id /\ m \notin 1 .. count /\ m \in Nat \ {0} /\ count' = m
      /\ 1 .. count \subseteq 1 .. count' /\ m \in 1 .. count' /\ evicting' = n /\ evicting = Nobody
      /\ UNCHANGED <<up, warm, cold, rewriting, file, torn, snapshots, crashes,
                    paged, forgotten, struck>>
  BY DEF AppendContextFrame, Types, Id, Ready
<1>2. Types'
  <2>1. budget' \in [Agent -> Nat]
    BY LimitAssumption DEF AppendContextFrame, BudgetOnUse, Types
  <2>2. /\ count' \in 0 .. MaxId /\ hot' \in [Agent -> SUBSET Id]
        /\ recorded' \in [Agent -> SUBSET Id]
    BY <1>1, BoundAssumption DEF AppendContextFrame, Types, Id
  <2>3. /\ writer' \in [Id -> Agent \cup {Nobody}]
        /\ size' \in [Id -> Sizes \cup {0}] /\ weight' \in [Id -> Weights \cup {0}]
    BY DEF AppendContextFrame, Types
  <2> QED
    BY <1>1, <2>1, <2>2, <2>3 DEF Types
<1>3. /\ hot'[n] = hot[n] \cup {m} /\ recorded'[n] = recorded[n] \cup {m}
      /\ \A k \in Agent \ {n} : hot'[k] = hot[k] /\ recorded'[k] = recorded[k]
                                /\ budget'[k] = budget[k]
      /\ budget'[n] # 0
  BY LimitAssumption DEF AppendContextFrame, BudgetOnUse, Types
<1>4. /\ \A k \in 1 .. count : k \in Id /\ writer'[k] = writer[k] /\ size'[k] = size[k]
      /\ writer'[m] = n
  BY <1>1, BoundAssumption DEF AppendContextFrame, Types, Id
<1> HIDE DEF m
<1>5. Made'
  <2>1. \A k \in Agent : hot'[k] \subseteq 1 .. count' /\ recorded'[k] \subseteq 1 .. count'
    BY <1>1, <1>3 DEF Made
  <2>2. \A i \in 1 .. Len(snapshots) : snapshots[i].hot \subseteq 1 .. count'
    BY <1>1 DEF Made
  <2>3. \A set \in {cold, rewriting, file, paged, forgotten, struck} : set \subseteq 1 .. count'
    BY <1>1 DEF Made
  <2> QED
    BY <1>1, <2>1, <2>2, <2>3 DEF Made
<1>6. Down'
  BY <1>1 DEF Down, AppendContextFrame, Ready
<1>7. Own'
  BY <1>3, <1>4 DEF Own, Made
<1>8. Within'
  <2> SUFFICES ASSUME NEW k \in Agent \ {n}
               PROVE  (budget[k] = 0 => hot[k] = {})' /\ (HotTokens(k) <= budget[k])'
    BY <1>1, <1>3 DEF Within
  <2>1. HotTokens(k)' = Sum(size', hot'[k]) /\ hot'[k] = hot[k]
    BY <1>3 DEF HotTokens, Sum, FoldFunctionOnSet, MapThenFoldSet
  <2>2. size \in [Id -> Nat] /\ HotTokens(k) = Sum(size, hot[k]) /\ hot[k] \in SUBSET Id
    BY Tokens DEF Types
  <2>3. \A j \in hot[k] : size'[j] = size[j]
    BY <1>4 DEF Made
  <2>4. Sum(size', hot[k]) = Sum(size, hot[k])
    BY <2>2, <2>3, SizeSums
  <2>5. k # evicting
    BY <1>1, NobodyAssumption
  <2> QED
    BY <1>3, <2>1, <2>2, <2>4, <2>5 DEF Within
<1>9. WarmIsBounded' /\ WarmIsCold' /\ IndexIsOnDisk' /\ PagedIsKept'
  BY <1>1 DEF WarmIsBounded, WarmIsCold, Listed, IndexIsOnDisk, PagedIsKept
<1>10. RecordedIsRecallable'
  <2> SUFFICES ASSUME NEW k \in Agent, NEW j \in recorded'[k] \ forgotten
               PROVE  j \in Recallable(k)'
    BY <1>1 DEF RecordedIsRecallable
  <2>1. CASE k = n /\ j = m
    BY <1>3, <2>1 DEF Recallable
  <2>2. CASE ~(k = n /\ j = m)
    <3>1. j \in recorded[k]
      BY <1>3, <2>2
    <3>2. j \in Recallable(k) /\ j \in 1 .. count
      BY <3>1 DEF RecordedIsRecallable, Made
    <3>3. writer'[j] = writer[j] /\ hot[k] \subseteq hot'[k]
      BY <1>3, <1>4, <3>2
    <3> QED
      BY <1>1, <3>2, <3>3 DEF Recallable, Listed
  <2> QED
    BY <2>1, <2>2
<1>11. ForgottenIsGone'
  <2>1. m \notin forgotten
    BY <1>1 DEF Made
  <2> QED
    BY <1>1, <1>3, <2>1 DEF ForgottenIsGone, InSnapshot
<1> QED
  BY <1>2, <1>5, <1>6, <1>7, <1>8, <1>9, <1>10, <1>11

\* The least important record goes from hot to warm and is persisted.
LEMMA EvictKeeps ==
  ASSUME IInv, NEW n \in Agent, Evict(n)
  PROVE  IInv'
<1> USE DEF IInv
<1>1. PICK m \in hot[n] :
        /\ hot' = [hot EXCEPT ![n] = @ \ {m}]
        /\ warm' = [warm EXCEPT ![n] = Bounded(Append(@, m))]
        /\ cold' = cold \cup {m} /\ file' = file \cup {m} /\ paged' = paged \cup {m}
  BY DEF Evict, Persist
<1>2. /\ up /\ evicting = n
      /\ UNCHANGED <<up, budget, evicting, rewriting, torn, snapshots, count, writer,
                     size, weight, crashes, recorded, forgotten, struck>>
  BY DEF Evict, recordVars
<1>3. /\ hot'[n] = hot[n] \ {m} /\ warm'[n] = Bounded(Append(warm[n], m))
      /\ \A k \in Agent \ {n} : hot'[k] = hot[k] /\ warm'[k] = warm[k]
      /\ \A k \in Agent : hot'[k] \subseteq hot[k] /\ m \in 1 .. count /\ m \in Id
  BY <1>1 DEF Types, Made
<1>4. /\ warm'[n] \in Seq(Id) /\ Len(warm'[n]) <= WarmLimit
      /\ Listed(warm'[n]) \subseteq Listed(warm[n]) \cup {m}
  <2>1. warm[n] \in Seq(Id)
    BY DEF Types
  <2>2. /\ Append(warm[n], m) \in Seq(Id)
        /\ Listed(Append(warm[n], m)) = Listed(warm[n]) \cup {m}
    BY <1>3, <2>1, ListedAppend
  <2> QED
    BY ZenonT(60), <1>3, <2>2, BoundedKeepsLimit
<1>5. Types'
  <2>1. hot' \in [Agent -> SUBSET Id]
    BY <1>1 DEF Types
  <2>2. warm' \in [Agent -> Seq(Id)]
    BY <1>1, <1>3, <1>4 DEF Types
  <2> QED
    BY <1>2, <2>1, <2>2 DEF Types
<1>6. Made'
  BY <1>1, <1>2, <1>3 DEF Made
<1>7. Down' /\ Own'
  BY <1>2 DEF Down, Own
<1>8. Within'
  <2> SUFFICES ASSUME NEW k \in Agent
               PROVE  /\ (budget[k] = 0 => hot[k] = {})'
                      /\ k # n => (HotTokens(k) <= budget[k])'
    BY <1>2 DEF Within
  <2>1. /\ HotTokens(k)' = Sum(size', hot'[k])
        /\ HotTokens(k) = Sum(size, hot[k])
    BY DEF HotTokens, Sum, FoldFunctionOnSet, MapThenFoldSet
  <2>2. k # n => HotTokens(k)' = HotTokens(k)
    BY <1>2, <1>3, <2>1
  <2> QED
    BY <1>2, <1>3, <2>2 DEF Within
<1>9. WarmIsBounded' /\ WarmIsCold'
  <2>1. ASSUME NEW k \in Agent
        PROVE  Len(warm'[k]) <= WarmLimit /\ Listed(warm'[k]) \subseteq cold'
    <3>1. CASE k = n
      BY <1>1, <1>4, <3>1 DEF WarmIsCold
    <3>2. CASE k # n
      BY <1>1, <1>3, <3>2 DEF WarmIsBounded, WarmIsCold
    <3> QED
      BY <3>1, <3>2
  <2> QED
    BY <2>1 DEF WarmIsBounded, WarmIsCold, Listed
<1>10. IndexIsOnDisk' /\ PagedIsKept'
  BY <1>1, <1>2 DEF IndexIsOnDisk, PagedIsKept
<1>11. RecordedIsRecallable'
  <2> SUFFICES ASSUME NEW k \in Agent, NEW j \in recorded[k] \ forgotten
               PROVE  j \in hot'[k] \cup {x \in cold' : writer[x] = k}
    BY <1>2 DEF RecordedIsRecallable, Recallable
  <2>1. j \in hot[k] \cup Listed(warm[k]) \cup cold /\ writer[j] = k
    BY DEF RecordedIsRecallable, Recallable, Own
  <2>2. j \in hot[k] \cup cold
    BY <2>1 DEF WarmIsCold
  <2> QED
    BY <1>1, <1>3, <2>1, <2>2
<1>12. ForgottenIsGone'
  BY <1>1, <1>2, <1>3 DEF ForgottenIsGone, InSnapshot
<1> QED
  BY <1>5, <1>6, <1>7, <1>8, <1>9, <1>10, <1>11, <1>12

\* The loop ends when the agent is within its budget.
LEMMA EvictionEndsKeeps ==
  ASSUME IInv, NEW n \in Agent, EvictionEnds(n)
  PROVE  IInv'
<1> USE DEF IInv
<1>1. /\ up /\ evicting = n /\ ~OverBudget(n) /\ evicting' = Nobody
      /\ UNCHANGED <<up, budget, hot, warm, cold, rewriting, file, torn, snapshots, count,
                     writer, size, weight, crashes, recorded, paged, forgotten, struck>>
  BY DEF EvictionEnds, agentVars, recordVars, historyVars
<1>2. Within'
  <2> SUFFICES ASSUME NEW k \in Agent
               PROVE  (budget[k] = 0 => hot[k] = {})' /\ (HotTokens(k) <= budget[k])'
    BY DEF Within
  <2>1. HotTokens(k)' = HotTokens(k)
    BY <1>1 DEF HotTokens, FoldFunctionOnSet, MapThenFoldSet
  <2>2. HotTokens(n) <= budget[n]
    <3>1. HotTokens(n) \in Nat /\ budget[n] \in Nat
      BY Tokens DEF Types
    <3> QED
      BY <1>1, <3>1 DEF OverBudget
  <2> QED
    BY <1>1, <2>1, <2>2 DEF Within
<1>3. Types' /\ Made' /\ Down' /\ Own'
  BY <1>1 DEF Types, Made, Down, Own
<1>4. /\ WarmIsBounded' /\ WarmIsCold' /\ IndexIsOnDisk' /\ RecordedIsRecallable'
      /\ PagedIsKept' /\ ForgottenIsGone'
  BY <1>1 DEF WarmIsBounded, WarmIsCold, Listed, IndexIsOnDisk, RecordedIsRecallable,
              Recallable, PagedIsKept, ForgottenIsGone, InSnapshot
<1> QED
  BY <1>2, <1>3, <1>4

\* A record leaves every tier; a cold one has the file truncated.
LEMMA ForgetKeeps ==
  ASSUME IInv, NEW m \in 1 .. count, Forget(m)
  PROVE  IInv'
<1> USE DEF IInv
<1>1. /\ up /\ evicting = Nobody /\ rewriting = {} /\ cold = file
      /\ hot' = [k \in Agent |-> hot[k] \ {m}]
      /\ warm' = [k \in Agent |-> WarmWithout(warm[k], m)]
      /\ cold' = cold \ {m} /\ forgotten' = forgotten \cup {m}
      /\ UNCHANGED <<up, budget, evicting, torn, snapshots, count, writer, size, weight,
                     crashes, recorded, paged, struck>>
  BY DEF Forget, Ready, recordVars, IndexIsOnDisk
<1>2. /\ cold' = file' \cup rewriting' /\ rewriting' \subseteq cold /\ file' \subseteq file
  BY <1>1 DEF Forget, BeginRewrite
<1>3. \A k \in Agent : hot'[k] = hot[k] \ {m}
  BY <1>1
<1>4. ASSUME NEW k \in Agent
      PROVE  /\ warm'[k] \in Seq(Id) /\ Len(warm'[k]) <= WarmLimit
             /\ Listed(warm'[k]) = Listed(warm[k]) \ {m}
  <2>1. warm[k] \in Seq(Id) /\ Len(warm[k]) <= WarmLimit /\ Len(warm[k]) \in Nat
    BY LenProperties DEF Types, WarmIsBounded
  <2>2. warm'[k] = Kept(warm[k], Id \ {m})
    BY <1>1 DEF WarmWithout
  <2>3. /\ Kept(warm[k], Id \ {m}) \in Seq(Id)
        /\ Len(Kept(warm[k], Id \ {m})) <= Len(warm[k])
        /\ Listed(Kept(warm[k], Id \ {m})) = Listed(warm[k]) \cap (Id \ {m})
    BY <2>1, KeptIsPart
  <2>4. Len(Kept(warm[k], Id \ {m})) \in Nat /\ WarmLimit \in Nat
    BY <2>3, LenProperties, LimitAssumption
  <2>5. Len(Kept(warm[k], Id \ {m})) <= WarmLimit
    BY <2>1, <2>3, <2>4
  <2>6. Listed(warm[k]) \cap (Id \ {m}) = Listed(warm[k]) \ {m}
    BY <2>1, ListedType
  <2> QED
    BY <2>2, <2>3, <2>5, <2>6
<1>5. Types'
  <2>1. hot' \in [Agent -> SUBSET Id]
    BY <1>1 DEF Types
  <2>2. warm' \in [Agent -> Seq(Id)]
    BY <1>1, <1>4
  <2> QED
    BY <1>1, <2>1, <2>2 DEF Types
<1>6. Made'
  BY <1>1, <1>2, <1>3 DEF Made
<1>7. Down' /\ Own'
  BY <1>1 DEF Down, Own
<1>8. Within'
  <2> SUFFICES ASSUME NEW k \in Agent
               PROVE  (budget[k] = 0 => hot[k] = {})' /\ (HotTokens(k) <= budget[k])'
    BY DEF Within
  <2>1. HotTokens(k)' = Sum(size', hot'[k])
    BY DEF HotTokens, Sum, FoldFunctionOnSet, MapThenFoldSet
  <2>2. /\ size \in [Id -> Nat] /\ HotTokens(k) = Sum(size, hot[k])
        /\ hot[k] \in SUBSET Id /\ HotTokens(k) \in Nat /\ budget[k] \in Nat
    BY Tokens DEF Types
  <2>3. Sum(size, hot[k] \ {m}) <= Sum(size, hot[k]) /\ Sum(size, hot[k] \ {m}) \in Nat
    BY <2>2, SizeSums
  <2>4. HotTokens(k) <= budget[k] /\ (budget[k] = 0 => hot[k] = {})
    BY <1>1, NobodyAssumption DEF Within
  <2>5. HotTokens(k)' = Sum(size, hot[k] \ {m})
    BY <1>1, <1>3, <2>1
  <2>6. HotTokens(k)' <= budget[k]
    BY <2>2, <2>3, <2>4, <2>5
  <2> QED
    BY <1>1, <1>3, <2>4, <2>6
<1>9. WarmIsBounded' /\ WarmIsCold'
  BY <1>1, <1>4 DEF WarmIsBounded, WarmIsCold, Listed
<1>10. IndexIsOnDisk'
  BY <1>2 DEF IndexIsOnDisk
<1>11. PagedIsKept'
  BY <1>1, <1>2 DEF PagedIsKept
<1>12. RecordedIsRecallable'
  <2> SUFFICES ASSUME NEW k \in Agent, NEW j \in recorded[k] \ forgotten'
               PROVE  j \in hot'[k] \cup {x \in cold' : writer[x] = k}
    BY <1>1 DEF RecordedIsRecallable, Recallable
  <2>1. j \in hot[k] \cup Listed(warm[k]) \cup cold /\ writer[j] = k /\ j # m
    BY <1>1 DEF RecordedIsRecallable, Recallable, Own
  <2> QED
    BY <1>1, <1>3, <2>1 DEF WarmIsCold
<1>13. ForgottenIsGone'
  BY <1>1, <1>2, <1>3 DEF ForgottenIsGone, InSnapshot
<1> QED
  BY <1>5, <1>6, <1>7, <1>8, <1>9, <1>10, <1>11, <1>12, <1>13

\* A line of the new file is written.
LEMMA RewriteKeeps ==
  ASSUME IInv, Rewrite
  PROVE  IInv'
<1> USE DEF IInv
<1>1. /\ up /\ rewriting' \subseteq rewriting
      /\ file' \cup rewriting' = file \cup rewriting
      /\ UNCHANGED <<up, budget, hot, warm, cold, evicting, torn, snapshots, count,
                     writer, size, weight, crashes, recorded, paged, forgotten, struck>>
  BY DEF Rewrite, agentVars, recordVars, historyVars
<1>2. Types' /\ Down' /\ Own'
  BY <1>1 DEF Types, Down, Own
<1>3. Made'
  <2>1. file' \subseteq 1 .. count /\ rewriting' \subseteq 1 .. count
    BY <1>1 DEF Made
  <2> QED
    BY <1>1, <2>1 DEF Made
<1>4. Within'
  <2>1. \A k \in Agent : HotTokens(k)' = HotTokens(k)
    BY <1>1 DEF HotTokens, FoldFunctionOnSet, MapThenFoldSet
  <2> QED
    BY <1>1, <2>1 DEF Within
<1>5. /\ WarmIsBounded' /\ WarmIsCold' /\ IndexIsOnDisk' /\ RecordedIsRecallable'
      /\ PagedIsKept'
  BY <1>1 DEF WarmIsBounded, WarmIsCold, Listed, IndexIsOnDisk, RecordedIsRecallable,
              Recallable, PagedIsKept
<1>6. ForgottenIsGone'
  BY <1>1 DEF ForgottenIsGone, InSnapshot
<1> QED
  BY <1>2, <1>3, <1>4, <1>5, <1>6

\* A snapshot names what is hot now.
LEMMA SnapshotKeeps ==
  ASSUME IInv, NEW n \in Agent, SnapshotProcess(n)
  PROVE  IInv'
<1> USE DEF IInv
<1> DEFINE s == [name |-> n, hot |-> hot[n], warm |-> warm[n]]
<1>1. /\ Ready /\ BudgetOnUse(n) /\ snapshots' = Append(snapshots, s)
      /\ UNCHANGED <<up, hot, warm, cold, evicting, rewriting, file, torn, count, writer,
                     size, weight, crashes, recorded, paged, forgotten, struck>>
  BY DEF SnapshotProcess, recordVars, historyVars
<1>2. snapshots \in Seq(Snapshot) /\ s \in Snapshot /\ s.hot = hot[n]
  BY DEF Types, Snapshot
<1> HIDE DEF s
<1>3. /\ snapshots' \in Seq(Snapshot) /\ Len(snapshots') = Len(snapshots) + 1
      /\ Len(snapshots) \in Nat
      /\ \A i \in 1 .. Len(snapshots) : snapshots'[i] = snapshots[i]
      /\ snapshots'[Len(snapshots) + 1] = s
  BY <1>1, <1>2, AppendProperties, LenProperties
<1>4. /\ budget' \in [Agent -> Nat]
      /\ \A k \in Agent : budget'[k] = budget[k] \/ (budget[k] = 0 /\ budget'[k] # 0)
  BY <1>1, LimitAssumption DEF BudgetOnUse, Types
<1>5. Types'
  BY <1>1, <1>3, <1>4 DEF Types
<1>6. Made'
  <2>1. \A i \in 1 .. Len(snapshots') : snapshots'[i].hot \subseteq 1 .. count
    <3> SUFFICES ASSUME NEW i \in 1 .. Len(snapshots')
                 PROVE  snapshots'[i].hot \subseteq 1 .. count
      OBVIOUS
    <3>1. i \in 1 .. Len(snapshots) \/ i = Len(snapshots) + 1
      BY <1>3
    <3> QED
      BY <1>2, <1>3, <3>1 DEF Made
  <2> QED
    BY <1>1, <2>1 DEF Made
<1>7. Within'
  <2> SUFFICES ASSUME NEW k \in Agent
               PROVE  (budget[k] = 0 => hot[k] = {})' /\ (HotTokens(k) <= budget[k])'
    BY DEF Within
  <2>1. HotTokens(k)' = HotTokens(k)
    BY <1>1 DEF HotTokens, FoldFunctionOnSet, MapThenFoldSet
  <2>2. HotTokens(k) <= budget[k] /\ (budget[k] = 0 => hot[k] = {})
    BY <1>1, NobodyAssumption DEF Within, Ready
  <2>3. HotTokens(k) \in Nat /\ budget[k] \in Nat /\ budget'[k] \in Nat
    BY <1>4, Tokens DEF Types
  <2>4. HotTokens(k) <= budget'[k]
    BY <1>4, <2>2, <2>3
  <2> QED
    BY <1>1, <1>4, <2>1, <2>2, <2>4
<1>8. /\ Down' /\ Own' /\ WarmIsBounded' /\ WarmIsCold' /\ IndexIsOnDisk'
      /\ RecordedIsRecallable' /\ PagedIsKept'
  BY <1>1 DEF Down, Own, WarmIsBounded, WarmIsCold, Listed, IndexIsOnDisk,
              RecordedIsRecallable, Recallable, PagedIsKept
<1>9. ForgottenIsGone'
  <2>1. ASSUME NEW m, InSnapshot(m) PROVE InSnapshot(m)'
    <3>1. PICK i \in 1 .. Len(snapshots) : m \in snapshots[i].hot
      BY <2>1 DEF InSnapshot
    <3>2. i \in 1 .. Len(snapshots') /\ m \in snapshots'[i].hot
      BY <1>3, <3>1
    <3> QED
      BY <3>2 DEF InSnapshot
  <2> QED
    BY <1>1, <2>1 DEF ForgottenIsGone
<1> QED
  BY <1>5, <1>6, <1>7, <1>8, <1>9

\* A snapshot replaces what is hot, and what of its warm references is still
\* cold replaces what is warm.
LEMMA RestoreKeeps ==
  ASSUME IInv, NEW n \in Agent, NEW i \in 1 .. Len(snapshots), NEW hotOnly \in BOOLEAN,
         Restore(n, i, hotOnly)
  PROVE  IInv'
<1> USE DEF IInv
<1> DEFINE w == IF hotOnly THEN warm[n] ELSE WarmRestored(snapshots[i].warm)
<1>1. /\ Ready /\ BudgetOnUse(n) /\ evicting' = n
      /\ hot' = [hot EXCEPT ![n] = snapshots[i].hot]
      /\ warm' = [warm EXCEPT ![n] = w]
      /\ recorded' = [recorded EXCEPT ![n] = {}]
      /\ UNCHANGED <<up, cold, rewriting, file, torn, snapshots, count, writer, size,
                     weight, crashes, paged, forgotten, struck>>
  BY DEF Restore, recordVars
<1>2. snapshots[i].hot \in SUBSET Id /\ snapshots[i].hot \subseteq 1 .. count
  BY SnapshotType
<1>3. w \in Seq(Id) /\ Len(w) <= WarmLimit /\ Listed(w) \subseteq cold
  <2>1. CASE hotOnly
    BY <2>1 DEF Types, WarmIsBounded, WarmIsCold
  <2>2. CASE ~hotOnly
    BY <2>2, SnapshotType, WarmRestoredIsCold
  <2> QED
    BY <2>1, <2>2
<1> HIDE DEF w
<1>4. /\ hot'[n] = snapshots[i].hot /\ warm'[n] = w /\ recorded'[n] = {}
      /\ \A k \in Agent \ {n} : /\ hot'[k] = hot[k] /\ warm'[k] = warm[k]
                                /\ recorded'[k] = recorded[k]
  BY <1>1 DEF Types
<1>5. /\ budget' \in [Agent -> Nat] /\ budget'[n] # 0
      /\ \A k \in Agent \ {n} : budget'[k] = budget[k]
  BY <1>1, LimitAssumption DEF BudgetOnUse, Types
<1>6. Types'
  <2>1. hot' \in [Agent -> SUBSET Id] /\ recorded' \in [Agent -> SUBSET Id]
    BY <1>1, <1>2 DEF Types
  <2>2. warm' \in [Agent -> Seq(Id)]
    BY <1>1, <1>3 DEF Types
  <2> QED
    BY <1>1, <1>5, <2>1, <2>2 DEF Types
<1>7. Made'
  BY <1>1, <1>2, <1>4 DEF Made
<1>8. Down' /\ Own'
  BY <1>1, <1>4 DEF Down, Own, Ready
<1>9. Within'
  <2> SUFFICES ASSUME NEW k \in Agent \ {n}
               PROVE  (budget[k] = 0 => hot[k] = {})' /\ (HotTokens(k) <= budget[k])'
    BY <1>1, <1>5 DEF Within
  <2>1. /\ HotTokens(k)' = Sum(size', hot'[k])
        /\ HotTokens(k) = Sum(size, hot[k])
    BY DEF HotTokens, Sum, FoldFunctionOnSet, MapThenFoldSet
  <2>2. HotTokens(k)' = HotTokens(k)
    BY <1>1, <1>4, <2>1
  <2> QED
    BY <1>1, <1>4, <1>5, <2>2, NobodyAssumption DEF Within, Ready
<1>10. WarmIsBounded' /\ WarmIsCold'
  <2>1. ASSUME NEW k \in Agent
        PROVE  Len(warm'[k]) <= WarmLimit /\ Listed(warm'[k]) \subseteq cold'
    <3>1. CASE k = n
      BY <1>1, <1>3, <1>4, <3>1
    <3>2. CASE k # n
      BY <1>1, <1>4, <3>2 DEF WarmIsBounded, WarmIsCold
    <3> QED
      BY <3>1, <3>2
  <2> QED
    BY <2>1 DEF WarmIsBounded, WarmIsCold, Listed
<1>11. IndexIsOnDisk' /\ PagedIsKept'
  BY <1>1 DEF IndexIsOnDisk, PagedIsKept
<1>12. RecordedIsRecallable'
  BY <1>1, <1>4 DEF RecordedIsRecallable, Recallable, Listed
<1>13. ForgottenIsGone'
  BY <1>1, <1>4 DEF ForgottenIsGone, InSnapshot
<1> QED
  BY <1>6, <1>7, <1>8, <1>9, <1>10, <1>11, <1>12, <1>13

\* A crash empties the memory; what was being rewritten is struck.
LEMMA CrashKeeps ==
  ASSUME IInv, Crash
  PROVE  IInv'
<1> USE DEF IInv
<1>1. /\ crashes < MaxCrashes /\ crashes' = crashes + 1 /\ up' = FALSE
      /\ budget' = [n \in Agent |-> 0] /\ hot' = [n \in Agent |-> {}]
      /\ warm' = [n \in Agent |-> <<>>] /\ recorded' = [n \in Agent |-> {}]
      /\ cold' = {} /\ evicting' = Nobody /\ rewriting' = {}
      /\ struck' = struck \cup rewriting
      /\ UNCHANGED <<file, snapshots, count, writer, size, weight, paged, forgotten>>
  BY DEF Crash, recordVars
<1>2. \A k \in Agent : hot'[k] = {} /\ warm'[k] = <<>> /\ recorded'[k] = {} /\ budget'[k] = 0
  BY <1>1
<1>3. Types'
  <2>1. torn' \in BOOLEAN
    BY DEF Crash, Types
  <2>2. crashes' \in 0 .. MaxCrashes
    BY <1>1, BoundAssumption DEF Types
  <2>3. warm' \in [Agent -> Seq(Id)]
    BY <1>1
  <2> QED
    BY <1>1, <2>1, <2>2, <2>3 DEF Types
<1>4. Made'
  BY <1>1, <1>2 DEF Made
<1>5. Down' /\ Own'
  BY <1>1, <1>2 DEF Down, Own
<1>6. Within'
  <2> SUFFICES ASSUME NEW k \in Agent PROVE (HotTokens(k) <= budget[k])'
    BY <1>2 DEF Within
  <2>1. HotTokens(k)' = Sum(size', hot'[k])
    BY DEF HotTokens, Sum, FoldFunctionOnSet, MapThenFoldSet
  <2>2. Sum(size', {}) = 0 /\ hot'[k] = {}
    BY <1>2, FS_EmptySet, SumSteps
  <2>3. HotTokens(k)' = 0
    BY <2>1, <2>2
  <2> QED
    BY <1>2, <2>3
<1>7. WarmIsBounded' /\ WarmIsCold'
  <2>1. Len(<<>>) = 0 /\ Listed(<<>>) = {}
    BY DEF Listed
  <2>2. \A k \in Agent : Len(warm'[k]) <= WarmLimit /\ Listed(warm'[k]) \subseteq cold'
    BY <1>2, <2>1, LimitAssumption
  <2> QED
    BY <2>2 DEF WarmIsBounded, WarmIsCold, Listed
<1>8. IndexIsOnDisk' /\ RecordedIsRecallable' /\ PagedIsKept'
  BY <1>1, <1>2 DEF IndexIsOnDisk, RecordedIsRecallable, PagedIsKept
<1>9. ForgottenIsGone'
  BY <1>1, <1>2 DEF ForgottenIsGone, InSnapshot
<1> QED
  BY <1>3, <1>4, <1>5, <1>6, <1>7, <1>8, <1>9

\* The cold index is read from the file.
LEMMA StartKeeps ==
  ASSUME IInv, Start
  PROVE  IInv'
<1> USE DEF IInv
<1>1. /\ ~up /\ up' = TRUE /\ cold' = file /\ evicting = Nobody /\ rewriting = {} /\ cold = {}
      /\ \A k \in Agent : recorded[k] = {}
      /\ UNCHANGED <<budget, hot, warm, evicting, rewriting, file, torn, snapshots, count,
                     writer, size, weight, crashes, recorded, paged, forgotten, struck>>
  BY DEF Start, agentVars, recordVars, historyVars, Down
<1>2. Types' /\ Made' /\ Down' /\ Own'
  BY <1>1 DEF Types, Made, Down, Own
<1>3. Within'
  <2>1. \A k \in Agent : HotTokens(k)' = HotTokens(k)
    BY <1>1 DEF HotTokens, FoldFunctionOnSet, MapThenFoldSet
  <2> QED
    BY <1>1, <2>1 DEF Within
<1>4. WarmIsBounded' /\ WarmIsCold'
  BY <1>1 DEF WarmIsBounded, WarmIsCold, Listed
<1>5. IndexIsOnDisk' /\ RecordedIsRecallable' /\ PagedIsKept' /\ ForgottenIsGone'
  BY <1>1 DEF IndexIsOnDisk, RecordedIsRecallable, PagedIsKept, ForgottenIsGone, InSnapshot
<1> QED
  BY <1>2, <1>3, <1>4, <1>5

\* A step that changes nothing.
LEMMA StutterKeeps ==
  ASSUME IInv, UNCHANGED vars
  PROVE  IInv'
<1> USE DEF IInv, vars, agentVars, recordVars, historyVars
<1>1. Within'
  <2>1. \A k \in Agent : HotTokens(k)' = HotTokens(k)
    BY DEF HotTokens, FoldFunctionOnSet, MapThenFoldSet
  <2> QED
    BY <2>1 DEF Within
<1>2. Types' /\ Made' /\ Down' /\ Own' /\ WarmIsBounded' /\ WarmIsCold'
  BY DEF Types, Made, Down, Own, WarmIsBounded, WarmIsCold, Listed
<1>3. IndexIsOnDisk' /\ RecordedIsRecallable' /\ PagedIsKept' /\ ForgottenIsGone'
  BY DEF IndexIsOnDisk, RecordedIsRecallable, Recallable, Listed, PagedIsKept,
         ForgottenIsGone, InSnapshot
<1> QED
  BY <1>1, <1>2, <1>3

\* Every step.
LEMMA NextKeeps ==
  ASSUME IInv, [Next]_vars
  PROVE  IInv'
<1>1. ASSUME NEW n \in Agent, RegisterAgent(n) PROVE IInv'
  <2>1. TokenBudget[n] \in Nat
    BY LimitAssumption
  <2> QED
    BY <1>1, <2>1, ResetKeeps DEF RegisterAgent
<1>2. ASSUME NEW n \in Agent, UnregisterAgent(n) PROVE IInv'
  BY <1>2, ResetKeeps DEF UnregisterAgent
<1>3. ASSUME NEW n \in Agent, NEW z \in Sizes, NEW w \in Weights, AppendContextFrame(n, z, w)
      PROVE  IInv'
  BY <1>3, AppendKeeps
<1>4. ASSUME NEW n \in Agent, Evict(n) \/ EvictionEnds(n) \/ SnapshotProcess(n) PROVE IInv'
  BY <1>4, EvictKeeps, EvictionEndsKeeps, SnapshotKeeps
<1>5. ASSUME NEW n \in Agent, NEW i \in 1 .. Len(snapshots), NEW hotOnly \in BOOLEAN,
             Restore(n, i, hotOnly)
      PROVE  IInv'
  BY <1>5, RestoreKeeps
<1>6. ASSUME NEW m \in 1 .. count, Forget(m) PROVE IInv'
  BY <1>6, ForgetKeeps
<1> QED
  BY <1>1, <1>2, <1>3, <1>4, <1>5, <1>6, RewriteKeeps, CrashKeeps, StartKeeps, StutterKeeps
     DEF Next

-----------------------------------------------------------------------------
(* The theorems *)

\* The invariant holds in every reachable state.
LEMMA Inductive == Spec => []IInv
<1>1. Init => IInv
  BY InitHolds
<1>2. IInv /\ [Next]_vars => IInv'
  BY NextKeeps
<1> QED
  BY <1>1, <1>2, PTL DEF Spec

\* The tiers of the store agree: outside _evict_if_needed every agent is within
\* its budget, warm lists keep to warm_limit, what they name is in the cold
\* index, and the index is what memories.jsonl holds or is being given.
THEOREM TiersTheorem == Spec => []TiersAgree
<1>1. IInv => TiersAgree
  <2> SUFFICES ASSUME IInv PROVE TiersAgree
    OBVIOUS
  <2> USE DEF IInv
  <2>1. TypeOK
    <3>1. \A n \in Agent : Len(warm[n]) <= WarmLimit /\ Listed(warm[n]) \subseteq 1 .. count
      BY DEF WarmIsBounded, WarmIsCold, Made
    <3>2. hot \in [Agent -> SUBSET (1 .. count)] /\ recorded \in [Agent -> SUBSET (1 .. count)]
      BY DEF Types, Made
    <3> QED
      BY <3>1, <3>2 DEF TypeOK, Types, Made
  <2>2. HotWithinBudget
    BY NobodyAssumption DEF HotWithinBudget, Within, Ready
  <2> QED
    BY <2>1, <2>2 DEF TiersAgree
<1> QED
  BY <1>1, Inductive, PTL

\* Paging loses nothing: what an agent has recorded in its present state it can
\* recall, whatever was evicted, dropped from a warm list or rewritten since.
THEOREM RecallTheorem == Spec => []RecordedIsRecallable
<1>1. IInv => RecordedIsRecallable
  BY DEF IInv
<1> QED
  BY <1>1, Inductive, PTL

\* A cold record survives every crash and restart, but for one that strikes
\* while forget is writing the file anew.
THEOREM ColdTheorem == Spec => []ColdSurvivesCrashes
<1>1. IInv => ColdSurvivesCrashes
  BY DEF IInv, ColdSurvivesCrashes, PagedIsKept, IndexIsOnDisk
<1> QED
  BY <1>1, Inductive, PTL

\* A forgotten record comes back only by a snapshot that was taken of it while
\* it was hot, across any evictions, rewritings, crashes and restorations.
THEOREM ForgottenTheorem == Spec => []ForgottenReturnsBySnapshot
<1>1. IInv => ForgottenReturnsBySnapshot
  <2> SUFFICES ASSUME IInv, NEW n \in Agent, NEW m \in forgotten \cap Recallable(n)
               PROVE  InSnapshot(m)
    BY DEF ForgottenReturnsBySnapshot, InSnapshot
  <2>1. m \in hot[n] \cup cold
    BY DEF IInv, Recallable, WarmIsCold
  <2> QED
    BY <2>1 DEF IInv, ForgottenIsGone
<1> QED
  BY <1>1, Inductive, PTL

=============================================================================
