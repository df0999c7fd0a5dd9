---------------------------- MODULE RegionProofs ----------------------------
(***************************************************************************)
(* The freelist in the file.  mergepgids gives the free and the pending    *)
(* ids in order, each once; what write puts into a region of the file read *)
(* gives back, whatever the other region and the page behind it hold; and  *)
(* maps and regions together implement a set of ids.                       *)
(***************************************************************************)
EXTENDS FreelistPage, FreelistProofs

-----------------------------------------------------------------------------
(* Lists of ids in order *)

\* A function on 1 .. n is a list of n elements.
LEMMA ListOf ==
  ASSUME NEW S, NEW n \in Nat, NEW s \in [1 .. n -> S]
  PROVE  s \in Seq(S) /\ Len(s) = n
OBVIOUS

\* Lists with the same elements are the same.
LEMMA SameList ==
  ASSUME NEW S, NEW s \in Seq(S), NEW t \in Seq(S), Len(s) = Len(t),
         \A i \in 1 .. Len(s) : s[i] = t[i]
  PROVE  s = t
OBVIOUS

\* A list in order, without an id twice.
Increasing(s) == \A i, j \in 1 .. Len(s) : i < j => s[i] < s[j]

\* Every id of S is below every one of T.
Before(S, T) == \A x \in S, y \in T : x < y

\* A set of ids can be listed in order.
LEMMA SortedExists ==
  ASSUME NEW n \in Nat, NEW S \in SUBSET (1 .. n)
  PROVE  /\ IsFiniteSet(S) /\ Cardinality(S) \in Nat
         /\ \E s \in [1 .. Cardinality(S) -> S] :
              /\ Range(s) = S
              /\ \A i, j \in 1 .. Cardinality(S) : i < j => s[i] < s[j]
<1> DEFINE Listed(T) == \E s \in [1 .. Cardinality(T) -> T] :
                          /\ Range(s) = T
                          /\ \A i, j \in 1 .. Cardinality(T) : i < j => s[i] < s[j]
           G == {m \in Nat : \A T \in SUBSET (1 .. m) : Listed(T)}
<1>1. \A m \in Nat : \A T \in SUBSET (1 .. m) : IsFiniteSet(T) /\ Cardinality(T) \in Nat
  <2> SUFFICES ASSUME NEW m \in Nat, NEW T \in SUBSET (1 .. m)
               PROVE  IsFiniteSet(T) /\ Cardinality(T) \in Nat
    BY Zenon
  <2>1. IsFiniteSet(1 .. m)
    BY FS_Interval
  <2>2. IsFiniteSet(T)
    BY <2>1, FS_Subset, Zenon
  <2> QED
    BY <2>2, FS_CardinalityType
<1>2. 0 \in G
  <2>1. \A T \in SUBSET (1 .. 0) : T = {}
    OBVIOUS
  <2>2. Listed({})
    <3>1. Cardinality({}) = 0
      BY FS_EmptySet
    <3>2. <<>> \in [1 .. 0 -> {}] /\ Range(<<>>) = {}
      BY DEF Range
    <3> QED
      BY <3>1, <3>2, Zenon
  <2> QED
    BY <2>1, <2>2, Zenon
<1>3. ASSUME NEW m \in G PROVE m + 1 \in G
  <2> SUFFICES ASSUME NEW T \in SUBSET (1 .. (m + 1)) PROVE Listed(T)
    OBVIOUS
  <2>1. CASE m + 1 \notin T
    <3>1. T \in SUBSET (1 .. m)
      BY <2>1
    <3> QED
      BY <3>1
  <2>2. CASE m + 1 \in T
    <3> DEFINE U == T \ {m + 1}
               k == Cardinality(U)
    <3>1. U \in SUBSET (1 .. m)
      OBVIOUS
    <3>2. PICK u \in [1 .. k -> U] : /\ Range(u) = U
                                     /\ \A i, j \in 1 .. k : i < j => u[i] < u[j]
      BY <3>1, Zenon
    <3>3. k \in Nat /\ Cardinality(T) = k + 1
      <4>1. IsFiniteSet(T) /\ Cardinality(T) \in Nat /\ IsFiniteSet(U) /\ k \in Nat
        <5>1. m \in Nat /\ m + 1 \in Nat
          OBVIOUS
        <5> QED
          BY <5>1, <1>1, <3>1, Zenon
      <4>2. k = Cardinality(T) - 1
        BY <4>1, <2>2, FS_RemoveElement
      <4> QED
        BY <4>1, <4>2
    <3> DEFINE s == [i \in 1 .. (k + 1) |-> IF i = k + 1 THEN m + 1 ELSE u[i]]
    <3> HIDE DEF k
    <3>4. \A i \in 1 .. k : u[i] \in U /\ s[i] = u[i]
      BY <3>2, <3>3
    <3>5. s[k + 1] = m + 1
      BY <3>3
    <3>a. \A i \in 1 .. (k + 1) : i \in 1 .. k \/ i = k + 1
      BY <3>3
    <3>b. \A i \in 1 .. (k + 1) : s[i] \in T
      BY <3>4, <3>5, <3>a, <2>2
    <3>6. s \in [1 .. (k + 1) -> T]
      BY <3>b
    <3>c. \A i \in 1 .. k : u[i] \in Int /\ u[i] < m + 1
      <4>1. \A x \in U : x \in Int /\ x < m + 1
        OBVIOUS
      <4> QED
        BY <4>1, <3>4, Zenon
    <3> HIDE DEF s, U
    <3>7. \A i, j \in 1 .. (k + 1) : i < j => s[i] < s[j]
      <4> SUFFICES ASSUME NEW i \in 1 .. (k + 1), NEW j \in 1 .. (k + 1), i < j
                   PROVE  s[i] < s[j]
        OBVIOUS
      <4>1. i \in 1 .. k
        BY <3>3
      <4>2. CASE j \in 1 .. k
        BY <4>1, <4>2, <3>2, <3>4
      <4>3. CASE j = k + 1
        BY <4>1, <4>3, <3>4, <3>5, <3>c
      <4> QED
        BY <4>2, <4>3, <3>a
    <3>8. Range(s) = T
      <4>1. \A x \in U : \E i \in 1 .. k : u[i] = x
        BY <3>2 DEF Range
      <4>2. \A x \in T : \E i \in 1 .. (k + 1) : s[i] = x
        <5> SUFFICES ASSUME NEW x \in T PROVE \E i \in 1 .. (k + 1) : s[i] = x
          OBVIOUS
        <5>1. CASE x = m + 1
          BY <5>1, <3>3, <3>5
        <5>2. CASE x \in U
          BY <5>2, <4>1, <3>3, <3>4
        <5> QED
          BY <5>1, <5>2 DEF U
      <4>3. DOMAIN s = 1 .. (k + 1)
        BY <3>6
      <4> QED
        <5>1. \A x : x \in Range(s) <=> \E i \in 1 .. (k + 1) : x = s[i]
          BY <4>3 DEF Range
        <5>2. \A x : x \in Range(s) => x \in T
          BY <5>1, <3>b
        <5>3. \A x \in T : x \in Range(s)
          BY <5>1, <4>2
        <5> QED
          BY <5>2, <5>3, Zenon
    <3> QED
      BY <3>3, <3>6, <3>7, <3>8
  <2> QED
    BY <2>1, <2>2
<1>4. G = Nat
  <2> HIDE DEF G
  <2>1. G \subseteq Nat
    BY DEF G
  <2> QED
    BY <1>2, <1>3, <2>1, Induction
<1>5. Listed(S)
  BY <1>4, Zenon
<1> QED
  BY <1>1, <1>5, Zenon

\* What Sorted gives.
LEMMA SortedIs ==
  ASSUME NEW S \in SUBSET Pgid
  PROVE  /\ IsFiniteSet(S) /\ Cardinality(S) \in Nat
         /\ Sorted(S) \in Seq(Pgid)
         /\ Len(Sorted(S)) = Cardinality(S)
         /\ Range(Sorted(S)) = S
         /\ Increasing(Sorted(S))
<1>1. S \in SUBSET (1 .. MaxPgid) /\ MaxPgid \in Nat
  BY FreelistAssumption DEF Pgid
<1>2. /\ IsFiniteSet(S) /\ Cardinality(S) \in Nat
      /\ \E s \in [1 .. Cardinality(S) -> S] :
              /\ Range(s) = S
              /\ \A i, j \in 1 .. Cardinality(S) : i < j => s[i] < s[j]
  BY <1>1, SortedExists, SMTT(60)
<1>3. /\ Sorted(S) \in [1 .. Cardinality(S) -> S]
      /\ Range(Sorted(S)) = S
      /\ \A i, j \in 1 .. Cardinality(S) : i < j => Sorted(S)[i] < Sorted(S)[j]
  BY <1>2, Zenon DEF Sorted
<1>4. Sorted(S) \in Seq(Pgid) /\ Len(Sorted(S)) = Cardinality(S)
  BY <1>2, <1>3
<1> QED
  BY <1>2, <1>3, <1>4 DEF Increasing

\* There is one list in order of the same ids.
LEMMA IncreasingUnique ==
  ASSUME NEW s \in Seq(Int), NEW t \in Seq(Int), Increasing(s), Increasing(t),
         Range(s) = Range(t)
  PROVE  s = t
<1>1. /\ Len(s) \in Nat /\ \A i \in 1 .. Len(s) : s[i] \in Int
      /\ Len(t) \in Nat /\ \A i \in 1 .. Len(t) : t[i] \in Int
  OBVIOUS
<1>2. /\ \A i \in 1 .. Len(s) : \E j \in 1 .. Len(t) : t[j] = s[i]
      /\ \A i \in 1 .. Len(t) : \E j \in 1 .. Len(s) : s[j] = t[i]
  <2>1. DOMAIN s = 1 .. Len(s) /\ DOMAIN t = 1 .. Len(t)
    OBVIOUS
  <2> QED
    BY <2>1, Zenon DEF Range
<1> DEFINE G == {m \in Nat : \A i \in 1 .. m : i <= Len(s) /\ i <= Len(t) => s[i] = t[i]}
<1>3. 0 \in G
  OBVIOUS
<1>4. ASSUME NEW m \in G PROVE m + 1 \in G
  <2> SUFFICES ASSUME m + 1 <= Len(s), m + 1 <= Len(t) PROVE s[m + 1] = t[m + 1]
    OBVIOUS
  <2>0. m + 1 \in 1 .. Len(s) /\ m + 1 \in 1 .. Len(t)
    BY <1>1
  <2>1. PICK j \in 1 .. Len(t) : t[j] = s[m + 1]
    BY <1>2, <2>0
  <2>2. PICK k \in 1 .. Len(s) : s[k] = t[m + 1]
    BY <1>2, <2>0
  <2>3. ~(j < m + 1)
    <3> SUFFICES ASSUME j < m + 1 PROVE FALSE
      OBVIOUS
    <3>1. j \in 1 .. m /\ j <= Len(s)
      BY <1>1
    <3>2. s[j] = t[j]
      BY <3>1
    <3>3. s[j] < s[m + 1]
      BY <3>1, <2>0, <1>1 DEF Increasing
    <3> QED
      BY <3>2, <3>3, <2>1, <2>0, <1>1, SMTT(60)
  <2>4. ~(k < m + 1)
    <3> SUFFICES ASSUME k < m + 1 PROVE FALSE
      OBVIOUS
    <3>1. k \in 1 .. m /\ k <= Len(t)
      BY <1>1
    <3>2. s[k] = t[k]
      BY <3>1
    <3>3. t[k] < t[m + 1]
      BY <3>1, <2>0, <1>1 DEF Increasing
    <3> QED
      BY <3>2, <3>3, <2>2, <2>0, <1>1
  <2>5. t[m + 1] <= t[j] /\ s[m + 1] <= s[k]
    <3>1. j = m + 1 \/ m + 1 < j
      BY <2>0, <2>3, <1>1
    <3>2. k = m + 1 \/ m + 1 < k
      BY <2>0, <2>4, <1>1
    <3>3. t[m + 1] <= t[j]
      BY <3>1, <2>0, <1>1 DEF Increasing
    <3>4. s[m + 1] <= s[k]
      BY <3>2, <2>0, <1>1, SMTT(60) DEF Increasing
    <3> QED
      BY <3>3, <3>4
  <2> QED
    BY <2>1, <2>2, <2>5, <2>0, <1>1, SMTT(60)
<1>5. G = Nat
  <2> HIDE DEF G
  <2>1. G \subseteq Nat
    BY DEF G
  <2> QED
    BY <1>3, <1>4, <2>1, Induction, Zenon
<1>6. \A i \in Nat \ {0} : i <= Len(s) /\ i <= Len(t) => s[i] = t[i]
  <2> SUFFICES ASSUME NEW i \in Nat \ {0} PROVE i <= Len(s) /\ i <= Len(t) => s[i] = t[i]
    OBVIOUS
  <2>1. i \in G
    <3> HIDE DEF G
    <3> QED
      BY <1>5
  <2>2. i \in 1 .. i
    OBVIOUS
  <2> QED
    BY <2>1, <2>2
<1> HIDE DEF G
<1>7. ~(Len(s) < Len(t))
  <2> SUFFICES ASSUME Len(s) < Len(t) PROVE FALSE
    OBVIOUS
  <2>0. Len(s) + 1 \in 1 .. Len(t)
    BY <1>1
  <2>1. PICK j \in 1 .. Len(s) : s[j] = t[Len(s) + 1]
    BY <2>0, <1>2, Zenon
  <2>2. s[j] = t[j]
    BY <1>1, <1>6
  <2>3. t[j] < t[Len(s) + 1]
    <3>1. j \in 1 .. Len(t) /\ j < Len(s) + 1
      BY <1>1
    <3> QED
      BY <2>0, <3>1 DEF Increasing
  <2> QED
    BY <2>1, <2>2, <2>3, <1>1
<1>8. ~(Len(t) < Len(s))
  <2> SUFFICES ASSUME Len(t) < Len(s) PROVE FALSE
    OBVIOUS
  <2>0. Len(t) + 1 \in 1 .. Len(s)
    BY <1>1
  <2>1. PICK j \in 1 .. Len(t) : t[j] = s[Len(t) + 1]
    BY <2>0, <1>2, Zenon
  <2>2. s[j] = t[j]
    BY <1>1, <1>6
  <2>3. s[j] < s[Len(t) + 1]
    <3>1. j \in 1 .. Len(s) /\ j < Len(t) + 1
      BY <1>1
    <3> QED
      BY <2>0, <3>1 DEF Increasing
  <2> QED
    BY <2>1, <2>2, <2>3, <1>1
<1>9. Len(s) = Len(t)
  BY <1>1, <1>7, <1>8
<1>10. \A i \in 1 .. Len(s) : s[i] = t[i]
  BY <1>1, <1>6, <1>9
<1> QED
  BY <1>9, <1>10, SameList

\* The ids of a list.
LEMMA RangeIs ==
  ASSUME NEW S, NEW s \in Seq(S)
  PROVE  \A x : x \in Range(s) <=> \E i \in 1 .. Len(s) : x = s[i]
<1>1. DOMAIN s = 1 .. Len(s)
  OBVIOUS
<1> QED
  BY <1>1 DEF Range

\* Two lists, one behind the other.
LEMMA ConcatIs ==
  ASSUME NEW s \in Seq(Int), NEW t \in Seq(Int)
  PROVE  /\ s \o t \in Seq(Int)
         /\ Len(s \o t) = Len(s) + Len(t)
         /\ \A i \in 1 .. Len(s) : (s \o t)[i] = s[i]
         /\ \A i \in 1 .. Len(t) : (s \o t)[Len(s) + i] = t[i]
         /\ Range(s \o t) = Range(s) \cup Range(t)
<1>1. Len(s) \in Nat /\ Len(t) \in Nat
  OBVIOUS
<1>2. s \o t \in Seq(Int) /\ Len(s \o t) = Len(s) + Len(t)
  OBVIOUS
<1>3. \A i \in 1 .. Len(s) : (s \o t)[i] = s[i]
  BY <1>1
<1>4. \A i \in 1 .. Len(t) : (s \o t)[Len(s) + i] = t[i]
  BY <1>1
<1> DEFINE u == s \o t
<1> HIDE DEF u
<1>5. \A i \in 1 .. Len(u) : i \in 1 .. Len(s) \/ \E j \in 1 .. Len(t) : i = Len(s) + j
  <2> SUFFICES ASSUME NEW i \in 1 .. Len(u), i \notin 1 .. Len(s)
               PROVE  \E j \in 1 .. Len(t) : i = Len(s) + j
    OBVIOUS
  <2>1. i - Len(s) \in 1 .. Len(t) /\ i = Len(s) + (i - Len(s))
    BY <1>1, <1>2 DEF u
  <2> QED
    BY <2>1, Zenon
<1>6. /\ \A i \in 1 .. Len(s) : i \in 1 .. Len(u)
      /\ \A i \in 1 .. Len(t) : Len(s) + i \in 1 .. Len(u)
  BY <1>1, <1>2 DEF u
<1>7. \A x : x \in Range(u) <=> \E i \in 1 .. Len(u) : x = u[i]
  BY <1>2, RangeIs, Zenon DEF u
<1>8. \A x : x \in Range(s) <=> \E i \in 1 .. Len(s) : x = s[i]
  BY RangeIs
<1>9. \A x : x \in Range(t) <=> \E i \in 1 .. Len(t) : x = t[i]
  BY RangeIs
<1>10. \A x : x \in Range(u) => x \in Range(s) \cup Range(t)
  BY <1>3, <1>4, <1>5, <1>7, <1>8, <1>9 DEF u
<1>11. \A x : x \in Range(s) \cup Range(t) => x \in Range(u)
  <2>1. \A i \in 1 .. Len(s) : s[i] \in Range(u)
    BY <1>3, <1>6, <1>7 DEF u
  <2>2. \A i \in 1 .. Len(t) : t[i] \in Range(u)
    BY <1>4, <1>6, <1>7, Zenon DEF u
  <2> QED
    BY <2>1, <2>2, <1>8, <1>9, SMTT(60)
<1>12. Range(u) = Range(s) \cup Range(t)
  BY <1>10, <1>11
<1> QED
  BY <1>2, <1>3, <1>4, <1>12 DEF u

\* The second list goes on where the first ends.
LEMMA ConcatIncreasing ==
  ASSUME NEW s \in Seq(Int), NEW t \in Seq(Int), Increasing(s), Increasing(t),
         Before(Range(s), Range(t))
  PROVE  Increasing(s \o t)
<1> DEFINE u == s \o t
<1>1. /\ Len(u) = Len(s) + Len(t)
      /\ \A i \in 1 .. Len(s) : u[i] = s[i]
      /\ \A i \in 1 .. Len(t) : u[Len(s) + i] = t[i]
  BY ConcatIs
<1>2. Len(s) \in Nat /\ Len(t) \in Nat
  OBVIOUS
<1> HIDE DEF u
<1>3. \A i \in 1 .. Len(s), j \in 1 .. Len(t) : s[i] < t[j]
  BY RangeIs, Zenon DEF Before
<1> SUFFICES ASSUME NEW i \in 1 .. Len(u), NEW j \in 1 .. Len(u), i < j
             PROVE  u[i] < u[j]
  BY DEF Increasing, u
<1>4. CASE j <= Len(s)
  <2>1. i \in 1 .. Len(s) /\ j \in 1 .. Len(s)
    BY <1>1, <1>2, <1>4
  <2>2. u[i] = s[i] /\ u[j] = s[j]
    BY <2>1, <1>1
  <2> QED
    BY <2>1, <2>2 DEF Increasing
<1>5. CASE i <= Len(s) /\ ~(j <= Len(s))
  <2>1. i \in 1 .. Len(s) /\ j - Len(s) \in 1 .. Len(t) /\ j = Len(s) + (j - Len(s))
    BY <1>1, <1>2, <1>5
  <2>2. u[i] = s[i] /\ u[j] = t[j - Len(s)]
    BY <2>1, <1>1, Zenon
  <2> QED
    BY <2>1, <2>2, <1>3
<1>6. CASE ~(i <= Len(s))
  <2>1. /\ i - Len(s) \in 1 .. Len(t) /\ i = Len(s) + (i - Len(s))
        /\ j - Len(s) \in 1 .. Len(t) /\ j = Len(s) + (j - Len(s))
        /\ i - Len(s) < j - Len(s)
    BY <1>1, <1>2, <1>6
  <2>2. u[i] = t[i - Len(s)] /\ u[j] = t[j - Len(s)]
    BY <2>1, <1>1, Zenon
  <2> QED
    BY <2>1, <2>2, Zenon DEF Increasing
<1> QED
  BY <1>4, <1>5, <1>6

\* A part of a list in order.
LEMMA SubIs ==
  ASSUME NEW s \in Seq(Int), NEW a \in Nat \ {0}, NEW b \in Nat, a <= b + 1, b <= Len(s)
  PROVE  LET u == SubSeq(s, a, b)
         IN  /\ u \in Seq(Int)
             /\ Len(u) = b - a + 1
             /\ \A i \in 1 .. Len(u) : u[i] = s[a + i - 1]
             /\ \A x : x \in Range(u) <=> \E i \in a .. b : x = s[i]
             /\ Increasing(s) => Increasing(u)
<1> DEFINE u == SubSeq(s, a, b)
<1>0. Len(s) \in Nat
  OBVIOUS
<1>1. u \in Seq(Int) /\ Len(u) = b - a + 1 /\ \A i \in 1 .. Len(u) : u[i] = s[a + i - 1]
  BY <1>0, SMTT(60)
<1> HIDE DEF u
<1>2. \A x : x \in Range(u) <=> \E i \in 1 .. Len(u) : x = u[i]
  BY <1>1, RangeIs
<1>3. \A i \in 1 .. Len(u) : a + i - 1 \in a .. b
  BY <1>1
<1>4. \A i \in a .. b : i - a + 1 \in 1 .. Len(u) /\ a + (i - a + 1) - 1 = i
  BY <1>1
<1>5. \A x : x \in Range(u) <=> \E i \in a .. b : x = s[i]
  <2>1. \A i \in 1 .. Len(u) : \E j \in a .. b : u[i] = s[j]
    BY <1>1, <1>3
  <2>2. \A i \in a .. b : \E j \in 1 .. Len(u) : s[i] = u[j]
    BY <1>1, <1>4, ZenonT(60)
  <2>3. \A x : x \in Range(u) => \E i \in a .. b : x = s[i]
    <3> SUFFICES ASSUME NEW x, x \in Range(u) PROVE \E i \in a .. b : x = s[i]
      OBVIOUS
    <3>1. PICK i \in 1 .. Len(u) : x = u[i]
      BY <1>2
    <3> QED
      BY <2>1, <3>1, Zenon
  <2>4. \A i \in a .. b : s[i] \in Range(u)
    BY <1>2, <2>2, Zenon
  <2> QED
    BY <2>3, <2>4
<1>6. ASSUME Increasing(s) PROVE Increasing(u)
  <2> SUFFICES ASSUME NEW i \in 1 .. Len(u), NEW j \in 1 .. Len(u), i < j
               PROVE  u[i] < u[j]
    BY DEF Increasing
  <2>1. a + i - 1 \in 1 .. Len(s) /\ a + j - 1 \in 1 .. Len(s) /\ a + i - 1 < a + j - 1
    BY <1>0, <1>1
  <2>2. s[a + i - 1] < s[a + j - 1]
    BY <2>1, <1>6, Zenon DEF Increasing
  <2> QED
    BY <2>2, <1>1
<1> QED
  BY <1>1, <1>5, <1>6, Zenon DEF u

-----------------------------------------------------------------------------
(* mergepgids *)

\* Where sort.Search ends.
LEMMA AheadIs ==
  ASSUME NEW s \in Seq(Int), NEW id \in Int
  PROVE  LET n == Ahead(s, id)
         IN  /\ n \in 0 .. Len(s)
             /\ \A i \in 1 .. n : s[i] <= id
             /\ n < Len(s) => s[n + 1] > id
<1>0. Len(s) \in Nat
  OBVIOUS
<1> DEFINE G == {m \in Nat : m <= Len(s) =>
                   \/ \A i \in 1 .. m : s[i] <= id
                   \/ \E n \in 0 .. Len(s) :
                        /\ \A i \in 1 .. n : s[i] <= id
                        /\ n < Len(s) => s[n + 1] > id}
<1>1. 0 \in G
  OBVIOUS
<1>2. ASSUME NEW m \in G PROVE m + 1 \in G
  <2> SUFFICES ASSUME m + 1 <= Len(s), \A i \in 1 .. m : s[i] <= id
               PROVE  \/ \A i \in 1 .. (m + 1) : s[i] <= id
                      \/ \E n \in 0 .. Len(s) :
                        /\ \A i \in 1 .. n : s[i] <= id
                        /\ n < Len(s) => s[n + 1] > id
    BY <1>0
  <2>1. s[m + 1] \in Int
    BY <1>0
  <2>2. CASE s[m + 1] <= id
    BY <2>2
  <2>3. CASE s[m + 1] > id
    <3>1. m \in 0 .. Len(s)
      BY <1>0
    <3> QED
      BY <2>3, <3>1
  <2> QED
    BY <2>1, <2>2, <2>3
<1>3. G = Nat
  <2> HIDE DEF G
  <2>1. G \subseteq Nat
    BY DEF G
  <2> QED
    BY <1>1, <1>2, <2>1, Induction, Zenon
<1>4. Len(s) \in G
  <2> HIDE DEF G
  <2> QED
    BY <1>0, <1>3
<1>5. \E n \in 0 .. Len(s) :
        /\ \A i \in 1 .. n : s[i] <= id
        /\ n < Len(s) => s[n + 1] > id
  <2>1. CASE \A i \in 1 .. Len(s) : s[i] <= id
    BY <2>1, <1>0
  <2> QED
    BY <2>1, <1>4, <1>0
<1> HIDE DEF G
<1> QED
  BY <1>5, Zenon DEF Ahead

\* The lists of a round: what is merged is below the rest, which is in two lists
\* without a common id, the one with the smallest id in front.
Merging(m, ids, k) ==
  /\ m.merged \in Seq(Int) /\ m.lead \in Seq(Int) /\ m.follow \in Seq(Int)
  /\ Increasing(m.merged) /\ Increasing(m.lead) /\ Increasing(m.follow)
  /\ Range(m.merged) \cup Range(m.lead) \cup Range(m.follow) = ids
  /\ Before(Range(m.merged), Range(m.lead) \cup Range(m.follow))
  /\ Range(m.lead) \cap Range(m.follow) = {}
  /\ m.follow # <<>>
  /\ m.lead # <<>> => m.lead[1] < m.follow[1]
  /\ Len(m.merged) + Len(m.lead) + Len(m.follow) = k

\* The first id of a list in order is the smallest.
LEMMA FirstLeast ==
  ASSUME NEW s \in Seq(Int), Increasing(s), s # <<>>
  PROVE  /\ Len(s) \in Nat \ {0} /\ s[1] \in Int /\ s[1] \in Range(s)
         /\ \A x \in Range(s) : x \in Int /\ s[1] <= x
<1>1. Len(s) \in Nat \ {0}
  OBVIOUS
<1>2. 1 \in 1 .. Len(s) /\ \A i \in 1 .. Len(s) : s[i] \in Int
  BY <1>1
<1>3. \A i \in 1 .. Len(s) : s[1] <= s[i]
  BY <1>1, <1>2 DEF Increasing
<1> QED
  BY <1>1, <1>2, <1>3, RangeIs

\* A round of the loop merges some ids.
LEMMA MergeRoundOK ==
  ASSUME NEW m, NEW ids, NEW k \in Nat, Merging(m, ids, k), m.lead # <<>>
  PROVE  LET r == mergeRound(m)
         IN  Merging(r, ids, k) /\ Len(r.merged) > Len(m.merged)
<1> DEFINE n == Ahead(m.lead, m.follow[1])
           a == SubSeq(m.lead, 1, n)
           b == SubSeq(m.lead, n + 1, Len(m.lead))
           r == mergeRound(m)
<1>1. /\ m.merged \in Seq(Int) /\ m.lead \in Seq(Int) /\ m.follow \in Seq(Int)
      /\ Increasing(m.merged) /\ Increasing(m.lead) /\ Increasing(m.follow)
      /\ Range(m.merged) \cup Range(m.lead) \cup Range(m.follow) = ids
      /\ Before(Range(m.merged), Range(m.lead) \cup Range(m.follow))
      /\ Range(m.lead) \cap Range(m.follow) = {}
      /\ m.follow # <<>>
      /\ m.lead[1] < m.follow[1]
      /\ Len(m.merged) + Len(m.lead) + Len(m.follow) = k
  BY Zenon DEF Merging
<1>2. /\ Len(m.lead) \in Nat \ {0} /\ m.lead[1] \in Int
      /\ Len(m.follow) \in Nat \ {0} /\ m.follow[1] \in Int /\ m.follow[1] \in Range(m.follow)
      /\ \A x \in Range(m.lead) : x \in Int
      /\ \A x \in Range(m.follow) : x \in Int /\ m.follow[1] <= x
      /\ Len(m.merged) \in Nat
  BY <1>1, FirstLeast
<1>3. /\ n \in 0 .. Len(m.lead)
      /\ \A i \in 1 .. n : m.lead[i] <= m.follow[1]
      /\ n < Len(m.lead) => m.lead[n + 1] > m.follow[1]
  BY <1>1, <1>2, AheadIs, Zenon
<1> HIDE DEF n
<1>4. n \in 1 .. Len(m.lead) /\ n \in Nat
  <2>1. n # 0
    BY <1>1, <1>2, <1>3
  <2> QED
    BY <2>1, <1>2, <1>3
<1>5. /\ a \in Seq(Int) /\ Len(a) = n
      /\ \A x : x \in Range(a) <=> \E i \in 1 .. n : x = m.lead[i]
      /\ Increasing(a)
  <2>1. n \in Nat /\ 1 \in Nat \ {0} /\ 1 <= n + 1 /\ n <= Len(m.lead) /\ n - 1 + 1 = n
    BY <1>2, <1>4
  <2>2. LET u == SubSeq(m.lead, 1, n)
        IN  /\ u \in Seq(Int)
            /\ Len(u) = n - 1 + 1
            /\ \A i \in 1 .. Len(u) : u[i] = m.lead[1 + i - 1]
            /\ \A x : x \in Range(u) <=> \E i \in 1 .. n : x = m.lead[i]
            /\ Increasing(m.lead) => Increasing(u)
    BY <2>1, <1>1, SubIs, Zenon
  <2> QED
    BY <2>1, <2>2, <1>1 DEF a
<1>6. /\ b \in Seq(Int) /\ Len(b) = Len(m.lead) - n
      /\ \A i \in 1 .. Len(b) : b[i] = m.lead[n + i]
      /\ \A x : x \in Range(b) <=> \E i \in (n + 1) .. Len(m.lead) : x = m.lead[i]
      /\ Increasing(b)
  <2>1. /\ n + 1 \in Nat \ {0} /\ Len(m.lead) \in Nat /\ n + 1 <= Len(m.lead) + 1
        /\ Len(m.lead) <= Len(m.lead)
        /\ Len(m.lead) - (n + 1) + 1 = Len(m.lead) - n
    BY <1>2, <1>4
  <2>2. LET u == SubSeq(m.lead, n + 1, Len(m.lead))
        IN  /\ u \in Seq(Int) /\ Len(u) = Len(m.lead) - (n + 1) + 1
            /\ \A i \in 1 .. Len(u) : u[i] = m.lead[(n + 1) + i - 1]
            /\ \A x : x \in Range(u) <=> \E i \in (n + 1) .. Len(m.lead) : x = m.lead[i]
            /\ Increasing(m.lead) => Increasing(u)
    <3> DEFINE e == n + 1  l == Len(m.lead)
    <3>1. e \in Nat \ {0} /\ l \in Nat /\ e <= l + 1 /\ l <= Len(m.lead)
      BY <2>1
    <3> HIDE DEF e, l
    <3>2. LET u == SubSeq(m.lead, e, l)
          IN  /\ u \in Seq(Int)
              /\ Len(u) = l - e + 1
              /\ \A i \in 1 .. Len(u) : u[i] = m.lead[e + i - 1]
              /\ \A x : x \in Range(u) <=> \E i \in e .. l : x = m.lead[i]
              /\ Increasing(m.lead) => Increasing(u)
      BY <3>1, <1>1, SubIs, Zenon
    <3> QED
      BY <3>2 DEF e, l
  <2>3. \A i \in 1 .. Len(b) : (n + 1) + i - 1 = n + i
    BY <1>4
  <2> QED
    BY <2>1, <2>2, <2>3, <1>1, Zenon DEF b
<1> HIDE DEF a, b
<1>7. \A x : x \in Range(m.lead) <=> \E i \in 1 .. Len(m.lead) : x = m.lead[i]
  BY <1>1, RangeIs, Zenon
<1>8. Range(m.lead) = Range(a) \cup Range(b)
  <2>1. \A i \in 1 .. Len(m.lead) : i \in 1 .. n \/ i \in (n + 1) .. Len(m.lead)
    BY <1>4
  <2>2. \A i \in 1 .. n : i \in 1 .. Len(m.lead)
    BY <1>2, <1>4
  <2>3. \A i \in (n + 1) .. Len(m.lead) : i \in 1 .. Len(m.lead)
    BY <1>2, <1>4
  <2>4. \A x \in Range(m.lead) : x \in Range(a) \cup Range(b)
    <3> SUFFICES ASSUME NEW x \in Range(m.lead) PROVE x \in Range(a) \/ x \in Range(b)
      OBVIOUS
    <3>1. PICK i \in 1 .. Len(m.lead) : x = m.lead[i]
      BY <1>7
    <3> QED
      BY <1>5, <1>6, <3>1, <2>1, Zenon
  <2>5. \A x \in Range(a) : x \in Range(m.lead)
    BY <1>5, <1>7, <2>2
  <2>6. \A x \in Range(b) : x \in Range(m.lead)
    BY <1>6, <1>7, <2>3
  <2> QED
    BY <2>4, <2>5, <2>6
<1>9. Before(Range(a), Range(b))
  <2>1. \A i \in 1 .. n, j \in (n + 1) .. Len(m.lead) : m.lead[i] < m.lead[j]
    <3> SUFFICES ASSUME NEW i \in 1 .. n, NEW j \in (n + 1) .. Len(m.lead)
                 PROVE  m.lead[i] < m.lead[j]
      OBVIOUS
    <3>1. i \in 1 .. Len(m.lead) /\ j \in 1 .. Len(m.lead) /\ i < j
      BY <1>2, <1>4
    <3> QED
      BY <3>1, <1>1 DEF Increasing
  <2> QED
    <3> SUFFICES ASSUME NEW x \in Range(a), NEW y \in Range(b) PROVE x < y
      BY DEF Before
    <3>1. PICK i \in 1 .. n : x = m.lead[i]
      BY <1>5
    <3>2. PICK j \in (n + 1) .. Len(m.lead) : y = m.lead[j]
      BY <1>6
    <3> QED
      BY <2>1, <3>1, <3>2
<1>10. Before(Range(a), Range(m.follow))
  <2> SUFFICES ASSUME NEW x \in Range(a), NEW y \in Range(m.follow) PROVE x < y
    BY DEF Before
  <2>1. x \in Int /\ x <= m.follow[1] /\ x # m.follow[1]
    <3>1. PICK i \in 1 .. n : x = m.lead[i]
      BY <1>5
    <3>2. x \in Int /\ x # m.follow[1]
      BY <1>1, <1>2, <1>8
    <3> QED
      BY <3>1, <3>2, <1>3
  <2>2. y \in Int /\ m.follow[1] <= y
    BY <1>2
  <2> QED
    BY <2>1, <2>2, <1>2
<1> DEFINE c == m.merged \o a
<1>11. /\ c \in Seq(Int) /\ Len(c) = Len(m.merged) + n
       /\ Range(c) = Range(m.merged) \cup Range(a)
  BY <1>1, <1>5, ConcatIs, Zenon
<1>12. Increasing(c)
  <2>1. Before(Range(m.merged), Range(a))
    BY <1>1, <1>8 DEF Before
  <2> QED
    BY <2>1, <1>1, <1>5, ConcatIncreasing
<1>13. Before(Range(c), Range(m.follow)) /\ Before(Range(c), Range(b))
  BY <1>1, <1>8, <1>9, <1>10, <1>11, SMTT(60) DEF Before
<1> HIDE DEF c
<1>14. Len(c) > Len(m.merged)
  BY <1>2, <1>4, <1>11
<1>15. CASE n = Len(m.lead)
  <2>1. r = [merged |-> c, lead |-> <<>>, follow |-> m.follow]
    BY <1>15 DEF mergeRound, n, a, c
  <2>2. r.merged = c /\ r.lead = <<>> /\ r.follow = m.follow
    BY <2>1
  <2> HIDE DEF r
  <2>3. <<>> \in Seq(Int) /\ Len(<<>>) = 0 /\ Range(<<>>) = {} /\ Increasing(<<>>)
    <3>1. <<>> \in Seq(Int) /\ Len(<<>>) = 0 /\ Range(<<>>) = {}
      BY DEF Range
    <3> QED
      BY <3>1 DEF Increasing
  <2>4. Range(b) = {}
    BY <1>6, <1>15
  <2>5. Range(c) \cup Range(<<>>) \cup Range(m.follow) = ids
    BY <1>1, <1>8, <1>11, <2>3, <2>4
  <2>6. Len(c) + 0 + Len(m.follow) = k
    <3>1. /\ Len(m.merged) + Len(m.lead) + Len(m.follow) = k
          /\ Len(c) = Len(m.merged) + Len(m.lead)
      BY <1>1, <1>11, <1>15, Zenon
    <3>2. Len(m.merged) \in Nat /\ Len(m.lead) \in Nat /\ Len(m.follow) \in Nat /\ Len(c) \in Nat
      BY <1>2, <1>11
    <3> DEFINE p == Len(m.merged)  q == Len(m.lead)  f == Len(m.follow)  l == Len(c)
    <3>3. p \in Nat /\ q \in Nat /\ f \in Nat /\ l \in Nat /\ p + q + f = k /\ l = p + q
      BY <3>1, <3>2, Zenon
    <3> HIDE DEF p, q, f, l
    <3>4. l + 0 + f = k
      BY <3>3
    <3> QED
      BY <3>4 DEF l, f
  <2> QED
    BY <1>1, <1>11, <1>12, <1>13, <1>14, <2>2, <2>3, <2>5, <2>6, Zenon DEF Merging, r
<1>16. CASE n # Len(m.lead)
  <2>1. r = [merged |-> c, lead |-> m.follow, follow |-> b]
    BY <1>16, Zenon DEF mergeRound, n, a, b, c
  <2>2. r.merged = c /\ r.lead = m.follow /\ r.follow = b
    BY <2>1
  <2> HIDE DEF r
  <2>3. Len(b) \in Nat \ {0} /\ b[1] = m.lead[n + 1] /\ m.follow[1] < b[1] /\ b # <<>>
    <3>1. Len(b) \in Nat \ {0} /\ 1 \in 1 .. Len(b) /\ n < Len(m.lead)
      BY <1>2, <1>4, <1>6, <1>16, SMTT(60)
    <3>2. b[1] = m.lead[n + 1]
      BY <3>1, <1>6
    <3>3. m.lead[n + 1] \in Int
      BY <3>1, <3>2, <1>6
    <3> QED
      BY <3>1, <3>2, <3>3, <1>2, <1>3
  <2>4. Range(c) \cup Range(m.follow) \cup Range(b) = ids
    BY <1>1, <1>8, <1>11
  <2>5. Len(c) + Len(m.follow) + Len(b) = k
    <3>1. /\ Len(m.merged) + Len(m.lead) + Len(m.follow) = k
          /\ Len(c) = Len(m.merged) + n
          /\ Len(b) = Len(m.lead) - n
      BY <1>1, <1>6, <1>11, Zenon
    <3>2. /\ Len(m.merged) \in Nat /\ Len(m.lead) \in Nat /\ Len(m.follow) \in Nat
          /\ Len(b) \in Nat /\ Len(c) \in Nat
      BY <1>2, <1>6, <1>11
    <3> DEFINE p == Len(m.merged)  q == Len(m.lead)  f == Len(m.follow)  l == Len(c)  g == Len(b)
    <3>3. /\ p \in Nat /\ q \in Nat /\ f \in Nat /\ l \in Nat /\ g \in Nat
          /\ p + q + f = k /\ l = p + n /\ g = q - n
      BY <3>1, <3>2, Zenon
    <3> HIDE DEF p, q, f, l, g
    <3>4. l + f + g = k
      BY <3>3, <1>4
    <3> QED
      BY <3>4 DEF l, f, g
  <2>6. Range(m.follow) \cap Range(b) = {}
    BY <1>1, <1>8
  <2>7. Before(Range(c), Range(m.follow) \cup Range(b))
    BY <1>13 DEF Before
  <2> QED
    BY <1>1, <1>6, <1>11, <1>12, <1>14, <2>2, <2>3, <2>4, <2>5, <2>6, <2>7, Zenon DEF Merging, r
<1> QED
  BY <1>15, <1>16

\* The loop after i rounds, from what f says of the round before.
Round(f, lead, follow, i) ==
  IF i = 0 THEN [merged |-> <<>>, lead |-> lead, follow |-> follow]
  ELSE IF f[i - 1].lead = <<>> THEN f[i - 1]
  ELSE mergeRound(f[i - 1])

\* The function the rounds are defined as exists.
LEMMA RoundsExist ==
  ASSUME NEW lead, NEW follow, NEW n \in Nat
  PROVE  \E f : f = [i \in 0 .. n |-> Round(f, lead, follow, i)]
<1> DEFINE S == {k \in Nat : \E f : f = [i \in 0 .. k |-> Round(f, lead, follow, i)]}
<1>1. 0 \in S
  <2> DEFINE f == [i \in 0 .. 0 |-> [merged |-> <<>>, lead |-> lead, follow |-> follow]]
  <2>1. f = [i \in 0 .. 0 |-> Round(f, lead, follow, i)]
    <3>1. \A i \in 0 .. 0 : Round(f, lead, follow, i) = f[i]
      BY DEF Round
    <3> QED
      BY <3>1
  <2> QED
    BY <2>1
<1>2. ASSUME NEW k \in S PROVE k + 1 \in S
  <2>1. PICK f : f = [i \in 0 .. k |-> Round(f, lead, follow, i)]
    OBVIOUS
  <2> DEFINE g == [i \in 0 .. (k + 1) |-> IF i = k + 1 THEN Round(f, lead, follow, i) ELSE f[i]]
  <2>2. \A i \in 1 .. (k + 1) : g[i - 1] = f[i - 1]
    OBVIOUS
  <2>3. \A i \in 0 .. (k + 1) : Round(g, lead, follow, i) = Round(f, lead, follow, i)
    BY <2>2 DEF Round
  <2>4. \A i \in 0 .. k : f[i] = Round(f, lead, follow, i)
    BY <2>1
  <2>5. \A i \in 0 .. (k + 1) : g[i] = Round(g, lead, follow, i)
    BY <2>3, <2>4
  <2>6. g = [i \in 0 .. (k + 1) |-> Round(g, lead, follow, i)]
    BY <2>5
  <2> HIDE DEF g
  <2> QED
    BY <2>6
<1>3. S = Nat
  <2> HIDE DEF S
  <2>1. S \subseteq Nat
    BY DEF S
  <2> QED
    BY <1>1, <1>2, <2>1, Induction
<1> QED
  BY <1>3

\* ... and goes from round to round.
LEMMA RoundsAre ==
  ASSUME NEW lead, NEW follow, Len(lead) + Len(follow) \in Nat
  PROVE  LET f == mergeRounds(lead, follow)
         IN  \A i \in 0 .. Len(lead) + Len(follow) : f[i] = Round(f, lead, follow, i)
<1> DEFINE n == Len(lead) + Len(follow)
           f == mergeRounds(lead, follow)
           Eq(g) == g = [i \in 0 .. n |-> Round(g, lead, follow, i)]
<1>1. f = CHOOSE g : Eq(g)
  BY DEF mergeRounds, Round
<1>2. \E g : Eq(g)
  <2> HIDE DEF n
  <2>1. n \in Nat
    BY DEF n
  <2> QED
    BY <2>1, RoundsExist
<1>3. Eq(f)
  BY <1>1, <1>2, Zenon
<1> HIDE DEF f, n
<1>4. \A i \in 0 .. n : f[i] = Round(f, lead, follow, i)
  BY <1>3, Zenon
<1> QED
  BY <1>4, Zenon DEF f, n

\* Merging two lists in order without a common id, of which the first begins
\* with the smaller id, gives the ids of both in order.
LEMMA MergeListsOK ==
  ASSUME NEW lead \in Seq(Int), NEW follow \in Seq(Int),
         Increasing(lead), Increasing(follow), Range(lead) \cap Range(follow) = {},
         lead # <<>>, follow # <<>>, lead[1] < follow[1]
  PROVE  LET s == mergeLists(lead, follow)
         IN  s \in Seq(Int) /\ Increasing(s) /\ Range(s) = Range(lead) \cup Range(follow)
<1> DEFINE k   == Len(lead) + Len(follow)
           ids == Range(lead) \cup Range(follow)
           f   == mergeRounds(lead, follow)
           G   == {i \in Nat : i <= k => /\ Merging(f[i], ids, k)
                                         /\ f[i].lead = <<>> \/ i <= Len(f[i].merged)}
<1>1. k \in Nat
  OBVIOUS
<1>2. \A i \in 0 .. k : f[i] = Round(f, lead, follow, i)
  BY <1>1, RoundsAre, Zenon
<1>3. Merging([merged |-> <<>>, lead |-> lead, follow |-> follow], ids, k)
  <2>1. <<>> \in Seq(Int) /\ Len(<<>>) = 0 /\ Range(<<>>) = {}
    BY DEF Range
  <2>2. Increasing(<<>>) /\ Before(Range(<<>>), Range(lead) \cup Range(follow))
    BY <2>1 DEF Increasing, Before
  <2>3. 0 + Len(lead) + Len(follow) = k
    OBVIOUS
  <2>4. {} \cup Range(lead) \cup Range(follow) = ids
    OBVIOUS
  <2> HIDE DEF k, ids
  <2> QED
    BY <2>1, <2>2, <2>3, <2>4 DEF Merging
<1> HIDE DEF f, k, ids
<1>4. 0 \in G
  <2>1. f[0] = [merged |-> <<>>, lead |-> lead, follow |-> follow]
    BY <1>1, <1>2 DEF Round
  <2> QED
    BY <1>1, <1>3, <2>1
<1>5. ASSUME NEW i \in G PROVE i + 1 \in G
  <2> SUFFICES ASSUME i + 1 <= k
               PROVE  /\ Merging(f[i + 1], ids, k)
                      /\ f[i + 1].lead = <<>> \/ i + 1 <= Len(f[i + 1].merged)
    OBVIOUS
  <2>1. /\ i \in Nat /\ Merging(f[i], ids, k)
        /\ f[i].lead = <<>> \/ i <= Len(f[i].merged)
    BY <1>1
  <2>2. f[i + 1] = IF f[i].lead = <<>> THEN f[i] ELSE mergeRound(f[i])
    <3>1. i + 1 \in 0 .. k /\ (i + 1) - 1 = i /\ i + 1 # 0
      BY <1>1, <2>1
    <3> QED
      BY <1>2, <3>1 DEF Round
  <2>3. CASE f[i].lead = <<>>
    BY <2>1, <2>2, <2>3
  <2>4. CASE f[i].lead # <<>>
    <3> DEFINE m == f[i]
               r == mergeRound(m)
    <3>1. Merging(r, ids, k) /\ Len(r.merged) > Len(m.merged) /\ i <= Len(m.merged)
      BY <1>1, <2>1, <2>4, MergeRoundOK, Zenon
    <3>2. Len(r.merged) \in Nat /\ Len(m.merged) \in Nat
      <4> HIDE DEF r, m
      <4>1. r.merged \in Seq(Int)
        BY <3>1 DEF Merging
      <4>2. m.merged \in Seq(Int)
        BY <2>1, Zenon DEF Merging, m
      <4> QED
        BY <4>1, <4>2
    <3> HIDE DEF r, m
    <3>3. i + 1 <= Len(r.merged)
      BY <2>1, <3>1, <3>2, SMTT(60)
    <3> QED
      BY <2>2, <2>4, <3>1, <3>3 DEF r, m
  <2> QED
    BY <2>3, <2>4
<1>6. G = Nat
  <2> HIDE DEF G
  <2>1. G \subseteq Nat
    BY DEF G
  <2> QED
    BY <1>4, <1>5, <2>1, Induction, Zenon
<1> DEFINE last == f[k]
<1>7. Merging(last, ids, k) /\ (last.lead = <<>> \/ k <= Len(last.merged))
  <2>1. k \in G
    BY <1>1, <1>6, Zenon
  <2> QED
    BY <1>1, <2>1
<1> HIDE DEF last
<1>8. /\ last.merged \in Seq(Int) /\ last.lead \in Seq(Int) /\ last.follow \in Seq(Int)
      /\ Increasing(last.merged) /\ Increasing(last.follow)
      /\ Range(last.merged) \cup Range(last.lead) \cup Range(last.follow) = ids
      /\ Before(Range(last.merged), Range(last.lead) \cup Range(last.follow))
      /\ last.follow # <<>>
      /\ Len(last.merged) + Len(last.lead) + Len(last.follow) = k
  BY <1>7, Zenon DEF Merging
<1>9. last.lead = <<>>
  <2> SUFFICES ASSUME k <= Len(last.merged) PROVE FALSE
    BY <1>7
  <2>1. Len(last.merged) \in Nat /\ Len(last.lead) \in Nat /\ Len(last.follow) \in Nat \ {0}
    BY <1>8, SMTT(60)
  <2> DEFINE a == Len(last.merged)  b == Len(last.lead)  c == Len(last.follow)
  <2>2. a \in Nat /\ b \in Nat /\ c \in Nat \ {0} /\ a + b + c = k /\ k <= a
    BY <1>8, <2>1, Zenon
  <2> HIDE DEF a, b, c
  <2> QED
    BY <1>1, <2>2
<1>10. Range(last.lead) = {}
  BY <1>9 DEF Range
<1>11. Range(last.merged) \cup Range(last.follow) = ids /\ Before(Range(last.merged), Range(last.follow))
  BY <1>8, <1>10 DEF Before
<1> DEFINE s == last.merged \o last.follow
<1>12. s \in Seq(Int) /\ Increasing(s) /\ Range(s) = ids
  BY <1>8, <1>11, ConcatIs, ConcatIncreasing, Zenon
<1>13. mergeLists(lead, follow) = s
  BY DEF mergeLists, f, k, last
<1> QED
  BY <1>12, <1>13 DEF ids

\* mergepgids of two lists in order, without a common id.
LEMMA MergeIs ==
  ASSUME NEW a \in Seq(Int), NEW b \in Seq(Int), Increasing(a), Increasing(b),
         Range(a) \cap Range(b) = {}
  PROVE  LET s == mergepgids(a, b)
         IN  s \in Seq(Int) /\ Increasing(s) /\ Range(s) = Range(a) \cup Range(b)
<1>1. CASE a = <<>>
  <2>1. Range(a) = {} /\ mergepgids(a, b) = b
    BY <1>1 DEF Range, mergepgids
  <2> QED
    BY <2>1
<1>2. CASE a # <<>> /\ b = <<>>
  <2>1. Range(b) = {} /\ mergepgids(a, b) = a
    BY <1>2 DEF Range, mergepgids
  <2> QED
    BY <2>1
<1>3. CASE a # <<>> /\ b # <<>>
  <2>1. a[1] \in Int /\ b[1] \in Int /\ a[1] \in Range(a) /\ b[1] \in Range(b)
    BY <1>3, FirstLeast
  <2>2. b[1] < a[1] \/ a[1] < b[1]
    BY <2>1
  <2>3. CASE b[1] < a[1]
    <3>1. mergepgids(a, b) = mergeLists(b, a)
      BY <1>3, <2>3 DEF mergepgids
    <3> QED
      BY <1>3, <2>3, <3>1, MergeListsOK
  <2>4. CASE a[1] < b[1]
    <3>1. mergepgids(a, b) = mergeLists(a, b)
      BY <1>3, <2>1, <2>4 DEF mergepgids
    <3> QED
      BY <1>3, <2>4, <3>1, MergeListsOK
  <2> QED
    BY <2>2, <2>3, <2>4
<1> QED
  BY <1>1, <1>2, <1>3

\* copyall: the free ids and the pending ones, all of them once and in order.
LEMMA CopyIs ==
  ASSUME NEW f \in SUBSET Pgid, NEW p \in SUBSET Pgid, f \cap p = {}
  PROVE  copyPgids(f, p) = Sorted(f \cup p)
<1> DEFINE u == f \cup p
<1>1. Pgid \subseteq Int /\ u \in SUBSET Pgid
  BY FreelistAssumption DEF Pgid
<1>2. \A S \in SUBSET Pgid : Sorted(S) \in Seq(Int) /\ Range(Sorted(S)) = S /\ Increasing(Sorted(S))
  <2> SUFFICES ASSUME NEW S \in SUBSET Pgid
               PROVE  Sorted(S) \in Seq(Int) /\ Range(Sorted(S)) = S /\ Increasing(Sorted(S))
    OBVIOUS
  <2>1. Sorted(S) \in Seq(Pgid) /\ Range(Sorted(S)) = S /\ Increasing(Sorted(S))
    BY SortedIs
  <2>2. Sorted(S) \in Seq(Int)
    <3> DEFINE s == Sorted(S)
    <3> HIDE DEF s
    <3>1. s \in [1 .. Len(s) -> Pgid] /\ Len(s) \in Nat
      BY <2>1 DEF s
    <3>2. s \in [1 .. Len(s) -> Int]
      BY <1>1, <3>1, Zenon
    <3> QED
      BY <3>1, <3>2, ListOf DEF s
  <2> QED
    BY <2>1, <2>2
<1> HIDE DEF u
<1>3. LET s == mergepgids(Sorted(f), Sorted(p))
      IN  s \in Seq(Int) /\ Increasing(s) /\ Range(s) = Range(Sorted(f)) \cup Range(Sorted(p))
  <2>1. Range(Sorted(f)) \cap Range(Sorted(p)) = {}
    BY <1>2
  <2> QED
    BY <1>2, <2>1, MergeIs
<1>4. Range(mergepgids(Sorted(f), Sorted(p))) = Range(Sorted(u))
  BY <1>1, <1>2, <1>3 DEF u
<1>5. mergepgids(Sorted(f), Sorted(p)) = Sorted(u)
  BY <1>1, <1>2, <1>3, <1>4, IncreasingUnique
<1> QED
  BY <1>5 DEF copyPgids, u

-----------------------------------------------------------------------------
(* The regions *)

\* Where a page of the list with n ids has the first of them.
First(n) == headerWords + (IF n >= MaxCount THEN 1 ELSE 0)

\* The region that begins behind the given number of words holds the list ids.
Holds(words, base, ids) ==
  LET n == Len(ids)
  IN  /\ size(n) <= RegionWords
      /\ words[base + 2] = IF n >= MaxCount THEN MaxCount ELSE n
      /\ n >= MaxCount => words[base + headerWords + 1] = n
      /\ \A j \in 1 .. n : words[base + First(n) + j] = ids[j]

Words == 1 .. (2 * RegionWords + PageWords)

\* What makes the runs' properties inductive: every region holds the list that
\* was saved last, and no id is in two of the sets.
FileInv ==
  /\ file \in [Words -> Int]
  /\ flid \in 0 .. 1
  /\ saved \in [0 .. 1 -> SUBSET Pgid]
  /\ \A i \in 0 .. 1 : Holds(file, i * RegionWords, Sorted(saved[i]))
  /\ \A w \in Words : w > 2 * RegionWords => file[w] = DataWord

PageInv ==
  /\ HmapInv
  /\ pending \subseteq Pgid
  /\ pending \cap (freeIds \cup todo) = {}
  /\ FileInv

\* The sizes, in words.
LEMMA Sizes ==
  /\ PageWords \in Nat /\ 2 < PageWords /\ RegionPages \in Nat \ {0} /\ MaxCount \in Nat \ {0}
  /\ RegionWords \in Nat /\ PageWords <= RegionWords
<1>1. PageWords \in Nat /\ 2 < PageWords /\ RegionPages \in Nat \ {0} /\ MaxCount \in Nat \ {0}
  BY FreelistPageAssumption
<1>2. RegionWords \in Nat /\ PageWords <= RegionWords
  BY <1>1 DEF RegionWords
<1> QED
  BY <1>1, <1>2

\* The two regions are side by side at the beginning.
LEMMA RegionAt ==
  /\ Offset(regionPage(0)) = 0 * RegionWords
  /\ Offset(regionPage(1)) = 1 * RegionWords
  /\ regionPage(0) \in Nat /\ regionPage(1) \in Nat
  /\ regionPage(2) = regionPage(0)
<1>1. PageWords \in Nat /\ RegionPages \in Nat
  BY Sizes
<1>2. 0 % 2 = 0 /\ 1 % 2 = 1 /\ 2 % 2 = 0
  OBVIOUS
<1>3. regionPage(0) = 2 /\ regionPage(1) = 2 + RegionPages /\ regionPage(2) = 2
  BY <1>1, <1>2 DEF regionPage
<1>4. Offset(2) = 0 * RegionWords
  BY <1>1 DEF Offset, RegionWords
<1>5. Offset(2 + RegionPages) = 1 * RegionWords
  BY <1>1 DEF Offset, RegionWords
<1> QED
  BY <1>1, <1>3, <1>4, <1>5

\* The pages that commitFreelist takes are enough for the list, and, when its
\* assertion holds, stay within the region.
LEMMA PagesFit ==
  ASSUME NEW n \in Nat, size(n) < RegionWords - PageWords
  PROVE  /\ pageCountFor(n) * PageWords \in Nat
         /\ size(n) <= pageCountFor(n) * PageWords
         /\ pageCountFor(n) * PageWords <= RegionWords
<1>1. size(n) \in Nat
  BY Sizes DEF size, headerWords
<1> DEFINE s == size(n)
           q == s \div PageWords
<1>2. PageWords \in Nat \ {0} /\ RegionWords \in Nat
  BY Sizes
<1>3. q \in Nat /\ q * PageWords <= s /\ s < (q + 1) * PageWords
  BY <1>1, <1>2
<1>4. (q + 1) * PageWords = q * PageWords + PageWords
  BY <1>2, <1>3
<1>5. pageCountFor(n) = IF s < PageWords THEN 1 ELSE q + 1
  BY DEF pageCountFor
<1> DEFINE t == q * PageWords
<1>6. t \in Nat
  BY <1>2, <1>3
<1> HIDE DEF s, q, t
<1>7. /\ 1 * PageWords = PageWords
      /\ (q + 1) * PageWords = t + PageWords /\ t <= s /\ s < t + PageWords /\ s \in Nat
      /\ s < RegionWords - PageWords
  BY <1>1, <1>2, <1>3, <1>4 DEF t, s
<1>8. /\ pageCountFor(n) * PageWords = (IF s < PageWords THEN PageWords ELSE t + PageWords)
  BY <1>5, <1>7
<1>9. s <= (IF s < PageWords THEN PageWords ELSE t + PageWords)
      /\ (IF s < PageWords THEN PageWords ELSE t + PageWords) <= RegionWords
      /\ (IF s < PageWords THEN PageWords ELSE t + PageWords) \in Nat
  BY <1>2, <1>6, <1>7
<1> QED
  BY <1>8, <1>9 DEF s

\* freelist.read of a region that holds a list.
LEMMA ReadIs ==
  ASSUME NEW words \in [Words -> Int], NEW i \in 0 .. 1, NEW ids \in Seq(Int),
         Holds(words, i * RegionWords, ids)
  PROVE  readPage(words, regionPage(i)) = ids
<1> DEFINE base == i * RegionWords
           n == Len(ids)
           N == 2 * RegionWords + PageWords
           k == First(n)
           a == base + k + 1
           b == base + k + n
<1>1. base \in Nat /\ base <= RegionWords /\ Offset(regionPage(i)) = base
  <2>1. i = 0 \/ i = 1
    OBVIOUS
  <2> QED
    BY <2>1, RegionAt, Sizes
<1>2. n \in Nat /\ RegionWords \in Nat /\ PageWords \in Nat /\ N \in Nat /\ 2 < PageWords
        /\ MaxCount \in Nat \ {0}
  BY Sizes
<1> HIDE DEF base, n, N
<1>3. /\ words[base + 2] = IF n >= MaxCount THEN MaxCount ELSE n
      /\ n >= MaxCount => words[base + headerWords + 1] = n
      /\ \A j \in 1 .. n : words[base + k + j] = ids[j]
      /\ size(n) <= RegionWords
  BY DEF Holds, base, n
<1>4. k \in Nat /\ k + n <= RegionWords /\ k = (IF n >= MaxCount THEN 3 ELSE 2)
  BY <1>2, <1>3 DEF First, size, headerWords
<1>5. readPage(words, regionPage(i)) = SubSeq(words, a, b)
  <2>1. pageCount(words, regionPage(i)) = words[base + 2]
    BY <1>1 DEF pageCount
  <2>2. CASE n >= MaxCount
    <3>1. words[base + 2] = MaxCount /\ words[base + headerWords + 1] = n /\ k = 3
      BY <1>3, <1>4, <2>2
    <3>2. base + headerWords + 1 + 1 = a /\ base + headerWords + 1 + n = b
      BY <1>1, <1>2, <3>1 DEF headerWords
    <3> QED
      BY <1>1, <2>1, <3>1, <3>2, Zenon DEF readPage
  <2>3. CASE ~(n >= MaxCount)
    <3>1. words[base + 2] = n /\ n # MaxCount /\ k = 2
      BY <1>2, <1>3, <1>4, <2>3
    <3>2. base + headerWords + 1 = a /\ base + headerWords + 1 + n - 1 = b
      BY <1>1, <1>2, <3>1 DEF headerWords
    <3> QED
      BY <1>1, <2>1, <3>1, <3>2, Zenon DEF readPage
  <2> QED
    BY <2>2, <2>3
<1>6. words \in Seq(Int) /\ Len(words) = N
  <2>1. words \in [1 .. N -> Int]
    BY DEF Words, N
  <2> QED
    BY <1>2, <2>1, ListOf
<1>7. a \in Nat \ {0} /\ b \in Nat /\ a <= b + 1 /\ b <= N /\ b - a + 1 = n
  <2>1. N = 2 * RegionWords + PageWords
    BY DEF N
  <2> QED
    BY <1>1, <1>2, <1>4, <2>1
<1> HIDE DEF a, b, k
<1> DEFINE u == SubSeq(words, a, b)
<1>8. u \in Seq(Int) /\ Len(u) = n /\ \A j \in 1 .. n : u[j] = words[a + j - 1]
  <2>1. /\ u \in Seq(Int)
        /\ Len(u) = b - a + 1
        /\ \A j \in 1 .. Len(u) : u[j] = words[a + j - 1]
        /\ \A x : x \in Range(u) <=> \E j \in a .. b : x = words[j]
        /\ Increasing(words) => Increasing(u)
    BY <1>6, <1>7, SubIs, Zenon
  <2> HIDE DEF u
  <2> QED
    BY <1>7, <2>1
<1>9. \A j \in 1 .. n : u[j] = ids[j]
  <2>1. \A j \in 1 .. n : a + j - 1 = base + k + j
    BY <1>1, <1>4, <1>2 DEF a
  <2> QED
    BY <1>3, <1>8, <2>1, Zenon
<1> HIDE DEF u
<1>10. u = ids
  BY <1>8, <1>9, SameList DEF n
<1> QED
  BY <1>5, <1>10 DEF u

\* freelist.write: the header, the count in one word or two, and the ids.
LEMMA WriteIs ==
  ASSUME NEW id \in Int, NEW ids \in Seq(Int)
  PROVE  LET words == writePage(id, ids)
             n     == Len(ids)
         IN  /\ words \in Seq(Int)
             /\ Len(words) = size(n)
             /\ words[2] = IF n >= MaxCount THEN MaxCount ELSE n
             /\ n >= MaxCount => words[3] = n
             /\ \A j \in 1 .. n : words[First(n) + j] = ids[j]
<1> DEFINE n == Len(ids)
           words == writePage(id, ids)
<1>1. n \in Nat /\ MaxCount \in Nat \ {0}
  BY Sizes
<1>2. CASE n >= MaxCount
  <2> DEFINE s == <<id>>
             t == <<MaxCount, n>>
             v == t \o ids
  <2>1. s \in Seq(Int) /\ Len(s) = 1 /\ t \in Seq(Int) /\ Len(t) = 2 /\ t[1] = MaxCount /\ t[2] = n
    BY <1>1
  <2>2. words = s \o v
    BY <1>1, <1>2, SMTT(60) DEF writePage
  <2> HIDE DEF s, t, words, n
  <2>3. /\ v \in Seq(Int) /\ Len(v) = 2 + n
        /\ v[1] = MaxCount /\ v[2] = n
        /\ \A j \in 1 .. n : v[2 + j] = ids[j]
    <3>1. /\ t \o ids \in Seq(Int)
          /\ Len(t \o ids) = Len(t) + Len(ids)
          /\ \A i \in 1 .. Len(t) : (t \o ids)[i] = t[i]
          /\ \A i \in 1 .. Len(ids) : (t \o ids)[Len(t) + i] = ids[i]
          /\ Range(t \o ids) = Range(t) \cup Range(ids)
      BY <2>1, ConcatIs, Zenon
    <3> HIDE DEF v
    <3>2. /\ v \in Seq(Int) /\ Len(v) = Len(t) + n
          /\ \A i \in 1 .. Len(t) : v[i] = t[i]
          /\ \A i \in 1 .. n : v[Len(t) + i] = ids[i]
      BY <3>1, Zenon DEF n, v
    <3> QED
      BY <2>1, <3>2
  <2> HIDE DEF v
  <2>4. /\ words \in Seq(Int) /\ Len(words) = 1 + Len(v)
        /\ \A j \in 1 .. Len(v) : words[1 + j] = v[j]
    <3>1. /\ s \o v \in Seq(Int)
          /\ Len(s \o v) = Len(s) + Len(v)
          /\ \A i \in 1 .. Len(s) : (s \o v)[i] = s[i]
          /\ \A i \in 1 .. Len(v) : (s \o v)[Len(s) + i] = v[i]
          /\ Range(s \o v) = Range(s) \cup Range(v)
      BY <2>1, <2>3, ConcatIs, Zenon
    <3>2. /\ words \in Seq(Int) /\ Len(words) = Len(s) + Len(v)
          /\ \A i \in 1 .. Len(v) : words[Len(s) + i] = v[i]
      BY <2>2, <3>1, Zenon
    <3> QED
      BY <2>1, <3>2
  <2>5. words[1 + 1] = v[1] /\ words[1 + 2] = v[2]
    <3>1. 1 \in 1 .. Len(v) /\ 2 \in 1 .. Len(v)
      BY <1>1, <2>3
    <3> QED
      BY <2>4, <3>1
  <2>6. \A j \in 1 .. n : words[1 + (2 + j)] = v[2 + j]
    <3>1. \A j \in 1 .. n : 2 + j \in 1 .. Len(v)
      BY <1>1, <2>3
    <3> QED
      BY <2>4, <3>1
  <2>7. Len(words) = size(n)
    BY <1>1, <1>2, <2>3, <2>4 DEF size, headerWords
  <2>8. \A j \in 1 .. n : words[First(n) + j] = ids[j]
    <3>1. \A j \in 1 .. n : First(n) + j = 1 + (2 + j)
      BY <1>2 DEF First, headerWords
    <3> QED
      BY <2>3, <2>6, <3>1, SMTT(60)
  <2>9. words[2] = MaxCount /\ words[3] = n
    BY <2>3, <2>5
  <2> QED
    BY <1>2, <2>4, <2>7, <2>8, <2>9 DEF n, words
<1>3. CASE ~(n >= MaxCount)
  <2> DEFINE s == <<id>>
             t == <<n>>
             v == t \o ids
  <2>1. s \in Seq(Int) /\ Len(s) = 1 /\ t \in Seq(Int) /\ Len(t) = 1 /\ t[1] = n
    BY <1>1
  <2>2. words = s \o v
    BY <1>1, <1>3, SMTT(60) DEF writePage
  <2> HIDE DEF s, t, words, n
  <2>3. /\ v \in Seq(Int) /\ Len(v) = 1 + n
        /\ v[1] = n
        /\ \A j \in 1 .. n : v[1 + j] = ids[j]
    <3>1. /\ t \o ids \in Seq(Int)
          /\ Len(t \o ids) = Len(t) + Len(ids)
          /\ \A i \in 1 .. Len(t) : (t \o ids)[i] = t[i]
          /\ \A i \in 1 .. Len(ids) : (t \o ids)[Len(t) + i] = ids[i]
          /\ Range(t \o ids) = Range(t) \cup Range(ids)
      BY <2>1, ConcatIs, Zenon
    <3> HIDE DEF v
    <3>2. /\ v \in Seq(Int) /\ Len(v) = Len(t) + n
          /\ \A i \in 1 .. Len(t) : v[i] = t[i]
          /\ \A i \in 1 .. n : v[Len(t) + i] = ids[i]
      BY <3>1, Zenon DEF n, v
    <3> QED
      BY <2>1, <3>2
  <2> HIDE DEF v
  <2>4. /\ words \in Seq(Int) /\ Len(words) = 1 + Len(v)
        /\ \A j \in 1 .. Len(v) : words[1 + j] = v[j]
    <3>1. /\ s \o v \in Seq(Int)
          /\ Len(s \o v) = Len(s) + Len(v)
          /\ \A i \in 1 .. Len(s) : (s \o v)[i] = s[i]
          /\ \A i \in 1 .. Len(v) : (s \o v)[Len(s) + i] = v[i]
          /\ Range(s \o v) = Range(s) \cup Range(v)
      BY <2>1, <2>3, ConcatIs, Zenon
    <3>2. /\ words \in Seq(Int) /\ Len(words) = Len(s) + Len(v)
          /\ \A i \in 1 .. Len(v) : words[Len(s) + i] = v[i]
      BY <2>2, <3>1, Zenon
    <3> QED
      BY <2>1, <3>2
  <2>5. words[1 + 1] = v[1]
    <3>1. 1 \in 1 .. Len(v)
      BY <1>1, <2>3
    <3> QED
      BY <2>4, <3>1
  <2>6. \A j \in 1 .. n : words[1 + (1 + j)] = v[1 + j]
    <3>1. \A j \in 1 .. n : 1 + j \in 1 .. Len(v)
      BY <1>1, <2>3
    <3> QED
      BY <2>4, <3>1
  <2>7. Len(words) = size(n)
    BY <1>1, <1>3, <2>3, <2>4 DEF size, headerWords
  <2>8. \A j \in 1 .. n : words[First(n) + j] = ids[j]
    <3>1. \A j \in 1 .. n : First(n) + j = 1 + (1 + j)
      BY <1>3 DEF First, headerWords
    <3> QED
      BY <2>3, <2>6, <3>1
  <2>9. words[2] = n
    BY <2>3, <2>5
  <2> QED
    BY <1>3, <2>4, <2>7, <2>8, <2>9 DEF n, words
<1> QED
  BY <1>2, <1>3

\* The list of a set of ids.
LEMMA ListIs ==
  ASSUME NEW S \in SUBSET Pgid
  PROVE  /\ Sorted(S) \in Seq(Int) /\ Len(Sorted(S)) = Cardinality(S)
         /\ Range(Sorted(S)) = S /\ Cardinality(S) \in Nat
<1>1. Sorted(S) \in Seq(Pgid) /\ Len(Sorted(S)) = Cardinality(S)
        /\ Range(Sorted(S)) = S /\ Cardinality(S) \in Nat
  BY SortedIs
<1>2. Pgid \subseteq Int
  BY FreelistAssumption DEF Pgid
<1>3. Sorted(S) \in Seq(Int)
  <2> DEFINE s == Sorted(S)
  <2> HIDE DEF s
  <2>1. Len(s) \in Nat /\ s \in [1 .. Len(s) -> Pgid]
    BY <1>1 DEF s
  <2>2. s \in [1 .. Len(s) -> Int]
    BY <1>2, <2>1, Zenon
  <2> QED
    BY <2>1, <2>2, ListOf DEF s
<1> QED
  BY <1>1, <1>3

\* What commitFreelist and tx.write make of the file: region i holds the list.
Written(words, i, ids) ==
  LET ws  == writePage(regionPage(i), ids)
      buf == [w \in 1 .. pageCountFor(Len(ids)) * PageWords |->
                IF w <= Len(ws) THEN ws[w] ELSE 0]
  IN  [w \in DOMAIN words |->
         IF w - Offset(regionPage(i)) \in DOMAIN buf
         THEN buf[w - Offset(regionPage(i))] ELSE words[w]]

\* commitFreelist and tx.write: the region that was not selected holds the new
\* list, the other words are as before.
LEMMA CommitHolds ==
  ASSUME NEW words \in [Words -> Int], NEW i \in 0 .. 1, NEW ids \in Seq(Int),
         size(Len(ids)) < RegionWords - PageWords
  PROVE  LET next == Written(words, i, ids)
         IN  /\ next \in [Words -> Int]
             /\ Holds(next, i * RegionWords, ids)
             /\ \A w \in Words : ~(w - i * RegionWords \in 1 .. RegionWords) => next[w] = words[w]
<1> DEFINE next == Written(words, i, ids)
           base == i * RegionWords
           n    == Len(ids)
           ws   == writePage(regionPage(i), ids)
           top  == pageCountFor(n) * PageWords
           buf  == [w \in 1 .. top |-> IF w <= Len(ws) THEN ws[w] ELSE 0]
<1>1. /\ base \in Nat /\ base <= RegionWords /\ Offset(regionPage(i)) = base
      /\ regionPage(i) \in Int
  <2>1. i = 0 \/ i = 1
    OBVIOUS
  <2> QED
    BY <2>1, RegionAt, Sizes
<1>2. n \in Nat /\ RegionWords \in Nat /\ PageWords \in Nat /\ 2 < PageWords /\ MaxCount \in Nat \ {0}
  BY Sizes
<1>3. top \in Nat /\ size(n) <= top /\ top <= RegionWords
  BY <1>2, PagesFit
<1>4. /\ ws \in Seq(Int)
      /\ Len(ws) = size(n)
      /\ ws[2] = IF n >= MaxCount THEN MaxCount ELSE n
      /\ n >= MaxCount => ws[3] = n
      /\ \A j \in 1 .. n : ws[First(n) + j] = ids[j]
  BY <1>1, WriteIs, Zenon
<1>5. next = [w \in Words |-> IF w - base \in 1 .. top THEN buf[w - base] ELSE words[w]]
  <2>1. DOMAIN words = Words /\ DOMAIN buf = 1 .. top
    OBVIOUS
  <2> HIDE DEF base
  <2> QED
    BY <1>1, <2>1 DEF Written
<1>6. /\ size(n) \in Nat /\ 2 <= size(n) /\ (n >= MaxCount => 3 <= size(n))
      /\ \A j \in 1 .. n : First(n) + j \in 1 .. size(n) /\ First(n) \in Nat
  BY <1>2 DEF size, First, headerWords
<1> HIDE DEF next, base, n, ws, top
<1>7. \A w \in 1 .. size(n) : w \in 1 .. top /\ buf[w] = ws[w] /\ base + w \in Words /\ (base + w) - base = w
  <2> SUFFICES ASSUME NEW w \in 1 .. size(n)
               PROVE  w \in 1 .. top /\ buf[w] = ws[w] /\ base + w \in Words /\ (base + w) - base = w
    BY Zenon
  <2>1. w \in 1 .. top /\ w <= Len(ws) /\ (base + w) - base = w
    BY <1>1, <1>3, <1>4, <1>6
  <2>2. base + w \in Words
    BY <1>1, <1>2, <1>3, <1>6 DEF Words
  <2> QED
    BY <2>1, <2>2
<1>8. \A w \in 1 .. top : buf[w] \in Int
  BY <1>3, <1>4
<1> HIDE DEF buf
<1>9. \A w \in 1 .. size(n) : next[base + w] = ws[w]
  BY <1>5, <1>7
<1>10. next \in [Words -> Int]
  BY <1>5, <1>8
<1>11. \A w \in Words : ~(w - base \in 1 .. RegionWords) => next[w] = words[w]
  <2>1. \A w \in Words : w - base \in 1 .. top => w - base \in 1 .. RegionWords
    BY <1>2, <1>3
  <2> QED
    BY <1>5, <2>1
<1>12. Holds(next, base, ids)
  <2>1. size(n) <= RegionWords
    BY <1>2, <1>3, <1>6
  <2>2. next[base + 2] = IF n >= MaxCount THEN MaxCount ELSE n
    <3>1. 2 \in 1 .. size(n)
      BY <1>6
    <3> QED
      BY <1>4, <1>9, <3>1
  <2>3. n >= MaxCount => next[base + headerWords + 1] = n
    <3> SUFFICES ASSUME n >= MaxCount PROVE next[base + headerWords + 1] = n
      OBVIOUS
    <3>1. 3 \in 1 .. size(n) /\ base + headerWords + 1 = base + 3
      BY <1>1, <1>6 DEF headerWords
    <3> QED
      BY <1>4, <1>9, <3>1
  <2>4. \A j \in 1 .. n : next[base + First(n) + j] = ids[j]
    <3> SUFFICES ASSUME NEW j \in 1 .. n PROVE next[base + First(n) + j] = ids[j]
      OBVIOUS
    <3>1. First(n) + j \in 1 .. size(n) /\ First(n) \in Nat
      BY <1>6
    <3>2. base + First(n) + j = base + (First(n) + j)
      BY <1>1, <1>2, <3>1, SMTT(60)
    <3> QED
      BY <1>4, <1>9, <3>1, <3>2, Zenon
  <2> QED
    BY <2>1, <2>2, <2>3, <2>4 DEF Holds, n
<1> QED
  BY <1>10, <1>11, <1>12 DEF base, next

\* What holds of a region depends on its words only.
LEMMA HoldsSame ==
  ASSUME NEW words, NEW next, NEW o \in 0 .. 1, NEW ids \in Seq(Int),
         Holds(words, o * RegionWords, ids),
         \A w \in Words : w - o * RegionWords \in 1 .. RegionWords => next[w] = words[w]
  PROVE  Holds(next, o * RegionWords, ids)
<1> DEFINE base == o * RegionWords
           n    == Len(ids)
<1>1. base \in Nat /\ base <= RegionWords /\ n \in Nat
  <2>1. o = 0 \/ o = 1
    OBVIOUS
  <2> QED
    BY <2>1, Sizes
<1>2. RegionWords \in Nat /\ PageWords \in Nat /\ 2 < PageWords /\ MaxCount \in Nat \ {0}
        /\ PageWords <= RegionWords
  BY Sizes
<1>3. \A w \in Words : w - base \in 1 .. RegionWords => next[w] = words[w]
  OBVIOUS
<1> HIDE DEF base, n
<1>4. \A w \in 1 .. RegionWords : base + w \in Words /\ (base + w) - base = w
  BY <1>1, <1>2 DEF Words
<1>5. \A w \in 1 .. RegionWords : next[base + w] = words[base + w]
  BY <1>3, <1>4
<1>6. /\ size(n) <= RegionWords
      /\ words[base + 2] = IF n >= MaxCount THEN MaxCount ELSE n
      /\ n >= MaxCount => words[base + headerWords + 1] = n
      /\ \A j \in 1 .. n : words[base + First(n) + j] = ids[j]
  BY DEF Holds, base, n
<1>7. 2 \in 1 .. RegionWords /\ 3 \in 1 .. RegionWords /\ base + headerWords + 1 = base + 3
  BY <1>1, <1>2 DEF headerWords
<1>8. \A j \in 1 .. n : First(n) + j \in 1 .. RegionWords /\ base + First(n) + j = base + (First(n) + j)
  BY <1>1, <1>2, <1>6 DEF size, First, headerWords
<1>9. next[base + 2] = words[base + 2] /\ next[base + headerWords + 1] = words[base + headerWords + 1]
  BY <1>5, <1>7
<1>10. \A j \in 1 .. n : next[base + First(n) + j] = ids[j]
  BY <1>5, <1>6, <1>8
<1> QED
  BY <1>6, <1>9, <1>10 DEF Holds, base, n

\* Two disjoint sets of ids.
LEMMA CountIs ==
  ASSUME NEW f \in SUBSET Pgid, NEW p \in SUBSET Pgid, f \cap p = {}
  PROVE  Cardinality(f) + Cardinality(p) = Cardinality(f \cup p)
<1>1. IsFiniteSet(f) /\ IsFiniteSet(p) /\ Cardinality(f) \in Nat /\ Cardinality(p) \in Nat
  BY SortedIs
<1>2. Cardinality(f \cup p) = Cardinality(f) + Cardinality(p) - Cardinality(f \cap p)
  BY <1>1, FS_Union
<1>3. Cardinality(f \cap p) = 0
  BY FS_EmptySet
<1> QED
  BY <1>1, <1>2, <1>3

\* db.init.
LEMMA PageInit == Init => PageInv
<1> SUFFICES ASSUME Init PROVE PageInv
  OBVIOUS
<1>1. Maps = NoSpans /\ todo = {} /\ pending = {} /\ flid = 0 /\ saved = [i \in 0 .. 1 |-> {}]
  BY DEF Init, InitMaps, Maps, NoSpans
<1>2. HmapInv /\ freeIds = {}
  BY <1>1, NoSpansOK DEF HmapInv, freeIds
<1>3. RegionWords \in Nat /\ PageWords \in Nat /\ 2 < PageWords /\ MaxCount \in Nat \ {0}
        /\ PageWords <= RegionWords
  BY Sizes
<1>4. /\ Offset(regionPage(0)) = 0 /\ Offset(regionPage(1)) = RegionWords
      /\ regionPage(0) \in Int /\ regionPage(1) \in Int
      /\ 0 * RegionWords = 0 /\ 1 * RegionWords = RegionWords
  BY <1>3, RegionAt
<1>5. file = [w \in Words |-> IF w > 2 * RegionWords THEN DataWord
                               ELSE IF w = 0 + 1 THEN regionPage(0)
                               ELSE IF w = RegionWords + 1 THEN regionPage(1)
                               ELSE 0]
  BY <1>4 DEF Init, Words
<1>6. file \in [Words -> Int] /\ \A w \in Words : w > 2 * RegionWords => file[w] = DataWord
  <2>1. DataWord \in Int
    BY DEF DataWord
  <2> QED
    BY <1>4, <1>5, <2>1
<1>7. Sorted({}) = <<>>
  <2>1. Sorted({}) \in Seq(Int) /\ Len(Sorted({})) = 0
    BY ListIs, FS_EmptySet
  <2> QED
    BY <2>1
<1>8. \A i \in 0 .. 1 : file[i * RegionWords + 2] = 0
  <2>1. \A b \in {0, RegionWords} : /\ b + 2 \in Words /\ ~(b + 2 > 2 * RegionWords)
                                    /\ b + 2 # 0 + 1 /\ b + 2 # RegionWords + 1
    BY <1>3 DEF Words
  <2>2. \A b \in {0, RegionWords} : file[b + 2] = 0
    BY <1>5, <2>1
  <2>3. \A i \in 0 .. 1 : i * RegionWords \in {0, RegionWords}
    BY <1>4
  <2> QED
    BY <2>2, <2>3
<1>9. \A i \in 0 .. 1 : Holds(file, i * RegionWords, Sorted(saved[i]))
  <2> SUFFICES ASSUME NEW i \in 0 .. 1 PROVE Holds(file, i * RegionWords, <<>>)
    BY <1>1, <1>7
  <2>1. Len(<<>>) = 0 /\ ~(0 >= MaxCount) /\ size(0) <= RegionWords
    BY <1>3 DEF size, headerWords
  <2> QED
    BY <1>8, <2>1 DEF Holds
<1> QED
  BY <1>1, <1>2, <1>6, <1>9 DEF PageInv, FileInv

\* commitFreelist keeps the invariant.
LEMMA CommitOK ==
  ASSUME PageInv, CommitFreelist
  PROVE  FileInv' /\ saved'[flid'] = freeIds \cup pending
<1> DEFINE u   == freeIds \cup pending
           n   == Cardinality(freeIds) + Cardinality(pending)
           i   == (flid + 1) % 2
           ids == Sorted(u)
<1>1. /\ freeIds \in SUBSET Pgid /\ pending \in SUBSET Pgid /\ freeIds \cap pending = {}
      /\ file \in [Words -> Int] /\ flid \in 0 .. 1 /\ saved \in [0 .. 1 -> SUBSET Pgid]
      /\ \A o \in 0 .. 1 : Holds(file, o * RegionWords, Sorted(saved[o]))
      /\ \A w \in Words : w > 2 * RegionWords => file[w] = DataWord
  BY DEF PageInv, FileInv, HmapInv, freeIds
<1>2. i \in 0 .. 1 /\ regionPage(flid + 1) = regionPage(i)
  <2>1. CASE flid = 0
    <3>1. i = 1 /\ flid + 1 = 1
      BY <2>1
    <3> QED
      BY <3>1
  <2>2. CASE flid = 1
    <3>1. i = 0 /\ flid + 1 = 2
      BY <2>2
    <3> QED
      BY <3>1, RegionAt
  <2> QED
    BY <1>1, <2>1, <2>2
<1>3. ids \in Seq(Int) /\ Len(ids) = n /\ copyPgids(freeIds, pending) = ids
  <2>1. u \in SUBSET Pgid
    BY <1>1
  <2>2. ids \in Seq(Int) /\ Len(ids) = Cardinality(u)
    BY <2>1, ListIs
  <2>3. n = Cardinality(u)
    BY <1>1, CountIs
  <2>4. copyPgids(freeIds, pending) = ids
    BY <1>1, CopyIs
  <2> QED
    BY <2>2, <2>3, <2>4
<1>4. /\ size(n) < RegionWords - PageWords
      /\ flid' = i /\ saved' = [saved EXCEPT ![flid'] = u]
      /\ file' = LET words == writePage(regionPage(flid + 1), copyPgids(freeIds, pending))
                     buf   == [w \in 1 .. pageCountFor(n) * PageWords |->
                                 IF w <= Len(words) THEN words[w] ELSE 0]
                 IN  [w \in DOMAIN file |->
                        IF w - Offset(regionPage(flid + 1)) \in DOMAIN buf
                        THEN buf[w - Offset(regionPage(flid + 1))] ELSE file[w]]
  BY DEF CommitFreelist
<1> HIDE DEF i, n, ids, u
<1>5. file' = Written(file, i, ids)
  BY <1>2, <1>3, <1>4, Zenon DEF Written
<1>6. /\ file' \in [Words -> Int]
      /\ Holds(file', i * RegionWords, ids)
      /\ \A w \in Words : ~(w - i * RegionWords \in 1 .. RegionWords) => file'[w] = file[w]
  <2>1. size(Len(ids)) < RegionWords - PageWords
    BY <1>3, <1>4
  <2> QED
    BY <1>1, <1>2, <1>3, <1>5, <2>1, CommitHolds, SMTT(60)
<1>7. saved' \in [0 .. 1 -> SUBSET Pgid] /\ saved'[i] = u /\ \A o \in 0 .. 1 : o # i => saved'[o] = saved[o]
  BY <1>1, <1>2, <1>4 DEF u
<1>8. RegionWords \in Nat /\ PageWords \in Nat
  BY Sizes
<1>9. ASSUME NEW o \in 0 .. 1 PROVE Holds(file', o * RegionWords, Sorted(saved'[o]))
  <2>1. CASE o = i
    BY <1>6, <1>7, <2>1 DEF ids
  <2>2. CASE o # i
    <3>1. o * RegionWords = (IF o = 0 THEN 0 ELSE RegionWords)
            /\ i * RegionWords = (IF o = 0 THEN RegionWords ELSE 0)
      <4>1. (o = 0 /\ i = 1) \/ (o = 1 /\ i = 0)
        BY <1>2, <2>2
      <4> QED
        BY <1>8, <4>1
    <3>2. \A w \in Words : w - o * RegionWords \in 1 .. RegionWords
                             => ~(w - i * RegionWords \in 1 .. RegionWords)
      BY <1>8, <3>1 DEF Words
    <3>3. \A w \in Words : w - o * RegionWords \in 1 .. RegionWords => file'[w] = file[w]
      BY <1>6, <3>2, Zenon
    <3>4. Sorted(saved[o]) \in Seq(Int) /\ saved'[o] = saved[o]
      BY <1>1, <1>7, <2>2, ListIs
    <3> QED
      BY <1>1, <3>3, <3>4, HoldsSame, Zenon
  <2> QED
    BY <2>1, <2>2
<1>10. \A w \in Words : w > 2 * RegionWords => file'[w] = DataWord
  <2>1. i * RegionWords = 0 \/ i * RegionWords = RegionWords
    BY <1>2, <1>8
  <2>2. \A w \in Words : w > 2 * RegionWords => ~(w - i * RegionWords \in 1 .. RegionWords)
    BY <1>8, <2>1 DEF Words
  <2> QED
    BY <1>1, <1>6, <2>2, Zenon
<1> QED
  BY <1>2, <1>4, <1>6, <1>7, <1>9, <1>10, SMTT(60) DEF FileInv, u

\* What a region reads back as.
LEMMA ReadBack ==
  ASSUME PageInv
  PROVE  /\ \A i \in 0 .. 1 : readPage(file, regionPage(i)) = Sorted(saved[i])
         /\ Range(readPage(file, regionPage(flid))) = saved[flid]
         /\ flid \in 0 .. 1 /\ saved[flid] \in SUBSET Pgid
<1>1. /\ file \in [Words -> Int] /\ flid \in 0 .. 1 /\ saved \in [0 .. 1 -> SUBSET Pgid]
      /\ \A o \in 0 .. 1 : Holds(file, o * RegionWords, Sorted(saved[o]))
  BY DEF PageInv, FileInv
<1>2. ASSUME NEW i \in 0 .. 1 PROVE readPage(file, regionPage(i)) = Sorted(saved[i])
  <2>1. Sorted(saved[i]) \in Seq(Int)
    BY <1>1, ListIs
  <2> QED
    BY <1>1, <2>1, ReadIs
<1>3. saved[flid] \in SUBSET Pgid
  BY <1>1
<1>4. Range(Sorted(saved[flid])) = saved[flid]
  BY <1>3, ListIs
<1> QED
  BY <1>1, <1>2, <1>3, <1>4

\* Every action keeps the invariant.
LEMMA PageStep == PageInv /\ [Next]_vars => PageInv'
<1> SUFFICES ASSUME PageInv, [Next]_vars PROVE PageInv'
  OBVIOUS
<1>1. /\ HmapInv /\ pending \subseteq Pgid /\ pending \cap (freeIds \cup todo) = {} /\ FileInv
      /\ freeIds = FreeIDs(Maps) /\ freeIds \subseteq Pgid /\ todo \subseteq Pgid
      /\ freeIds' = FreeIDs(Maps')
  BY DEF PageInv, HmapInv, freeIds
<1>2. ASSUME [HmapNext]_hvars, UNCHANGED <<file, flid, saved>>,
             pending' \subseteq Pgid, pending' \cap (freeIds' \cup todo') = {}
      PROVE  PageInv'
  <2>1. HmapInv'
    BY <1>1, <1>2, HmapStep
  <2>2. FileInv'
    BY <1>1, <1>2 DEF FileInv
  <2> QED
    BY <1>2, <2>1, <2>2 DEF PageInv
<1>3. ASSUME NEW id \in Pgid, Free(id) PROVE PageInv'
  <2>1. UNCHANGED <<hvars, file, flid, saved>> /\ pending' = pending \cup {id}
          /\ id \notin freeIds \cup pending /\ todo = {}
    BY <1>3 DEF Free
  <2>2. freeIds' = freeIds /\ todo' = todo
    BY <2>1 DEF hvars, freeIds, Maps
  <2> QED
    BY <1>1, <1>2, <2>1, <2>2
<1>4. ASSUME NEW ids \in (SUBSET pending) \ {{}}, Release(ids) PROVE PageInv'
  <2>1. MergeSpans(ids) /\ pending' = pending \ ids /\ UNCHANGED <<file, flid, saved>>
    BY <1>4 DEF Release
  <2>2. HmapNext
    <3>1. ids \in SUBSET (Pgid \ FreeIDs(Maps))
      BY <1>1
    <3> QED
      BY <2>1, <3>1 DEF HmapNext
  <2>3. freeIds' = freeIds /\ todo' = ids
    BY <2>1 DEF MergeSpans, maps, freeIds, Maps
  <2> QED
    BY <1>1, <1>2, <2>1, <2>2, <2>3
<1>5. ASSUME NEW id \in todo, MergeNext(id), UNCHANGED <<pending, file, flid, saved>>
      PROVE  PageInv'
  <2>1. freeIds' = freeIds \cup {id} /\ todo' = todo \ {id}
    BY <1>1, <1>5, MergeNextIs
  <2>2. HmapNext
    BY <1>5 DEF HmapNext
  <2> QED
    BY <1>1, <1>2, <1>5, <2>1, <2>2, SMTT(60)
<1>6. ASSUME NEW n \in 1 .. Cardinality(Pgid), Allocate(n), UNCHANGED <<pending, file, flid, saved>>
      PROVE  PageInv'
  <2>1. freeIds' \subseteq freeIds /\ todo' = todo
    BY <1>1, <1>6, AllocateIs
  <2>2. HmapNext
    BY <1>6 DEF HmapNext
  <2> QED
    BY <1>1, <1>2, <1>6, <2>1, <2>2, SMTT(60)
<1>7. ASSUME CommitFreelist PROVE PageInv'
  <2>1. UNCHANGED <<hvars, pending>>
    BY <1>7 DEF CommitFreelist
  <2>2. HmapInv'
    BY <1>1, <2>1, HmapStep
  <2>3. freeIds' = freeIds /\ todo' = todo
    BY <2>1 DEF hvars, freeIds, Maps
  <2> QED
    BY <1>1, <1>7, <2>1, <2>2, <2>3, CommitOK, SMTT(60) DEF PageInv
<1>8. ASSUME Open PROVE PageInv'
  <2>1. ReadIDs(Range(readPage(file, regionPage(flid)))) /\ pending' = {}
          /\ UNCHANGED <<file, flid, saved>>
    BY <1>8 DEF Open
  <2>2. Range(readPage(file, regionPage(flid))) \in SUBSET Pgid
    BY ReadBack
  <2>3. HmapNext
    BY <2>1, <2>2 DEF HmapNext
  <2> QED
    BY <1>2, <2>1, <2>3
<1>9. CASE UNCHANGED vars
  <2>1. UNCHANGED <<hvars, pending, file, flid, saved>>
    BY <1>9 DEF vars
  <2>2. freeIds' = freeIds /\ todo' = todo
    BY <2>1 DEF hvars, freeIds, Maps
  <2> QED
    BY <1>1, <1>2, <2>1, <2>2
<1> QED
  BY <1>3, <1>4, <1>5, <1>6, <1>7, <1>8, <1>9, Zenon DEF Next

\* Every region reads back as what was free or pending when it was written, and
\* writing one changes neither the other nor the page behind them, for every
\* size of page and region, every number of ids and every count at which the
\* encoding changes.
THEOREM FreelistReadsBack == Spec => []RegionsReadBack
<1>1. ASSUME PageInv PROVE RegionsReadBack
  <2>1. DOMAIN file = Words /\ \A w \in Words : w > 2 * RegionWords => file[w] = DataWord
    BY <1>1 DEF PageInv, FileInv
  <2> QED
    BY <1>1, <2>1, ReadBack DEF RegionsReadBack
<1> QED
  BY <1>1, PageInit, PageStep, PTL DEF Spec

\* The abstract specification's definitions are those of Freelist.
LEMMA SameRun ==
  ASSUME NEW s, NEW n, NEW ids
  PROVE  /\ Abstract!Run(s, n) = Run(s, n)
         /\ Abstract!Candidates(ids, n) = Candidates(ids, n)
         /\ Abstract!Pgid = Pgid
         /\ Abstract!readIDs(Abstract!newFreelist, ids).free = ids
<1>1. \A t, k : Abstract!Run(t, k) = Run(t, k)
  BY DEF Run, Abstract!Run
<1>2. Abstract!Candidates(ids, n) = Candidates(ids, n)
  BY <1>1, Zenon DEF Candidates, Abstract!Candidates
<1>3. Abstract!Pgid = Pgid
  BY DEF Pgid, Abstract!Pgid
<1>4. Abstract!readIDs(Abstract!newFreelist, ids).free = ids
  BY DEF Abstract!readIDs, Abstract!newFreelist
<1> QED
  BY <1>1, <1>2, <1>3, <1>4

\* The maps and the pages they are written to implement a set of ids: every
\* step of theirs is an allocation, a free, a release, a save or a read of the
\* set, or changes nothing of it.
THEOREM FreelistIsSet ==
  ASSUME FreelistType = "hashmap"
  PROVE  Spec => ImplementsFreeSet
<1> DEFINE listed == Range(readPage(file, regionPage(flid)))
           waiting == pending \cup todo
<1>1. ASSUME Init PROVE Abstract!Init
  <2>1. PageInv
    BY <1>1, PageInit
  <2>2. listed = saved[flid] /\ flid = 0 /\ saved = [i \in 0 .. 1 |-> {}]
    BY <1>1, <2>1, ReadBack DEF Init
  <2>3. freeIds = {} /\ pending = {} /\ todo = {}
    <3>1. Maps = NoSpans
      BY <1>1 DEF Init, InitMaps, Maps, NoSpans
    <3> QED
      BY <1>1, <3>1, NoSpansOK, SMTT(60) DEF Init, InitMaps, freeIds
  <2> QED
    BY <2>2, <2>3 DEF Abstract!Init
<1>2. ASSUME PageInv, PageInv', [Next]_vars
      PROVE  [Abstract!Next]_<<freeIds, waiting, listed>>
  <2>1. /\ HmapInv /\ pending \subseteq Pgid /\ pending \cap (freeIds \cup todo) = {}
        /\ freeIds = FreeIDs(Maps) /\ freeIds' = FreeIDs(Maps')
    BY <1>2 DEF PageInv, freeIds
  <2>2. ASSUME UNCHANGED <<file, flid>> PROVE listed' = listed
    BY <2>2
  <2>3. ASSUME NEW id \in Pgid, Free(id) PROVE Abstract!Free(id)
    <3>1. /\ UNCHANGED <<hvars, file, flid, saved>> /\ pending' = pending \cup {id}
          /\ id \notin freeIds \cup pending /\ todo = {}
      BY <2>3 DEF Free
    <3>2. freeIds' = freeIds /\ todo' = todo
      BY <3>1 DEF hvars, freeIds, Maps
    <3>3. listed' = listed
      BY <2>2, <3>1
    <3> HIDE DEF listed
    <3> QED
      BY <3>1, <3>2, <3>3 DEF Abstract!Free, listed
  <2>4. ASSUME NEW ids \in (SUBSET pending) \ {{}}, Release(ids)
        PROVE  UNCHANGED <<freeIds, waiting, listed>>
    <3>1. /\ todo = {} /\ todo' = ids /\ UNCHANGED maps /\ pending' = pending \ ids
          /\ UNCHANGED <<file, flid, saved>>
      BY <2>4 DEF Release, MergeSpans
    <3>2. freeIds' = freeIds
      BY <3>1 DEF maps, freeIds, Maps
    <3>3. listed' = listed
      BY <2>2, <3>1
    <3> HIDE DEF listed
    <3>4. waiting' = waiting
      BY <3>1
    <3> QED
      BY <3>2, <3>3, <3>4
  <2>5. ASSUME NEW id \in todo, MergeNext(id), UNCHANGED <<pending, file, flid, saved>>
        PROVE  Abstract!Release(id)
    <3>1. freeIds' = freeIds \cup {id} /\ todo' = todo \ {id}
      BY <2>1, <2>5, MergeNextIs
    <3>2. listed' = listed
      BY <2>2, <2>5
    <3> HIDE DEF listed
    <3>3. waiting' = waiting \ {id}
      BY <2>1, <2>5, <3>1
    <3> HIDE DEF waiting
    <3> QED
      BY <3>1, <3>2, <3>3 DEF Abstract!Release, listed, waiting
  <2>6. ASSUME NEW n \in 1 .. Cardinality(Pgid), Allocate(n),
               UNCHANGED <<pending, file, flid, saved>>
        PROVE  Abstract!Allocate(n)
    <3>1. PICK span \in Spans(Maps, n) : freeIds' = freeIds \ Run(span.start, n)
      BY <2>1, <2>6, AllocateIs
    <3>2. span.start \in Candidates(freeIds, n)
      <4>1. n \in Nat \ {0} /\ SpansOK(Maps)
        BY <2>1, PgidCard DEF HmapInv
      <4>2. {s.start : s \in Spans(Maps, n)} = Candidates(freeIds, n)
        BY <2>1, <4>1, SpansAre
      <4> QED
        BY <4>2
    <3>3. todo' = todo
      BY <2>1, <2>6, AllocateIs
    <3>4. listed' = listed
      BY <2>2, <2>6, SMTT(60)
    <3>5. span.start \in Abstract!Candidates(freeIds, n)
            /\ freeIds' = freeIds \ Abstract!Run(span.start, n)
      BY <3>1, <3>2, SameRun, SMTT(60)
    <3> HIDE DEF listed
    <3>6. UNCHANGED <<waiting, listed>>
      BY <2>6, <3>3, <3>4
    <3> HIDE DEF waiting
    <3> QED
      BY <3>5, <3>6 DEF Abstract!Allocate, listed, waiting
  <2>7. ASSUME CommitFreelist PROVE Abstract!Save
    <3>1. UNCHANGED <<hvars, pending>> /\ todo = {}
      BY <2>7 DEF CommitFreelist
    <3>2. freeIds' = freeIds /\ todo' = todo
      BY <3>1 DEF hvars, freeIds, Maps
    <3>3. saved'[flid'] = freeIds \cup pending
      BY <1>2, <2>7, CommitOK
    <3>4. listed' = saved'[flid']
      <4>1. /\ file' \in [Words -> Int] /\ flid' \in 0 .. 1 /\ saved' \in [0 .. 1 -> SUBSET Pgid]
            /\ Holds(file', flid' * RegionWords, Sorted(saved'[flid']))
        BY <1>2 DEF PageInv, FileInv
      <4>2. saved'[flid'] \in SUBSET Pgid
        BY <4>1
      <4>3. Sorted(saved'[flid']) \in Seq(Int) /\ Range(Sorted(saved'[flid'])) = saved'[flid']
        BY <4>2, ListIs, SMTT(60)
      <4>4. readPage(file', regionPage(flid')) = Sorted(saved'[flid'])
        BY <4>1, <4>3, ReadIs, SMTT(60)
      <4> QED
        BY <4>3, <4>4
    <3> HIDE DEF listed
    <3>5. listed' = freeIds \cup waiting /\ waiting' = waiting
      BY <3>1, <3>2, <3>3, <3>4, SMTT(60)
    <3> HIDE DEF waiting
    <3> QED
      BY <3>2, <3>5 DEF Abstract!Save, listed, waiting
  <2>8. ASSUME Open PROVE Abstract!Read
    <3>1. ReadIDs(listed) /\ pending' = {} /\ UNCHANGED <<file, flid, saved>>
      BY <2>8 DEF Open
    <3>2. listed \in SUBSET Pgid
      BY <1>2, ReadBack
    <3>3. listed' = listed
      BY <2>2, <3>1
    <3> HIDE DEF listed
    <3>4. freeIds' = listed /\ todo' = {}
      BY <2>1, <3>1, <3>2, ReadIDsIs
    <3>5. freeIds' = Abstract!readIDs(Abstract!newFreelist, listed).free
      BY <3>4, SameRun
    <3>6. waiting' = {}
      BY <3>1, <3>4
    <3> HIDE DEF waiting
    <3> QED
      BY <3>3, <3>5, <3>6 DEF Abstract!Read, listed, waiting
  <2>9. CASE UNCHANGED vars
    <3>1. UNCHANGED <<hvars, pending, file, flid>>
      BY <2>9 DEF vars
    <3>2. freeIds' = freeIds /\ todo' = todo
      BY <3>1 DEF hvars, freeIds, Maps
    <3>3. listed' = listed
      BY <2>2, <3>1
    <3> HIDE DEF listed
    <3> QED
      BY <3>1, <3>2, <3>3
  <2>10. Abstract!Pgid = Pgid
    BY SameRun
  <2> HIDE DEF listed
  <2>11. \A id \in todo : id \in waiting
    OBVIOUS
  <2> HIDE DEF waiting
  <2>12. ASSUME NEW id \in Pgid, Free(id) PROVE Abstract!Next
    BY <2>3, <2>10, <2>12, Zenon DEF Abstract!Next
  <2>13. ASSUME NEW id \in todo, MergeNext(id), UNCHANGED <<pending, file, flid, saved>>
         PROVE  Abstract!Next
    BY <2>5, <2>11, <2>13, Zenon DEF Abstract!Next, waiting
  <2>14. ASSUME NEW n \in 1 .. Cardinality(Pgid), Allocate(n),
                UNCHANGED <<pending, file, flid, saved>>
         PROVE  Abstract!Next
    <3>1. n \in 1 .. Abstract!Cardinality(Abstract!Pgid)
      <4>1. Abstract!Cardinality(Pgid) = Cardinality(Pgid)
        BY Zenon DEF Cardinality, Abstract!Cardinality
      <4> QED
        BY <2>10, <4>1
    <3>2. Abstract!Allocate(n)
      BY <2>6, <2>14
    <3> QED
      BY <3>1, <3>2 DEF Abstract!Next
  <2>15. ASSUME CommitFreelist \/ Open PROVE Abstract!Next
    BY <2>7, <2>8, <2>15, Zenon DEF Abstract!Next
  <2>16. Next \/ UNCHANGED vars
    BY <1>2
  <2>17. Next => Abstract!Next \/ UNCHANGED <<freeIds, waiting, listed>>
    BY <2>4, <2>12, <2>13, <2>14, <2>15, Zenon DEF Next
  <2> QED
    BY <2>9, <2>16, <2>17
<1> QED
  BY <1>1, <1>2, PageInit, PageStep, PTL DEF Spec, ImplementsFreeSet, Abstract!Spec
=============================================================================
