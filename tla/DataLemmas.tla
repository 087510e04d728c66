----------------------------- MODULE DataLemmas -----------------------------
(***************************************************************************)
(* Facts about sets of numbers and about lists that the proofs of several  *)
(* components need: the latest position of a log, the earliest time of a   *)
(* set of commands, what filtering a list, inserting into it and looking   *)
(* for an element of it return.                                            *)
(*                                                                         *)
(* Nothing here is proved by an induction over data: the well-founded      *)
(* order of the finite subsets of a set has minimal elements.              *)
(***************************************************************************)
EXTENDS Lists, SequencesExt, FiniteSetTheorems, WellFoundedInduction,
        SequenceTheorems, TLAPS
-----------------------------------------------------------------------------
(* Sets of numbers. *)

\* A set of natural numbers that is not empty has a smallest element.
LEMMA SmallestExists ==
    ASSUME NEW I \in SUBSET Nat, I # {}
    PROVE  \E m \in I : \A i \in I : m <= i
<1> DEFINE Initial == {0..i : i \in I}
<1>1. IsWellFoundedOn(StrictSubsetOrdering(Nat), FiniteSubsetsOf(Nat))
  BY FS_StrictSubsetOrderingWellFounded
<1>2. Initial \subseteq FiniteSubsetsOf(Nat)
  <2>1. ASSUME NEW i \in I PROVE 0..i \in FiniteSubsetsOf(Nat)
    <3>1. IsFiniteSet(0..i)
      <4>1. i \in Int /\ 0 \in Int
        OBVIOUS
      <4> QED
        BY <4>1, FS_Interval
    <3>2. 0..i \in SUBSET Nat
      OBVIOUS
    <3> QED
      BY <3>1, <3>2 DEF FiniteSubsetsOf
  <2> QED
    BY <2>1
<1>3. Initial # {}
  OBVIOUS
<1>4. PICK t \in Initial :
         \A u \in Initial : ~ (<<u, t>> \in StrictSubsetOrdering(Nat))
  <2> HIDE DEF Initial
  <2> QED
    BY <1>1, <1>2, <1>3, WFMin
<1>5. PICK m \in I : t = 0..m
  BY <1>4
<1>6. ASSUME NEW i \in I, i < m PROVE FALSE
  <2>1. <<0..i, 0..m>> \in StrictSubsetOrdering(Nat)
    BY <1>6 DEF StrictSubsetOrdering
  <2> QED
    BY <1>4, <1>5, <2>1
<1> QED
  BY <1>6

\* A set of natural numbers up to a bound that is not empty has a largest one.
LEMMA LargestExists ==
    ASSUME NEW n \in Nat, NEW I \in SUBSET (0..n), I # {}
    PROVE  \E m \in I : \A i \in I : i <= m
<1> DEFINE Distance == {n - i : i \in I}
<1>1. \A i \in I : i \in 0..n /\ n - i \in Nat
  OBVIOUS
<1>2. Distance \in SUBSET Nat /\ Distance # {}
  <2>1. \A d \in Distance : d \in Nat
    BY <1>1
  <2>2. PICK i \in I : TRUE
    OBVIOUS
  <2>3. n - i \in Distance
    BY <2>2
  <2> QED
    BY <2>1, <2>3
<1>3. PICK d \in Distance : \A e \in Distance : d <= e
  <2> HIDE DEF Distance
  <2> QED
    BY <1>2, SmallestExists
<1>4. PICK m \in I : d = n - m
  BY <1>3
<1>5. ASSUME NEW i \in I PROVE i <= m
  <2>1. n - m <= n - i
    BY <1>3, <1>4
  <2> QED
    BY <1>1, <2>1
<1> QED
  BY <1>5

\* The smallest element of a set of numbers is one of it.
LEMMA MinIsSmallest ==
    ASSUME NEW I \in SUBSET Nat, I # {}
    PROVE  Min(I) \in I /\ \A i \in I : Min(I) <= i
<1>1. \E m \in I : \A i \in I : m <= i
  BY SmallestExists
<1> QED
  BY <1>1 DEF Min
-----------------------------------------------------------------------------
(* Lists. *)

\* The places of a finite set of numbers are numbered from 1 on.
LEMMA PlacesAreNumbered ==
    ASSUME NEW places \in SUBSET Int, IsFiniteSet(places)
    PROVE  /\ Cardinality(places) \in Nat
           /\ \A k \in 1..Cardinality(places) : NthPlace(places, k) \in places
           /\ \A n \in places : \E k \in 1..Cardinality(places) :
                NthPlace(places, k) = n
           /\ \A j, k \in 1..Cardinality(places) :
                NthPlace(places, j) = NthPlace(places, k) => j = k
<1> DEFINE UpTo(n) == {m \in places : m <= n}
           Rank == [n \in places |-> Cardinality(UpTo(n))]
           Size == Cardinality(places)
<1>1. Size \in Nat
  BY FS_CardinalityType
<1>2. ASSUME NEW n \in places
      PROVE  /\ IsFiniteSet(UpTo(n))
             /\ Cardinality(UpTo(n)) \in 1..Size
  <2>1. UpTo(n) \in SUBSET places /\ n \in UpTo(n)
    OBVIOUS
  <2>2. IsFiniteSet(UpTo(n)) /\ Cardinality(UpTo(n)) <= Size
    BY <2>1, FS_Subset
  <2>3. Cardinality(UpTo(n)) \in Nat /\ Cardinality(UpTo(n)) # 0
    BY <2>1, <2>2, FS_CardinalityType, FS_EmptySet
  <2> QED
    BY <1>1, <2>2, <2>3
<1>3. ASSUME NEW m \in places, NEW n \in places, m < n
      PROVE  Cardinality(UpTo(m)) # Cardinality(UpTo(n))
  <2>1. UpTo(m) \in SUBSET UpTo(n)
    <3>1. m \in Int /\ n \in Int /\ \A j \in places : j \in Int
      OBVIOUS
    <3>2. \A j \in UpTo(m) : j \in UpTo(n)
      BY <1>3, <3>1
    <3> QED
      BY <3>2
  <2>2. n \in UpTo(n) /\ n \notin UpTo(m)
    BY <1>3
  <2>3. Cardinality(UpTo(n)) = Cardinality(UpTo(m)) => UpTo(n) = UpTo(m)
    BY <1>2, <2>1, FS_Subset
  <2> QED
    BY <2>2, <2>3
<1>4. \A m, n \in places : Rank[m] = Rank[n] => m = n
  <2> SUFFICES ASSUME NEW m \in places, NEW n \in places, m # n
               PROVE  Rank[m] # Rank[n]
    OBVIOUS
  <2>1. m < n \/ n < m
    OBVIOUS
  <2> QED
    BY <1>3, <2>1
<1>5. Rank \in Injection(places, 1..Size)
  <2>1. Rank \in [places -> 1..Size]
    BY <1>2
  <2> QED
    BY <1>4, <2>1 DEF Injection, IsInjective
<1>6. IsFiniteSet(1..Size) /\ Cardinality(1..Size) = Size
  BY <1>1, FS_Interval
<1>7. Rank \in Surjection(places, 1..Size)
  BY <1>5, <1>6, FS_Injection
<1>8. \A k \in 1..Size : \E n \in places : Cardinality(UpTo(n)) = k
  BY <1>7 DEF Surjection
<1>9. \A k \in 1..Size : /\ NthPlace(places, k) \in places
                         /\ Cardinality(UpTo(NthPlace(places, k))) = k
  BY <1>8 DEF NthPlace
<1>10. ASSUME NEW n \in places
       PROVE  \E k \in 1..Size : NthPlace(places, k) = n
  <2>1. Cardinality(UpTo(n)) \in 1..Size
    BY <1>2
  <2>2. NthPlace(places, Cardinality(UpTo(n))) = n
    BY <1>4, <1>9, <2>1
  <2> QED
    BY <2>1, <2>2
<1>11. \A j, k \in 1..Size : NthPlace(places, j) = NthPlace(places, k) => j = k
  BY <1>9
<1> QED
  BY <1>1, <1>9, <1>10, <1>11

\* A filtered list has the elements of the list that are kept, and repeats none
\* that the list does not repeat.
LEMMA KeepOnlyKeeps ==
    ASSUME NEW S, NEW list \in Seq(S), NEW kept
    PROVE  /\ KeepOnly(list, kept) \in Seq(S)
           /\ ToSet(KeepOnly(list, kept)) = ToSet(list) \cap kept
           /\ IsInjective(list) => IsInjective(KeepOnly(list, kept))
<1> DEFINE places == {n \in DOMAIN list : list[n] \in kept}
           Size == Cardinality(places)
           result == KeepOnly(list, kept)
<1>1. DOMAIN list = 1..Len(list) /\ Len(list) \in Nat
  BY LenProperties
<1>2. places \in SUBSET Int /\ IsFiniteSet(places)
  <2>1. IsFiniteSet(1..Len(list)) /\ places \in SUBSET (1..Len(list))
    BY <1>1, FS_Interval
  <2> QED
    BY <2>1, FS_Subset
<1>3. /\ Size \in Nat
      /\ \A k \in 1..Size : NthPlace(places, k) \in places
      /\ \A n \in places : \E k \in 1..Size : NthPlace(places, k) = n
      /\ \A j, k \in 1..Size :
           NthPlace(places, j) = NthPlace(places, k) => j = k
  BY <1>2, PlacesAreNumbered
<1>4. result = [k \in 1..Size |-> list[NthPlace(places, k)]]
  BY DEF KeepOnly
<1> HIDE DEF result, Size
<1>5. \A n \in places : n \in DOMAIN list /\ list[n] \in S /\ list[n] \in kept
  BY <1>1, ElementOfSeq
<1>6. result \in Seq(S)
  <2>1. result \in [1..Size -> S]
    BY <1>3, <1>4, <1>5
  <2> QED
    BY <1>3, <2>1, SeqDef
<1>7. DOMAIN result = 1..Size
  BY <1>4
<1>8. ToSet(result) = ToSet(list) \cap kept
  <2>1. ASSUME NEW x \in ToSet(result) PROVE x \in ToSet(list) \cap kept
    <3>1. PICK k \in 1..Size : x = result[k]
      BY <1>7, <2>1 DEF ToSet
    <3> QED
      BY <1>3, <1>4, <1>5, <3>1 DEF ToSet
  <2>2. ASSUME NEW x \in ToSet(list) \cap kept PROVE x \in ToSet(result)
    <3>1. PICK n \in places : x = list[n]
      BY <2>2 DEF ToSet
    <3>2. PICK k \in 1..Size : NthPlace(places, k) = n
      BY <1>3
    <3>3. x = result[k]
      BY <1>4, <3>1, <3>2
    <3> QED
      BY <1>7, <3>3 DEF ToSet
  <2> QED
    BY <2>1, <2>2
<1>9. ASSUME IsInjective(list) PROVE IsInjective(result)
  <2> SUFFICES ASSUME NEW j \in 1..Size, NEW k \in 1..Size,
                      result[j] = result[k]
               PROVE  j = k
    BY <1>7 DEF IsInjective
  <2>1. list[NthPlace(places, j)] = list[NthPlace(places, k)]
    BY <1>4
  <2>2. NthPlace(places, j) = NthPlace(places, k)
    BY <1>3, <1>5, <1>9, <2>1 DEF IsInjective
  <2> QED
    BY <1>3, <2>2
<1> QED
  BY <1>6, <1>8, <1>9 DEF result

\* What is inserted goes between the elements before its place and the others.
LEMMA InsertAtPlace ==
    ASSUME NEW S, NEW list \in Seq(S), NEW e \in S, NEW n \in 1..(Len(list) + 1)
    PROVE  /\ InsertAt(list, n, e) \in Seq(S)
           /\ Len(InsertAt(list, n, e)) = Len(list) + 1
           /\ \A k \in 1..(Len(list) + 1) :
                InsertAt(list, n, e)[k] = IF k < n THEN list[k]
                                          ELSE IF k = n THEN e
                                          ELSE list[k - 1]
<1> DEFINE front == SubSeq(list, 1, n - 1)
           back == SubSeq(list, n, Len(list))
<1>1. Len(list) \in Nat /\ \A k \in 1..Len(list) : list[k] \in S
  BY LenProperties, ElementOfSeq
<1>2. /\ front \in Seq(S)
      /\ Len(front) = n - 1
      /\ \A k \in 1..(n - 1) : front[k] = list[k]
  BY <1>1, SubSeqProperties
<1>3. /\ back \in Seq(S)
      /\ Len(back) = Len(list) - n + 1
      /\ \A k \in 1..(Len(list) - n + 1) : back[k] = list[n + k - 1]
  BY <1>1, SubSeqProperties
<1>4. <<e>> \in Seq(S) /\ Len(<<e>>) = 1 /\ <<e>>[1] = e
  OBVIOUS
<1> DEFINE start == front \o <<e>>
<1> HIDE DEF front, back
<1>5. /\ start \in Seq(S)
      /\ Len(start) = n
      /\ \A k \in 1..n : start[k] = IF k < n THEN list[k] ELSE e
  BY <1>1, <1>2, <1>4, ConcatProperties
<1>6. InsertAt(list, n, e) = start \o back
  BY DEF InsertAt, front, back
<1> HIDE DEF start
<1>7. /\ start \o back \in Seq(S)
      /\ Len(start \o back) = Len(list) + 1
      /\ \A k \in 1..(Len(list) + 1) :
           (start \o back)[k] = IF k <= n THEN start[k] ELSE back[k - n]
  <2>1. Len(start) + Len(back) = Len(list) + 1
    BY <1>1, <1>3, <1>5
  <2>2. /\ start \o back \in Seq(S)
        /\ Len(start \o back) = Len(start) + Len(back)
        /\ \A k \in 1..(Len(start) + Len(back)) :
             (start \o back)[k] = IF k <= Len(start) THEN start[k]
                                   ELSE back[k - Len(start)]
    BY <1>3, <1>5, ConcatProperties
  <2> QED
    BY <1>5, <2>1, <2>2
<1>8. ASSUME NEW k \in 1..(Len(list) + 1), k > n
      PROVE  back[k - n] = list[k - 1]
  <2>1. k - n \in 1..(Len(list) - n + 1) /\ n + (k - n) - 1 = k - 1
    BY <1>1, <1>8
  <2> QED
    BY <1>3, <2>1
<1> QED
  BY <1>1, <1>5, <1>6, <1>7, <1>8

\* The elements of a list.
LEMMA ElementsOfList ==
    ASSUME NEW S, NEW list \in Seq(S)
    PROVE  /\ Len(list) \in Nat
           /\ DOMAIN list = 1..Len(list)
           /\ ToSet(list) \subseteq S
           /\ \A k \in 1..Len(list) : list[k] \in S /\ list[k] \in ToSet(list)
           /\ \A x \in ToSet(list) : \E k \in 1..Len(list) : x = list[k]
  BY LenProperties, ElementOfSeq DEF ToSet

\* Inserting adds one element, and repeats none when it is a new one.
LEMMA InsertedElements ==
    ASSUME NEW S, NEW list \in Seq(S), NEW e \in S, NEW n \in 1..(Len(list) + 1)
    PROVE  /\ ToSet(InsertAt(list, n, e)) = ToSet(list) \cup {e}
           /\ IsInjective(list) /\ e \notin ToSet(list) =>
                IsInjective(InsertAt(list, n, e))
<1> DEFINE result == InsertAt(list, n, e)
<1>1. /\ result \in Seq(S)
      /\ Len(result) = Len(list) + 1
      /\ \A k \in 1..(Len(list) + 1) :
           result[k] = IF k < n THEN list[k]
                       ELSE IF k = n THEN e
                       ELSE list[k - 1]
  BY InsertAtPlace
<1> HIDE DEF result
<1>2. /\ Len(list) \in Nat
      /\ DOMAIN list = 1..Len(list)
      /\ DOMAIN result = 1..(Len(list) + 1)
  BY <1>1, ElementsOfList
<1>3. ASSUME NEW x \in ToSet(result) PROVE x \in ToSet(list) \cup {e}
  <2>1. PICK k \in 1..(Len(list) + 1) : x = result[k]
    BY <1>2, <1>3 DEF ToSet
  <2>2. k < n => k \in 1..Len(list)
    BY <1>2
  <2>3. k > n => k - 1 \in 1..Len(list)
    BY <1>2
  <2> QED
    BY <1>1, <1>2, <2>1, <2>2, <2>3 DEF ToSet
<1>4. ASSUME NEW x \in ToSet(list) \cup {e} PROVE x \in ToSet(result)
  <2>1. CASE x = e
    BY <1>1, <1>2, <2>1 DEF ToSet
  <2>2. CASE x \in ToSet(list)
    <3>1. PICK k \in 1..Len(list) : x = list[k]
      BY <1>2, <2>2 DEF ToSet
    <3>2. CASE k < n
      <4>1. k \in 1..(Len(list) + 1) /\ result[k] = x
        BY <1>1, <1>2, <3>1, <3>2
      <4> QED
        BY <1>2, <4>1 DEF ToSet
    <3>3. CASE k >= n
      <4>1. k + 1 \in 1..(Len(list) + 1) /\ (k + 1) - 1 = k
        BY <1>2
      <4>2. ~ (k + 1 < n) /\ k + 1 # n
        BY <3>3
      <4>3. result[k + 1] = x
        BY <1>1, <3>1, <4>1, <4>2
      <4> QED
        BY <1>2, <4>1, <4>3 DEF ToSet
    <3> QED
      BY <1>2, <3>2, <3>3
  <2> QED
    BY <1>4, <2>1, <2>2
<1>5. ASSUME IsInjective(list), e \notin ToSet(list) PROVE IsInjective(result)
  <2> DEFINE Before(k) == IF k < n THEN k ELSE k - 1
  <2>1. ASSUME NEW k \in 1..(Len(list) + 1), k # n
        PROVE  /\ Before(k) \in 1..Len(list)
               /\ result[k] = list[Before(k)]
               /\ result[k] # e
    <3>1. Before(k) \in 1..Len(list)
      BY <1>2, <2>1
    <3>2. result[k] = list[Before(k)]
      BY <1>1, <2>1
    <3>3. list[Before(k)] \in ToSet(list)
      BY <1>2, <3>1 DEF ToSet
    <3> QED
      BY <1>5, <3>1, <3>2, <3>3
  <2> SUFFICES ASSUME NEW j \in 1..(Len(list) + 1), NEW k \in 1..(Len(list) + 1),
                      result[j] = result[k], j # k
               PROVE  FALSE
    BY <1>2 DEF IsInjective
  <2>2. result[n] = e
    BY <1>1
  <2>3. j # n /\ k # n
    BY <2>1, <2>2
  <2>4. Before(j) = Before(k)
    BY <1>2, <1>5, <2>1, <2>3 DEF IsInjective
  <2> QED
    BY <2>3, <2>4
<1> QED
  BY <1>3, <1>4, <1>5 DEF result

\* Two lists in a row.
LEMMA ConcatenatedElements ==
    ASSUME NEW S, NEW s \in Seq(S), NEW t \in Seq(S)
    PROVE  /\ s \o t \in Seq(S)
           /\ ToSet(s \o t) = ToSet(s) \cup ToSet(t)
           /\ IsInjective(s) /\ IsInjective(t) /\ ToSet(s) \cap ToSet(t) = {} =>
                IsInjective(s \o t)
<1>1. /\ Len(s) \in Nat /\ DOMAIN s = 1..Len(s)
      /\ Len(t) \in Nat /\ DOMAIN t = 1..Len(t)
  BY ElementsOfList
<1>2. /\ s \o t \in Seq(S)
      /\ Len(s \o t) = Len(s) + Len(t)
      /\ \A k \in 1..(Len(s) + Len(t)) :
           (s \o t)[k] = IF k <= Len(s) THEN s[k] ELSE t[k - Len(s)]
  BY ConcatProperties
<1> DEFINE r == s \o t
<1>3. /\ \A k \in 1..(Len(s) + Len(t)) :
           r[k] = IF k <= Len(s) THEN s[k] ELSE t[k - Len(s)]
      /\ DOMAIN r = 1..(Len(s) + Len(t))
      /\ r \in Seq(S)
  BY <1>2, LenProperties
<1> HIDE DEF r
<1>4. ASSUME NEW x \in ToSet(r) PROVE x \in ToSet(s) \cup ToSet(t)
  <2>1. PICK k \in 1..(Len(s) + Len(t)) : x = r[k]
    BY <1>3, <1>4 DEF ToSet
  <2>2. CASE k <= Len(s)
    <3>1. k \in 1..Len(s) /\ x = s[k]
      BY <1>1, <1>3, <2>1, <2>2
    <3> QED
      BY <1>1, <3>1 DEF ToSet
  <2>3. CASE k > Len(s)
    <3>1. k - Len(s) \in 1..Len(t) /\ x = t[k - Len(s)]
      BY <1>1, <1>3, <2>1, <2>3
    <3> QED
      BY <1>1, <3>1 DEF ToSet
  <2> QED
    BY <1>1, <2>2, <2>3
<1>5. ASSUME NEW x \in ToSet(s) PROVE x \in ToSet(r)
  <2>1. PICK k \in 1..Len(s) : x = s[k]
    BY <1>1, <1>5 DEF ToSet
  <2>2. k \in 1..(Len(s) + Len(t)) /\ r[k] = x
    BY <1>1, <1>3, <2>1
  <2> QED
    BY <1>3, <2>2 DEF ToSet
<1>6. ASSUME NEW x \in ToSet(t) PROVE x \in ToSet(r)
  <2>1. PICK k \in 1..Len(t) : x = t[k]
    BY <1>1, <1>6 DEF ToSet
  <2>2. /\ Len(s) + k \in 1..(Len(s) + Len(t))
        /\ (Len(s) + k) - Len(s) = k
        /\ ~ (Len(s) + k <= Len(s))
    BY <1>1
  <2>3. r[Len(s) + k] = x
    BY <1>3, <2>1, <2>2
  <2> QED
    BY <1>3, <2>2, <2>3 DEF ToSet
<1>7. ASSUME IsInjective(s), IsInjective(t), ToSet(s) \cap ToSet(t) = {}
      PROVE  IsInjective(r)
  <2>1. ASSUME NEW k \in 1..(Len(s) + Len(t))
        PROVE  IF k <= Len(s)
               THEN k \in 1..Len(s) /\ r[k] = s[k] /\ r[k] \in ToSet(s)
               ELSE /\ k - Len(s) \in 1..Len(t)
                    /\ r[k] = t[k - Len(s)]
                    /\ r[k] \in ToSet(t)
    <3>1. CASE k <= Len(s)
      BY <1>1, <1>3, <3>1 DEF ToSet
    <3>2. CASE ~ (k <= Len(s))
      <4>1. k - Len(s) \in 1..Len(t) /\ r[k] = t[k - Len(s)]
        BY <1>1, <1>3, <3>2
      <4> QED
        BY <1>1, <3>2, <4>1 DEF ToSet
    <3> QED
      BY <3>1, <3>2
  <2> SUFFICES ASSUME NEW j \in 1..(Len(s) + Len(t)),
                      NEW k \in 1..(Len(s) + Len(t)), r[j] = r[k]
               PROVE  j = k
    BY <1>3 DEF IsInjective
  <2>2. CASE j <= Len(s) /\ k <= Len(s)
    BY <1>1, <1>7, <2>1, <2>2 DEF IsInjective
  <2>3. CASE ~ (j <= Len(s)) /\ ~ (k <= Len(s))
    <3>1. j - Len(s) = k - Len(s)
      BY <1>1, <1>7, <2>1, <2>3 DEF IsInjective
    <3> QED
      BY <1>1, <3>1
  <2>4. CASE (j <= Len(s)) # (k <= Len(s))
    BY <1>7, <2>1, <2>4
  <2> QED
    BY <2>2, <2>3, <2>4
<1> QED
  BY <1>2, <1>4, <1>5, <1>6, <1>7 DEF r

\* A list cut in two.
LEMMA CutElements ==
    ASSUME NEW S, NEW list \in Seq(S), NEW n \in 0..Len(list)
    PROVE  LET front == SubSeq(list, 1, n)
               back == SubSeq(list, n + 1, Len(list))
           IN  /\ front \in Seq(S) /\ back \in Seq(S)
               /\ ToSet(front) = {list[k] : k \in 1..n}
               /\ ToSet(back) = {list[k] : k \in (n + 1)..Len(list)}
               /\ DOMAIN back = 1..(Len(list) - n)
               /\ \A k \in 1..(Len(list) - n) : back[k] = list[n + k]
               /\ ToSet(list) = ToSet(front) \cup ToSet(back)
               /\ IsInjective(list) => /\ IsInjective(front)
                                       /\ IsInjective(back)
                                       /\ ToSet(front) \cap ToSet(back) = {}
<1> DEFINE front == SubSeq(list, 1, n)
           back == SubSeq(list, n + 1, Len(list))
<1>1. /\ Len(list) \in Nat /\ DOMAIN list = 1..Len(list)
      /\ \A k \in 1..Len(list) : list[k] \in S
  BY ElementsOfList
<1>2. /\ front \in Seq(S)
      /\ Len(front) = n
      /\ \A k \in 1..n : front[k] = list[k]
  BY <1>1, SubSeqProperties
<1>3. /\ back \in Seq(S)
      /\ Len(back) = Len(list) - n
      /\ \A k \in 1..(Len(list) - n) : back[k] = list[n + k]
  <2>1. Len(list) - (n + 1) + 1 = Len(list) - n
    BY <1>1
  <2>2. \A k \in 1..(Len(list) - n) : (n + 1) + k - 1 = n + k
    BY <1>1
  <2>3. n + 1 \in 1..(Len(list) + 1) /\ Len(list) \in ((n + 1) - 1)..Len(list)
    BY <1>1
  <2>4. /\ back \in Seq(S)
        /\ Len(back) = Len(list) - (n + 1) + 1
        /\ \A k \in 1..(Len(list) - (n + 1) + 1) :
             back[k] = list[(n + 1) + k - 1]
    BY <2>3, SubSeqProperties
  <2> QED
    BY <2>1, <2>2, <2>4
<1> HIDE DEF front, back
<1>4. DOMAIN front = 1..n /\ DOMAIN back = 1..(Len(list) - n)
  BY <1>2, <1>3, ElementsOfList
<1>5. ToSet(front) = {list[k] : k \in 1..n}
  BY <1>2, <1>4 DEF ToSet
<1>6. ToSet(back) = {list[k] : k \in (n + 1)..Len(list)}
  <2>1. \A k \in 1..(Len(list) - n) : n + k \in (n + 1)..Len(list)
    BY <1>1
  <2>2. ASSUME NEW k \in (n + 1)..Len(list)
        PROVE  k - n \in 1..(Len(list) - n) /\ list[k] = back[k - n]
    <3>1. k - n \in 1..(Len(list) - n) /\ n + (k - n) = k
      BY <1>1
    <3> QED
      BY <1>3, <3>1
  <2> QED
    BY <1>3, <1>4, <2>1, <2>2 DEF ToSet
<1>7. ToSet(list) = ToSet(front) \cup ToSet(back)
  <2>1. 1..Len(list) = (1..n) \cup ((n + 1)..Len(list))
    BY <1>1
  <2> QED
    BY <1>1, <1>5, <1>6, <2>1 DEF ToSet
<1>8. ASSUME IsInjective(list)
      PROVE  /\ IsInjective(front)
             /\ IsInjective(back)
             /\ ToSet(front) \cap ToSet(back) = {}
  <2>1. IsInjective(front)
    BY <1>1, <1>2, <1>4, <1>8 DEF IsInjective
  <2>2. IsInjective(back)
    <3> SUFFICES ASSUME NEW j \in 1..(Len(list) - n),
                        NEW k \in 1..(Len(list) - n), back[j] = back[k]
                 PROVE  j = k
      BY <1>4 DEF IsInjective
    <3>1. n + j \in 1..Len(list) /\ n + k \in 1..Len(list)
      BY <1>1
    <3>2. n + j = n + k
      BY <1>1, <1>3, <1>8, <3>1 DEF IsInjective
    <3> QED
      BY <1>1, <3>2
  <2>3. ASSUME NEW x \in ToSet(front), x \in ToSet(back) PROVE FALSE
    <3>1. PICK j \in 1..n : x = list[j]
      BY <1>5
    <3>2. PICK k \in (n + 1)..Len(list) : x = list[k]
      BY <1>6, <2>3
    <3>3. j \in 1..Len(list) /\ k \in 1..Len(list) /\ j # k
      BY <1>1
    <3> QED
      BY <1>1, <1>8, <3>1, <3>2, <3>3 DEF IsInjective
  <2> QED
    BY <2>1, <2>2, <2>3
<1> QED
  BY <1>2, <1>3, <1>4, <1>5, <1>6, <1>7, <1>8 DEF front, back

\* The orders a finite set can be read in: each has all of its elements, once.
LEMMA OrdersOfASet ==
    ASSUME NEW S, IsFiniteSet(S), NEW list \in SetToSeqs(S)
    PROVE  list \in Seq(S) /\ IsInjective(list) /\ ToSet(list) = S
<1>1. Cardinality(S) \in Nat
  BY FS_CardinalityType
<1>2. list \in [1..Cardinality(S) -> S]
  BY DEF SetToSeqs
<1>3. list \in Seq(S)
  BY <1>1, <1>2, SeqDef
<1>4. IsInjective(list)
  BY <1>2 DEF SetToSeqs, IsInjective
<1>5. list \in Injection(1..Cardinality(S), S)
  BY <1>2, <1>4 DEF Injection
<1>6. /\ IsFiniteSet(1..Cardinality(S))
      /\ Cardinality(1..Cardinality(S)) = Cardinality(S)
  BY <1>1, FS_Interval
<1>7. list \in Surjection(1..Cardinality(S), S)
  BY <1>5, <1>6, FS_Injection
<1>8. ToSet(list) = S
  BY <1>2, <1>7 DEF ToSet, Surjection
<1> QED
  BY <1>3, <1>4, <1>8
=============================================================================
