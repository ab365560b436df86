------------------------- MODULE EmailGadgetProofs -------------------------
(***************************************************************************)
(* Proofs about EmailGadget, for any configurations, messages, openings    *)
(* and bounds: the configuration Postfix runs on, the lessons of rspamd,   *)
(* and what a report that reads a folder in use is about.                  *)
(***************************************************************************)
EXTENDS EmailGadget, FiniteSetTheorems, SequenceTheorems,
        WellFoundedInduction, TLAPS

-----------------------------------------------------------------------------
(***************************************************************************)
(* Numbering a finite set one to one uses every number.                    *)
(***************************************************************************)
LEMMA NumberingIsOnto ==
    ASSUME NEW S, IsFiniteSet(S),
           NEW number \in [S -> 1 .. Cardinality(S)],
           \A i, j \in S : number[i] = number[j] => i = j
    PROVE  \A n \in 1 .. Cardinality(S) : \E i \in S : number[i] = n
<1> DEFINE N == 1 .. Cardinality(S)
<1>1. IsFiniteSet(N) /\ Cardinality(N) = Cardinality(S)
  <2>1. Cardinality(S) \in Nat
    BY FS_CardinalityType
  <2> QED
    BY <2>1, FS_Interval
<1>2. number \in Injection(S, N)
  BY DEF Injection, IsInjective
<1>3. number \in Surjection(S, N)
  BY <1>1, <1>2, FS_Injection
<1> QED
  BY <1>3 DEF Surjection

\* There are n numbers from 1 to n.
LEMMA NumbersTo ==
    ASSUME NEW n \in Nat
    PROVE  IsFiniteSet(1 .. n) /\ Cardinality(1 .. n) = n
BY FS_Interval

\* A function of the numbers from 1 to n is a sequence.
LEMMA FunctionIsSeq ==
    ASSUME NEW S, NEW n \in Nat, NEW f \in [1 .. n -> S]
    PROVE  f \in Seq(S)
BY SeqDef

\* A sequence of elements that are of another type too is of that type.
LEMMA SeqOfType ==
    ASSUME NEW S, NEW T, NEW seq \in Seq(S), \A i \in DOMAIN seq : seq[i] \in T
    PROVE  seq \in Seq(T)
<1>1. Len(seq) \in Nat /\ seq \in [1 .. Len(seq) -> T]
  BY LenProperties
<1> QED
  BY <1>1, FunctionIsSeq

\* A set of numbers that is not empty has a first one.
LEMMA FirstOf ==
    ASSUME NEW S \in SUBSET Nat, S # {}
    PROVE  \E n \in S : \A k \in S : n <= k
<1>1. PICK n \in S : \A k \in S : << k, n >> \notin OpToRel(<, Nat)
  BY NatLessThanWellFounded, WFMin
<1>2. \A k \in S : ~(k < n)
  BY <1>1 DEF OpToRel
<1> QED
  BY <1>2

-----------------------------------------------------------------------------
(***************************************************************************)
(* The list that spam_statistics sorts (main.rs:110)                       *)
(***************************************************************************)
Dated(list) ==
    /\ DOMAIN list = 1 .. Len(list)
    /\ Len(list) \in Nat
    /\ \A i \in 1 .. Len(list) : list[i].date \in Int

\* The places in the sorted list are numbered one to one, by date.
LEMMA RankOrders ==
    ASSUME NEW list, Dated(list)
    PROVE  /\ \A i \in DOMAIN list : Rank(list, i) \in DOMAIN list
           /\ \A i, j \in DOMAIN list :
                 list[i].date < list[j].date
                    => Rank(list, i) < Rank(list, j)
           /\ \A i, j \in DOMAIN list :
                 Rank(list, i) = Rank(list, j) => i = j
<1> DEFINE D == DOMAIN list
           Before(j, i) == \/ list[j].date < list[i].date
                           \/ list[j].date = list[i].date /\ j <= i
           upTo(i) == { j \in D : Before(j, i) }
           rank(i) == Cardinality(upTo(i))
<1>1. D = 1 .. Len(list) /\ IsFiniteSet(D) /\ Cardinality(D) = Len(list)
  <2>1. D = 1 .. Len(list) /\ Len(list) \in Nat
    BY DEF Dated
  <2>2. IsFiniteSet(1 .. Len(list)) /\ Cardinality(1 .. Len(list)) = Len(list)
    BY <2>1, NumbersTo
  <2> QED
    BY <2>1, <2>2
<1>2. /\ \A i \in D : Before(i, i)
      /\ \A i, j \in D : i # j => (Before(i, j) <=> ~Before(j, i))
      /\ \A i, j, k \in D : Before(i, j) /\ Before(j, k) => Before(i, k)
      /\ \A i, j \in D : list[i].date < list[j].date => Before(i, j) /\ i # j
  <2>1. \A i \in D : i \in Int /\ list[i].date \in Int
    BY <1>1 DEF Dated
  <2> DEFINE date(i) == list[i].date
  <2>2. \A i \in D : date(i) \in Int
    BY <2>1
  <2> HIDE DEF D, date
  <2> QED
    BY <2>1, <2>2 DEF date
<1>3. \A i \in D : /\ IsFiniteSet(upTo(i))
                   /\ rank(i) \in D
  <2> SUFFICES ASSUME NEW i \in D
               PROVE  IsFiniteSet(upTo(i)) /\ rank(i) \in D
    OBVIOUS
  <2>1. upTo(i) \subseteq D /\ i \in upTo(i)
    BY <1>2
  <2>2. IsFiniteSet(upTo(i)) /\ rank(i) <= Len(list)
    BY <1>1, <2>1, FS_Subset
  <2>3. rank(i) \in Nat /\ rank(i) # 0
    BY <2>1, <2>2, FS_CardinalityType, FS_EmptySet
  <2> QED
    BY <1>1, <2>2, <2>3 DEF Dated
<1>4. \A i, j \in D : i # j /\ Before(i, j) => rank(i) < rank(j)
  <2> SUFFICES ASSUME NEW i \in D, NEW j \in D, i # j, Before(i, j)
               PROVE  rank(i) < rank(j)
    OBVIOUS
  <2>1. upTo(i) \subseteq upTo(j) /\ j \in upTo(j) /\ j \notin upTo(i)
    <3> HIDE DEF Before, D
    <3> QED
      BY <1>2
  <2>2. rank(i) <= rank(j) /\ rank(i) # rank(j)
    BY <1>3, <2>1, FS_Subset
  <2>3. \A k \in D : k \in Int
    BY <1>1
  <2>4. rank(i) \in D /\ rank(j) \in D
    BY <1>3
  <2> HIDE DEF rank, D
  <2> QED
    BY <2>2, <2>3, <2>4
<1>5. \A i \in D : Rank(list, i) = rank(i)
  BY DEF Rank
<1>6. \A i \in D : i \in Int
  BY <1>1
<1> HIDE DEF Before, rank, D
<1>7. \A i, j \in D : rank(i) = rank(j) => i = j
  <2>1. \A i \in D : rank(i) \in Int
    BY <1>3, <1>6
  <2> QED
    BY <1>2, <1>4, <2>1
<1> QED
  <2>1. \A i \in D : Rank(list, i) \in D
    BY <1>3, <1>5
  <2>2. \A i, j \in D : list[i].date < list[j].date => rank(i) < rank(j)
    BY <1>2, <1>4
  <2>3. \A i, j \in D : list[i].date < list[j].date
                           => Rank(list, i) < Rank(list, j)
    BY <1>5, <2>2
  <2>4. \A i, j \in D : Rank(list, i) = Rank(list, j) => i = j
    BY <1>5, <1>7
  <2> QED
    BY <2>1, <2>3, <2>4 DEF D

\* Sorting gives the same messages, each as often as before, in the order of
\* their dates: what last_n_days and take_weeks rely on (main.rs:110,
\* statistics.rs:85-97, 125-138).
THEOREM SortedIsSorted ==
    ASSUME NEW list, Dated(list)
    PROVE  /\ DOMAIN Sorted(list) = DOMAIN list
           /\ \E pos \in [DOMAIN list -> DOMAIN list] :
                 /\ \A n \in DOMAIN list : Sorted(list)[n] = list[pos[n]]
                 /\ \A n, k \in DOMAIN list : pos[n] = pos[k] => n = k
                 /\ \A i \in DOMAIN list :
                       \E n \in DOMAIN list : pos[n] = i
           /\ \A n, k \in DOMAIN list :
                 n <= k => Sorted(list)[n].date <= Sorted(list)[k].date
<1> DEFINE D == DOMAIN list
           rank == [i \in D |-> Rank(list, i)]
           pos == [n \in D |-> CHOOSE i \in D : Rank(list, i) = n]
<1>1. D = 1 .. Len(list) /\ IsFiniteSet(D) /\ Cardinality(D) = Len(list)
  <2>1. D = 1 .. Len(list) /\ Len(list) \in Nat
    BY DEF Dated
  <2>2. IsFiniteSet(1 .. Len(list)) /\ Cardinality(1 .. Len(list)) = Len(list)
    BY <2>1, NumbersTo
  <2> QED
    BY <2>1, <2>2
<1>2. \A n \in D : \E i \in D : Rank(list, i) = n
  <2>1. rank \in [D -> 1 .. Cardinality(D)]
    BY <1>1, RankOrders
  <2>2. \A i, j \in D : rank[i] = rank[j] => i = j
    BY RankOrders
  <2>3. \A i \in D : rank[i] = Rank(list, i)
    OBVIOUS
  <2>4. D = 1 .. Cardinality(D)
    BY <1>1
  <2>5. IsFiniteSet(D)
    BY <1>1
  <2> HIDE DEF D, rank
  <2>6. \A n \in 1 .. Cardinality(D) : \E i \in D : rank[i] = n
    BY <2>1, <2>2, <2>5, NumberingIsOnto
  <2> QED
    BY <2>3, <2>4, <2>6
<1>3. \A n \in D : pos[n] \in D /\ Rank(list, pos[n]) = n
  BY <1>2
<1>4. Sorted(list) = [n \in D |-> list[pos[n]]]
  BY DEF Sorted
<1>5. \A i \in D : Rank(list, i) \in D /\ pos[Rank(list, i)] = i
  BY <1>3, RankOrders
<1>6. pos \in [D -> D]
  BY <1>3
<1> HIDE DEF pos
<1>7. \A n, k \in D : n <= k => list[pos[n]].date <= list[pos[k]].date
  <2> SUFFICES ASSUME NEW n \in D, NEW k \in D,
                      ~(list[pos[n]].date <= list[pos[k]].date)
               PROVE  ~(n <= k)
    OBVIOUS
  <2>1. list[pos[k]].date < list[pos[n]].date
    <3>1. list[pos[k]].date \in Int /\ list[pos[n]].date \in Int
      BY <1>1, <1>3 DEF Dated
    <3> QED
      BY <3>1
  <2>2. Rank(list, pos[k]) < Rank(list, pos[n])
    BY <1>3, <2>1, RankOrders
  <2>3. n \in Int /\ k \in Int
    BY <1>1
  <2> QED
    BY <1>3, <2>2, <2>3
<1> QED
  <2>1. \A n, k \in D : pos[n] = pos[k] => n = k
    BY <1>3
  <2>2. \A i \in D : \E n \in D : pos[n] = i
    BY <1>5
  <2> QED
    BY <1>4, <1>6, <1>7, <2>1, <2>2

-----------------------------------------------------------------------------
(***************************************************************************)
(* The configuration                                                       *)
(***************************************************************************)
\* What StripStarts is defined as holds of it: the lines behind an uninterrupted
\* row of lines that set keys begin a block and end one in turn.
LEMMA StartsAre ==
    ASSUME NEW conf \in Seq(ConfLine), NEW keys
    PROVE  \A i \in 0 .. Len(conf) :
              StripStarts(conf, keys)[i]
                 = (i > 0 /\ Sets(conf[i], keys) /\ ~StripStarts(conf, keys)[i - 1])
<1> DEFINE N == Len(conf)
           S(i) == Sets(conf[i], keys)
           Row(k, i) == /\ k < i /\ (k = 0 \/ ~S(k))
                        /\ \A j \in k + 1 .. i : S(j)
           g == [i \in 0 .. N |-> \E k \in 0 .. i : Row(k, i) /\ (i - k) % 2 = 1]
           Eq(f) == f = [i \in 0 .. N |-> i > 0 /\ S(i) /\ ~f[i - 1]]
<1>1. N \in Nat
  OBVIOUS
<1> HIDE DEF N, S
<1>2. ASSUME NEW i \in 1 .. N, S(i) PROVE \E k \in 0 .. i : Row(k, i)
  <2> DEFINE back == { d \in 0 .. i : d = i \/ ~S(i - d) }
  <2>1. PICK d \in back : \A e \in back : d <= e
    <3>1. i \in back /\ back \subseteq Nat
      BY <1>1
    <3> HIDE DEF back
    <3> QED
      BY <3>1, FirstOf
  <2>2. d \in 0 .. i /\ d # 0
    BY <1>1, <1>2, <2>1
  <2>3. \A j \in i - d + 1 .. i : S(j)
    <3> SUFFICES ASSUME NEW j \in i - d + 1 .. i PROVE S(j)
      OBVIOUS
    <3>1. i - j \in 0 .. i /\ i - j < d /\ i - (i - j) = j /\ i - j # i
      BY <1>1, <2>2
    <3>2. i - j \notin back
      <4> HIDE DEF back
      <4> QED
        BY <2>1, <2>2, <3>1
    <3>3. S(i - (i - j))
      BY <3>1, <3>2
    <3> QED
      BY <3>1, <3>3
  <2>4. i - d \in 0 .. i /\ i - d < i /\ (i - d = 0 \/ ~S(i - d))
    BY <1>1, <2>1, <2>2
  <2> HIDE DEF back
  <2> QED
    BY <2>3, <2>4
<1>3. \A i \in 1 .. N : \A k, l \in 0 .. i : Row(k, i) /\ Row(l, i) => k = l
  BY <1>1
<1>4. \A i \in 1 .. N : \A k \in 0 .. i : k < i - 1 =>
         (Row(k, i) <=> S(i) /\ Row(k, i - 1))
  BY <1>1
<1>5. \A i \in 1 .. N : g[i] = (S(i) /\ ~g[i - 1])
  <2> SUFFICES ASSUME NEW i \in 1 .. N PROVE g[i] = (S(i) /\ ~g[i - 1])
    OBVIOUS
  <2>1. /\ g[i] = (\E k \in 0 .. i : Row(k, i) /\ (i - k) % 2 = 1)
        /\ g[i - 1] = (\E k \in 0 .. i - 1 : Row(k, i - 1) /\ (i - 1 - k) % 2 = 1)
    <3>1. i \in 0 .. N /\ i - 1 \in 0 .. N
      BY <1>1
    <3> HIDE DEF Row
    <3> QED
      BY <3>1
  <2>2. CASE ~S(i)
    <3>1. \A k \in 0 .. i : ~Row(k, i)
      BY <1>1, <2>2
    <3> HIDE DEF g, Row
    <3> QED
      BY <2>1, <2>2, <3>1
  <2>3. CASE S(i)
    <3>1. PICK k \in 0 .. i : Row(k, i)
      BY <1>2, <2>3
    <3>2. k \in Nat /\ i \in Nat /\ k < i
      BY <1>1, <3>1
    <3>3. g[i] <=> (i - k) % 2 = 1
      <4> HIDE DEF g, Row
      <4> QED
        BY <1>3, <2>1, <3>1
    <3>4. CASE k = i - 1
      <4>1. \A l \in 0 .. i - 1 : ~(Row(l, i - 1))
        <5> SUFFICES ASSUME NEW l \in 0 .. i - 1, Row(l, i - 1) PROVE FALSE
          OBVIOUS
        <5>1. l < k /\ k \in l + 1 .. i - 1 /\ k # 0
          BY <3>2, <3>4
        <5> QED
          BY <3>1, <5>1
      <4>2. ~g[i - 1]
        <5> HIDE DEF g, Row
        <5> QED
          BY <2>1, <4>1
      <4>3. (i - k) % 2 = 1
        BY <3>2, <3>4
      <4> HIDE DEF g, Row
      <4> QED
        BY <2>3, <3>3, <4>2, <4>3
    <3>5. CASE k < i - 1
      <4>1. k \in 0 .. i - 1 /\ i - 1 \in 1 .. N /\ Row(k, i - 1)
        BY <1>1, <1>4, <3>1, <3>2, <3>5
      <4>2. \A l \in 0 .. i - 1 : Row(l, i - 1) => l = k
        <5> HIDE DEF Row
        <5> QED
          BY <1>3, <4>1
      <4>3. g[i - 1] <=> (i - 1 - k) % 2 = 1
        <5> HIDE DEF g, Row
        <5> QED
          BY <2>1, <4>1, <4>2
      <4>4. (i - 1 - k) % 2 = 1 <=> ~((i - k) % 2 = 1)
        BY <3>2
      <4>5. g[i] = ((i - k) % 2 = 1) /\ g[i - 1] = ((i - 1 - k) % 2 = 1)
        <5> HIDE DEF Row
        <5>1. g[i] \in BOOLEAN /\ g[i - 1] \in BOOLEAN
          BY <2>1
        <5> HIDE DEF g
        <5> QED
          BY <3>3, <4>3, <5>1
      <4> HIDE DEF g, Row
      <4> QED
        BY <2>3, <4>4, <4>5
    <3>6. k = i - 1 \/ k < i - 1
      BY <3>2
    <3> HIDE DEF g, Row
    <3> QED
      BY <3>4, <3>5, <3>6
  <2> QED
    BY <2>2, <2>3
<1>6. Eq(g)
  <2>1. ~g[0] /\ g[0] \in BOOLEAN
    BY <1>1
  <2>2. \A i \in 0 .. N : g[i] = (i > 0 /\ S(i) /\ ~g[i - 1])
    <3> HIDE DEF g
    <3> QED
      BY <1>1, <1>5, <2>1
  <2>3. g = [i \in 0 .. N |-> g[i]]
    OBVIOUS
  <2> HIDE DEF g
  <2>4. [i \in 0 .. N |-> g[i]] = [i \in 0 .. N |-> i > 0 /\ S(i) /\ ~g[i - 1]]
    BY <2>2
  <2> QED
    BY <2>3, <2>4
<1>7. StripStarts(conf, keys) = CHOOSE f : Eq(f)
  BY DEF StripStarts, N, S
<1> HIDE DEF g
<1>8. Eq(StripStarts(conf, keys))
  <2> HIDE DEF Eq
  <2> QED
    BY <1>6, <1>7, Zenon
<1> QED
  BY <1>8 DEF S, N

Kept(conf, keys) ==
    { i \in DOMAIN conf :
        /\ ~StripStarts(conf, keys)[i - 1]
        /\ StripStarts(conf, keys)[i] => i = Len(conf) }

\* The lines that are kept are numbered in their order.
LEMMA StrippedInOrder ==
    ASSUME NEW conf \in Seq(ConfLine), NEW keys
    PROVE  /\ Stripped(conf, keys) \in Seq(ConfLine)
           /\ \E at \in [DOMAIN Stripped(conf, keys) -> Kept(conf, keys)] :
                 /\ \A n \in DOMAIN Stripped(conf, keys) :
                       Stripped(conf, keys)[n] = conf[at[n]]
                 /\ \A n, m \in DOMAIN Stripped(conf, keys) :
                       n < m => at[n] < at[m]
                 /\ \A i \in Kept(conf, keys) :
                       \E n \in DOMAIN Stripped(conf, keys) : at[n] = i
<1> DEFINE starts == StripStarts(conf, keys)
           kept == Kept(conf, keys)
           upTo(i) == { k \in kept : k <= i }
           number == [i \in kept |-> Cardinality(upTo(i))]
           Nth(n) == CHOOSE i \in kept : Cardinality({ k \in kept : k <= i }) = n
<1>1. kept \subseteq 1 .. Len(conf) /\ Len(conf) \in Nat
  BY DEF Kept
<1>2. IsFiniteSet(kept) /\ Cardinality(kept) \in Nat
  <2>1. IsFiniteSet(1 .. Len(conf))
    BY <1>1, FS_Interval
  <2> QED
    BY <1>1, <2>1, FS_Subset, FS_CardinalityType
<1>0. (\A i \in kept : i \in Int) /\ \A n \in 1 .. Cardinality(kept) : n \in Nat
  <2> HIDE DEF kept
  <2> QED
    BY <1>1, <1>2
<1>3. \A i \in kept : /\ upTo(i) \subseteq kept /\ i \in upTo(i)
                      /\ IsFiniteSet(upTo(i))
                      /\ Cardinality(upTo(i)) \in 1 .. Cardinality(kept)
  <2> SUFFICES ASSUME NEW i \in kept
               PROVE  /\ upTo(i) \subseteq kept /\ i \in upTo(i)
                      /\ IsFiniteSet(upTo(i))
                      /\ Cardinality(upTo(i)) \in 1 .. Cardinality(kept)
    OBVIOUS
  <2>1. upTo(i) \subseteq kept /\ i \in upTo(i)
    BY <1>1
  <2>2. IsFiniteSet(upTo(i)) /\ Cardinality(upTo(i)) <= Cardinality(kept)
    BY <1>2, <2>1, FS_Subset
  <2>3. Cardinality(upTo(i)) \in Nat /\ Cardinality(upTo(i)) # 0
    BY <2>1, <2>2, FS_CardinalityType, FS_EmptySet
  <2> QED
    BY <1>2, <2>1, <2>2, <2>3
<1>4. \A i, j \in kept : i < j => Cardinality(upTo(i)) < Cardinality(upTo(j))
  <2> SUFFICES ASSUME NEW i \in kept, NEW j \in kept, i < j
               PROVE  Cardinality(upTo(i)) < Cardinality(upTo(j))
    OBVIOUS
  <2>1. upTo(i) \subseteq upTo(j) /\ j \in upTo(j) /\ j \notin upTo(i)
    BY <1>1
  <2>2. /\ Cardinality(upTo(i)) <= Cardinality(upTo(j))
        /\ Cardinality(upTo(i)) # Cardinality(upTo(j))
    BY <1>3, <2>1, FS_Subset
  <2>3. Cardinality(upTo(i)) \in Nat /\ Cardinality(upTo(j)) \in Nat
    <3> HIDE DEF kept, upTo
    <3> QED
      BY <1>0, <1>3
  <2> QED
    BY <2>2, <2>3
<1>5. \A n \in 1 .. Cardinality(kept) : \E i \in kept : number[i] = n
  <2>1. number \in [kept -> 1 .. Cardinality(kept)]
    BY <1>3
  <2>2. \A i, j \in kept : number[i] = number[j] => i = j
    <3>1. \A i, j \in kept : i = j \/ i < j \/ j < i
      BY <1>1
    <3>2. \A i \in kept : number[i] = Cardinality(upTo(i))
                          /\ Cardinality(upTo(i)) \in Nat
      <4> HIDE DEF kept, upTo
      <4> QED
        BY <1>0, <1>3
    <3> HIDE DEF kept, upTo, number
    <3> QED
      BY <1>4, <3>1, <3>2
  <2> HIDE DEF kept, number
  <2> QED
    BY <1>2, <2>1, <2>2, NumberingIsOnto
<1>6. \A n \in 1 .. Cardinality(kept) :
         Nth(n) \in kept /\ Cardinality(upTo(Nth(n))) = n
  BY <1>5
<1> DEFINE at == [n \in 1 .. Cardinality(kept) |-> Nth(n)]
           lines == [n \in 1 .. Cardinality(kept) |-> conf[Nth(n)]]
<1>7. Stripped(conf, keys) = lines
  BY Zenon DEF Stripped, Kept
<1> HIDE DEF Nth, kept, upTo
<1>8. lines \in Seq(ConfLine)
  <2>1. \A i \in kept : conf[i] \in ConfLine
    BY <1>1
  <2>2. lines \in [1 .. Cardinality(kept) -> ConfLine]
    BY <1>6, <2>1
  <2> HIDE DEF lines
  <2> QED
    BY <1>2, <2>2, FunctionIsSeq
<1>9. \A n, m \in 1 .. Cardinality(kept) : n < m => at[n] < at[m]
  <2> SUFFICES ASSUME NEW n \in 1 .. Cardinality(kept),
                      NEW m \in 1 .. Cardinality(kept), n < m
               PROVE  Nth(n) < Nth(m)
    OBVIOUS
  <2>1. /\ Nth(n) \in kept /\ Nth(m) \in kept /\ n \in Int /\ m \in Int
        /\ Cardinality(upTo(Nth(n))) = n /\ Cardinality(upTo(Nth(m))) = m
    BY <1>6
  <2>2. Nth(n) # Nth(m)
    BY <2>1
  <2>3. ~(Nth(m) < Nth(n))
    BY <1>4, <2>1
  <2>4. Nth(n) \in Int /\ Nth(m) \in Int
    BY <1>0, <2>1
  <2> QED
    BY <2>2, <2>3, <2>4
<1>10. \A i \in kept : \E n \in 1 .. Cardinality(kept) : at[n] = i
  <2> SUFFICES ASSUME NEW i \in kept
               PROVE  \E n \in 1 .. Cardinality(kept) : at[n] = i
    OBVIOUS
  <2> DEFINE n == Cardinality(upTo(i))
  <2>1. n \in 1 .. Cardinality(kept) /\ n \in Int
    BY <1>3
  <2>2. Nth(n) \in kept /\ Cardinality(upTo(Nth(n))) = n
    BY <1>6, <2>1
  <2>3. ~(Nth(n) < i) /\ ~(i < Nth(n))
    BY <1>4, <2>1, <2>2
  <2>4. Nth(n) \in Int /\ i \in Int
    BY <1>0, <2>2
  <2>5. Nth(n) = i
    BY <2>3, <2>4
  <2> QED
    BY <2>1, <2>5
<1>11. at \in [1 .. Cardinality(kept) -> kept]
  BY <1>6
<1>12. \A n \in 1 .. Cardinality(kept) : lines[n] = conf[at[n]]
  OBVIOUS
<1>13. DOMAIN lines = 1 .. Cardinality(kept)
  OBVIOUS
<1> HIDE DEF at, lines
<1>14. /\ lines \in Seq(ConfLine)
       /\ at \in [DOMAIN lines -> kept]
       /\ \A n \in DOMAIN lines : lines[n] = conf[at[n]]
       /\ \A n, m \in DOMAIN lines : n < m => at[n] < at[m]
       /\ \A i \in kept : \E n \in DOMAIN lines : at[n] = i
  BY <1>8, <1>9, <1>10, <1>11, <1>12, <1>13
<1> QED
  BY <1>7, <1>14 DEF kept

\* Of a setting that is not next to a replaced one every line is kept, and the
\* line at which it ends.
LEMMA SettingIsKept ==
    ASSUME NEW conf \in Seq(ConfLine), NEW keys, NEW key, key \notin keys,
           ~NextToReplaced(conf, key, keys), NEW i \in Begins(conf, key)
    PROVE  /\ i \in Kept(conf, keys)
           /\ \A j \in i + 1 .. Len(conf) :
                 (\A k \in i + 1 .. j - 1 : conf[k].kind # "set")
                    => j \in Kept(conf, keys)
<1> DEFINE starts == StripStarts(conf, keys)
<1>1. /\ Len(conf) \in Nat /\ DOMAIN conf = 1 .. Len(conf)
      /\ i \in 1 .. Len(conf) /\ conf[i].kind = "set" /\ conf[i].key = key
  BY DEF Begins, Sets
<1>2. \A j \in 0 .. Len(conf) : starts[j] => j > 0 /\ Sets(conf[j], keys)
  BY StartsAre
<1>3. \A j \in i + 1 .. Len(conf) :
         (\A k \in i + 1 .. j - 1 : conf[k].kind # "set") => ~Sets(conf[j], keys)
  BY DEF NextToReplaced
<1>4. i > 1 => ~Sets(conf[i - 1], keys)
  BY DEF NextToReplaced
<1>5. ~Sets(conf[i], keys)
  BY <1>1 DEF Sets
<1> HIDE DEF starts
<1>6. ~starts[i] /\ ~starts[i - 1]
  BY <1>1, <1>2, <1>4, <1>5
<1>7. ASSUME NEW j \in i + 1 .. Len(conf),
             \A k \in i + 1 .. j - 1 : conf[k].kind # "set"
      PROVE  ~starts[j] /\ ~starts[j - 1] /\ j \in 1 .. Len(conf)
  <2>1. j \in 0 .. Len(conf) /\ j - 1 \in 0 .. Len(conf) /\ j \in 1 .. Len(conf)
    BY <1>1
  <2>2. ~starts[j]
    BY <1>2, <1>3, <1>7, <2>1
  <2>3. CASE j - 1 = i
    BY <1>6, <2>1, <2>2, <2>3
  <2>4. CASE j - 1 # i
    <3>1. j - 1 \in i + 1 .. j - 1
      BY <1>1, <2>4
    <3>2. ~Sets(conf[j - 1], keys)
      BY <1>7, <3>1 DEF Sets
    <3> QED
      BY <1>2, <2>1, <2>2, <3>2
  <2> QED
    BY <2>3, <2>4
<1> QED
  BY <1>1, <1>6, <1>7 DEF Kept, starts

\* Removing the blocks of the replaced settings leaves a setting that is not
\* next to one of them as it was (postfix-makeconf.sh:23-36).
THEOREM StrippingKeeps ==
    ASSUME NEW conf \in Seq(ConfLine), NEW keys, NEW key, key \notin keys,
           ~NextToReplaced(conf, key, keys)
    PROVE  Value(Stripped(conf, keys), key) = Value(conf, key)
<1> DEFINE s == Stripped(conf, keys)
           M == Len(s)
           N == Len(conf)
           last(c) == { b \in Begins(c, key) : \A d \in Begins(c, key) : d <= b }
<1>1. s \in Seq(ConfLine) /\ M \in Nat /\ DOMAIN s = 1 .. M
  BY StrippedInOrder
<1>2. N \in Nat /\ DOMAIN conf = 1 .. N
  OBVIOUS
<1>3. PICK at \in [1 .. M -> Kept(conf, keys)] :
         /\ \A n \in 1 .. M : s[n] = conf[at[n]]
         /\ \A n, m \in 1 .. M : n < m => at[n] < at[m]
         /\ \A i \in Kept(conf, keys) : \E n \in 1 .. M : at[n] = i
  BY <1>1, StrippedInOrder
<1>4. \A n \in 1 .. M : at[n] \in Kept(conf, keys) /\ at[n] \in 1 .. N
  BY <1>3 DEF Kept
<1> HIDE DEF s, M, N
<1>5. \A n, m \in 1 .. M : /\ n < m <=> at[n] < at[m]
                           /\ n <= m <=> at[n] <= at[m]
                           /\ n = m <=> at[n] = at[m]
  <2> SUFFICES ASSUME NEW n \in 1 .. M, NEW m \in 1 .. M
               PROVE  /\ n < m <=> at[n] < at[m]
                      /\ n <= m <=> at[n] <= at[m]
                      /\ n = m <=> at[n] = at[m]
    OBVIOUS
  <2>1. /\ n \in Int /\ m \in Int /\ at[n] \in Int /\ at[m] \in Int
        /\ n < m => at[n] < at[m]
        /\ m < n => at[m] < at[n]
        /\ n = m => at[n] = at[m]
    BY <1>1, <1>2, <1>3, <1>4
  <2> QED
    BY <2>1
<1>6. \A n \in 1 .. M : n \in Begins(s, key) <=> at[n] \in Begins(conf, key)
  BY <1>1, <1>2, <1>3, <1>4 DEF Begins
<1>7. /\ Begins(s, key) \subseteq 1 .. M
      /\ \A i \in Begins(conf, key) : i \in 1 .. N /\ \E n \in 1 .. M : at[n] = i
  <2>1. Begins(s, key) \subseteq 1 .. M /\ Begins(conf, key) \subseteq 1 .. N
    BY <1>1, <1>2 DEF Begins
  <2> QED
    BY <1>3, <2>1, SettingIsKept
<1>8. \A n \in 1 .. M : n \in last(s) <=> at[n] \in last(conf)
  <2> SUFFICES ASSUME NEW n \in 1 .. M
               PROVE  n \in last(s) <=> at[n] \in last(conf)
    OBVIOUS
  <2>1. ASSUME n \in last(s), NEW d \in Begins(conf, key) PROVE d <= at[n]
    <3>1. PICK m \in 1 .. M : at[m] = d
      BY <1>7
    <3>2. m <= n
      BY <1>6, <2>1, <3>1
    <3> QED
      BY <1>5, <3>1, <3>2
  <2>2. ASSUME at[n] \in last(conf), NEW d \in Begins(s, key) PROVE d <= n
    <3>1. d \in 1 .. M /\ at[d] \in Begins(conf, key)
      BY <1>6, <1>7
    <3>2. at[d] <= at[n]
      BY <2>2, <3>1
    <3> QED
      BY <1>5, <3>1, <3>2
  <2> QED
    BY <1>6, <2>1, <2>2
<1>9. ASSUME NEW n \in 1 .. M, at[n] \in Begins(conf, key)
      PROVE  /\ \A m \in 1 .. M : m \in Block(s, n) <=> at[m] \in Block(conf, at[n])
             /\ \A j \in Block(conf, at[n]) : \E m \in 1 .. M : at[m] = j
  <2> DEFINE i == at[n]
  <2>1. i \in 1 .. N /\ n \in Int /\ i \in Int
    BY <1>1, <1>2, <1>4
  <2>2. /\ i \in Kept(conf, keys)
        /\ \A j \in i + 1 .. N :
              (\A k \in i + 1 .. j - 1 : conf[k].kind # "set")
                 => j \in Kept(conf, keys)
    BY <1>9, SettingIsKept DEF N
  <2> HIDE DEF i
  <2>3. ASSUME NEW j \in Block(conf, i) PROVE \E m \in 1 .. M : at[m] = j
    <3>1. j \in i .. N /\ \A k \in i + 1 .. j : conf[k].kind # "set"
      BY DEF Block, N
    <3>2. CASE j = i
      BY <1>3, <2>2, <3>2
    <3>3. CASE j # i
      <4>1. j \in i + 1 .. N /\ \A k \in i + 1 .. j - 1 : k \in i + 1 .. j
        BY <1>2, <2>1, <3>1, <3>3
      <4> QED
        BY <1>3, <2>2, <3>1, <4>1
    <3> QED
      BY <3>2, <3>3
  <2>4. ASSUME NEW m \in 1 .. M PROVE m \in Block(s, n) <=> at[m] \in Block(conf, i)
    <3> DEFINE j == at[m]
    <3>1. j \in 1 .. N /\ m \in Int /\ j \in Int /\ s[m] = conf[j]
      BY <1>1, <1>2, <1>3, <1>4
    <3>2. (n <= m <=> i <= j) /\ (n = m <=> i = j)
      BY <1>5 DEF i
    <3> HIDE DEF j
    <3>3. ASSUME \A k \in i + 1 .. j : conf[k].kind # "set", NEW k \in n + 1 .. m
          PROVE  s[k].kind # "set"
      <4>1. k \in 1 .. M /\ n < k /\ k <= m
        BY <1>1, <2>1, <3>1
      <4>2. at[k] \in i + 1 .. j
        <5>1. i < at[k] /\ at[k] <= j /\ at[k] \in 1 .. N
          BY <1>4, <1>5, <4>1 DEF i, j
        <5> QED
          BY <1>2, <2>1, <3>1, <5>1
      <4> QED
        BY <1>3, <3>3, <4>1, <4>2
    <3>4. ASSUME \A k \in n + 1 .. m : s[k].kind # "set"
          PROVE  \A k \in i + 1 .. j : conf[k].kind # "set"
      <4> DEFINE ends == { k \in i + 1 .. j : conf[k].kind = "set" }
      <4> SUFFICES ASSUME ends # {} PROVE FALSE
        OBVIOUS
      \* The first line that ends the setting is kept, and ends it there, too.
      <4>1. PICK e \in ends : \A k \in ends : e <= k
        <5>1. ends \in SUBSET Nat
          BY <2>1, <3>1
        <5> HIDE DEF ends
        <5> QED
          BY <5>1, FirstOf
      <4>2. e \in i + 1 .. j /\ e \in Int /\ conf[e].kind = "set"
        BY <2>1, <3>1
      <4>3. \A k \in i + 1 .. e - 1 : conf[k].kind # "set"
        <5> SUFFICES ASSUME NEW k \in i + 1 .. e - 1, conf[k].kind = "set"
                     PROVE  FALSE
          OBVIOUS
        <5>1. k \in i + 1 .. j /\ ~(e <= k)
          BY <2>1, <3>1, <4>2
        <5>2. k \in ends
          BY <5>1
        <5> HIDE DEF ends
        <5> QED
          BY <4>1, <5>1, <5>2
      <4>4. e \in i + 1 .. N
        BY <1>2, <2>1, <3>1, <4>2
      <4>5. PICK x \in 1 .. M : at[x] = e
        BY <1>3, <2>2, <4>3, <4>4
      <4>6. x \in n + 1 .. m
        <5>1. n < x /\ x <= m
          <6>1. i < e /\ e <= j
            BY <2>1, <3>1, <4>2
          <6> QED
            BY <1>5, <4>5, <6>1 DEF i, j
        <5>2. x \in Int
          BY <1>1
        <5> QED
          BY <2>1, <3>1, <5>1, <5>2
      <4>7. s[x] = conf[e]
        BY <1>3, <4>5
      <4> QED
        BY <3>4, <4>2, <4>6, <4>7
    <3>5. m \in n .. M <=> j \in i .. N
      BY <1>1, <1>2, <2>1, <3>1, <3>2
    <3>6. /\ m \in Block(s, n) <=> /\ m \in n .. M
                                   /\ m = n \/ s[m].kind = "more"
                                   /\ \A k \in n + 1 .. m : s[k].kind # "set"
          /\ j \in Block(conf, i) <=> /\ j \in i .. N
                                      /\ j = i \/ conf[j].kind = "more"
                                      /\ \A k \in i + 1 .. j : conf[k].kind # "set"
      BY DEF Block, M, N
    <3>7. m \in Block(s, n) <=> j \in Block(conf, i)
      BY <3>1, <3>2, <3>3, <3>4, <3>5, <3>6
    <3> QED
      BY <3>7 DEF j
  <2> QED
    BY <2>3, <2>4 DEF i
<1>10. \A v : v \in Value(s, key) <=>
          \E n \in last(s) : \E m \in Block(s, n) : v = s[m].text
  BY DEF Value
<1>11. \A v : v \in Value(conf, key) <=>
          \E i \in last(conf) : \E j \in Block(conf, i) : v = conf[j].text
  BY DEF Value
<1>12. \A n \in last(s) : n \in 1 .. M /\ \A m \in Block(s, n) : m \in 1 .. M
  BY <1>1, <1>7 DEF Block, M
<1>13. \A i \in last(conf) : i \in Begins(conf, key) /\ \E n \in 1 .. M : at[n] = i
  BY <1>7
<1>14. \A n \in last(s) : at[n] \in last(conf) /\ at[n] \in Begins(conf, key)
  BY <1>8, <1>12
<1> HIDE DEF last
<1>15. ASSUME NEW v \in Value(s, key) PROVE v \in Value(conf, key)
  <2>1. PICK n \in last(s) : \E m \in Block(s, n) : v = s[m].text
    BY <1>10
  <2>2. PICK m \in Block(s, n) : v = s[m].text
    BY <2>1
  <2>3. at[m] \in Block(conf, at[n]) /\ v = conf[at[m]].text
    BY <1>3, <1>9, <1>12, <1>14, <2>2
  <2> QED
    BY <1>11, <1>14, <2>3
<1>16. ASSUME NEW v \in Value(conf, key) PROVE v \in Value(s, key)
  <2>1. PICK i \in last(conf) : \E j \in Block(conf, i) : v = conf[j].text
    BY <1>11
  <2>2. PICK j \in Block(conf, i) : v = conf[j].text
    BY <2>1
  <2>3. PICK n \in 1 .. M : at[n] = i
    BY <1>13
  <2>4. n \in last(s) /\ i \in Begins(conf, key)
    BY <1>8, <1>13, <2>3
  <2>5. PICK m \in 1 .. M : at[m] = j
    BY <1>9, <2>2, <2>3, <2>4
  <2>6. m \in Block(s, n) /\ v = s[m].text
    BY <1>3, <1>9, <2>2, <2>3, <2>4, <2>5
  <2> QED
    BY <1>10, <2>4, <2>6
<1> QED
  BY <1>15, <1>16 DEF s

\* A configuration that does not go on with the setting that is before it.
BeginsAnew(conf) ==
    \A j \in DOMAIN conf : conf[j].kind = "more" =>
        \E k \in 1 .. j - 1 : conf[k].kind = "set"

\* What is appended takes away only the settings that it sets itself
\* (postfix-makeconf.sh:39).
THEOREM AppendingKeeps ==
    ASSUME NEW conf \in Seq(ConfLine), NEW own \in Seq(ConfLine), NEW key,
           key \notin SetIn(own), BeginsAnew(own)
    PROVE  Value(conf \o own, key) = Value(conf, key)
<1> DEFINE whole == conf \o own
           N == Len(conf)
<1>1. /\ N \in Nat /\ Len(own) \in Nat
      /\ Len(whole) = N + Len(own)
      /\ DOMAIN conf = 1 .. N /\ DOMAIN whole = 1 .. Len(whole)
      /\ DOMAIN own = 1 .. Len(own)
      /\ \A i \in 1 .. N : whole[i] = conf[i]
      /\ \A i \in 1 .. Len(own) : whole[N + i] = own[i]
  <2>1. whole \in Seq(ConfLine)
    BY ConcatProperties
  <2> QED
    BY <2>1
<1> HIDE DEF whole, N
<1>2. \A i \in 1 .. Len(whole) :
         i \in 1 .. N \/ (i - N \in 1 .. Len(own) /\ N + (i - N) = i)
  BY <1>1
<1>3. Begins(whole, key) = Begins(conf, key)
  <2>1. \A i \in 1 .. N : i \in 1 .. Len(whole)
    BY <1>1
  <2>2. \A i \in 1 .. Len(own) : ~Sets(own[i], { key })
    BY <1>1 DEF Sets, SetIn, ToSet
  <2>3. \A i \in 1 .. Len(whole) :
           Sets(whole[i], { key }) => i \in 1 .. N
    BY <1>1, <1>2, <2>2
  <2> QED
    BY <1>1, <2>1, <2>3 DEF Begins
<1>4. ASSUME NEW i \in 1 .. N PROVE Block(whole, i) = Block(conf, i)
  <2>1. ASSUME NEW j \in i .. N
        PROVE  j \in Block(whole, i) <=> j \in Block(conf, i)
    <3>1. j \in i .. Len(whole) /\ j \in 1 .. N /\ whole[j] = conf[j]
      BY <1>1
    <3>2. \A k \in i + 1 .. j : whole[k] = conf[k]
      BY <1>1
    <3> QED
      BY <3>1, <3>2 DEF Block, N
  <2>2. ASSUME NEW j \in Block(whole, i) PROVE j \in i .. N
    <3>1. /\ j \in i .. Len(whole)
          /\ j = i \/ whole[j].kind = "more"
          /\ \A k \in i + 1 .. j : whole[k].kind # "set"
      BY DEF Block
    <3> SUFFICES ASSUME j \notin i .. N PROVE FALSE
      OBVIOUS
    <3>2. j - N \in 1 .. Len(own) /\ N + (j - N) = j /\ j # i /\ j \in Int
      BY <1>1, <3>1
    <3>3. own[j - N].kind = "more"
      BY <1>1, <3>1, <3>2
    <3>4. PICK k \in 1 .. j - N - 1 : own[k].kind = "set"
      BY <1>1, <3>2, <3>3 DEF BeginsAnew
    <3>5. k \in 1 .. Len(own) /\ N + k \in i + 1 .. j
      BY <1>1, <3>2
    <3> QED
      BY <1>1, <3>1, <3>4, <3>5
  <2>3. \A j \in Block(conf, i) : j \in i .. N
    BY DEF Block, N
  <2> QED
    BY <2>1, <2>2, <2>3
<1>5. Begins(conf, key) \subseteq 1 .. N
  BY <1>1 DEF Begins
<1>6. \A v : v \in Value(whole, key) <=>
         \E i \in Begins(conf, key) :
            /\ \A c \in Begins(conf, key) : c <= i
            /\ \E j \in Block(conf, i) : v = whole[j].text
  BY <1>3, <1>4, <1>5 DEF Value
<1>7. \A i \in 1 .. N : \A j \in Block(conf, i) : whole[j] = conf[j]
  BY <1>1 DEF Block, N
<1>8. \A v : v \in Value(conf, key) <=>
         \E i \in Begins(conf, key) :
            /\ \A c \in Begins(conf, key) : c <= i
            /\ \E j \in Block(conf, i) : v = conf[j].text
  BY DEF Value
<1>9. \A v : v \in Value(whole, key) <=> v \in Value(conf, key)
  BY <1>5, <1>6, <1>7, <1>8
<1> QED
  BY <1>9 DEF whole, Value

EndsWith(whole, own) ==
    LET before == Len(whole) - Len(own)
    IN  /\ before >= 0
        /\ \A i \in DOMAIN own : whole[before + i] = own[i]

\* A key that the end of a configuration sets has the value it has there,
\* whatever comes before (postfix-makeconf.sh:39).
THEOREM LastSettingsCount ==
    ASSUME NEW whole \in Seq(ConfLine), NEW own \in Seq(ConfLine),
           EndsWith(whole, own), NEW key \in SetIn(own)
    PROVE  Value(whole, key) = Value(own, key)
<1> DEFINE before == Len(whole) - Len(own)
           last(conf) == { b \in Begins(conf, key) :
                             \A c \in Begins(conf, key) : c <= b }
<1>1. /\ before \in Nat /\ Len(own) \in Nat /\ Len(whole) = before + Len(own)
      /\ DOMAIN own = 1 .. Len(own) /\ DOMAIN whole = 1 .. Len(whole)
      /\ \A i \in 1 .. Len(own) : whole[before + i] = own[i]
  BY DEF EndsWith
<1> HIDE DEF before
<1>2. \A b \in 1 .. Len(own) :
         b \in Begins(own, key) <=> before + b \in Begins(whole, key)
  BY <1>1 DEF Begins, Sets
<1>3. Begins(own, key) \subseteq 1 .. Len(own)
      /\ Begins(whole, key) \subseteq 1 .. Len(whole)
  BY <1>1 DEF Begins
<1>4. PICK first \in 1 .. Len(own) : first \in Begins(own, key)
  <2>1. PICK i \in DOMAIN own : own[i].kind = "set" /\ own[i].key = key
    BY DEF SetIn, ToSet
  <2> QED
    BY <1>1, <2>1 DEF Begins, Sets
<1>5. \A w \in last(whole) : w - before \in last(own)
  <2> SUFFICES ASSUME NEW w \in last(whole) PROVE w - before \in last(own)
    OBVIOUS
  <2>1. w \in 1 .. Len(whole) /\ before + first <= w
    BY <1>1, <1>2, <1>3, <1>4
  <2>2. w - before \in 1 .. Len(own) /\ before + (w - before) = w
    BY <1>1, <1>4, <2>1
  <2>3. w - before \in Begins(own, key)
    BY <1>2, <2>2
  <2>4. \A c \in Begins(own, key) : c <= w - before
    <3> SUFFICES ASSUME NEW c \in Begins(own, key) PROVE c <= w - before
      OBVIOUS
    <3>1. c \in 1 .. Len(own) /\ before + c <= w
      BY <1>2, <1>3
    <3> QED
      BY <1>1, <2>1, <3>1
  <2> QED
    BY <2>3, <2>4
<1>6. \A b \in last(own) : before + b \in last(whole)
  <2> SUFFICES ASSUME NEW b \in last(own) PROVE before + b \in last(whole)
    OBVIOUS
  <2>1. b \in 1 .. Len(own) /\ before + b \in Begins(whole, key)
    BY <1>2, <1>3
  <2>2. \A c \in Begins(whole, key) : c <= before + b
    <3> SUFFICES ASSUME NEW c \in Begins(whole, key) PROVE c <= before + b
      OBVIOUS
    <3>1. c \in 1 .. Len(whole)
      BY <1>3
    <3>2. CASE c <= before
      BY <1>1, <2>1, <3>1, <3>2
    <3>3. CASE ~(c <= before)
      <4>1. c - before \in 1 .. Len(own) /\ before + (c - before) = c
        BY <1>1, <3>1, <3>3
      <4>2. c - before <= b
        BY <1>2, <4>1
      <4> QED
        BY <1>1, <2>1, <4>1, <4>2
    <3> QED
      BY <3>2, <3>3
  <2> QED
    BY <2>1, <2>2
<1>7. \A b \in 1 .. Len(own), j \in 1 .. Len(own) :
         j \in Block(own, b) <=> before + j \in Block(whole, before + b)
  <2> SUFFICES ASSUME NEW b \in 1 .. Len(own), NEW j \in 1 .. Len(own)
               PROVE  j \in Block(own, b)
                         <=> before + j \in Block(whole, before + b)
    OBVIOUS
  <2>1. (\A k \in b + 1 .. j : own[k].kind # "set")
           <=> \A k \in before + b + 1 .. before + j : whole[k].kind # "set"
    <3>1. ASSUME NEW k \in b + 1 .. j
          PROVE  /\ before + k \in before + b + 1 .. before + j
                 /\ whole[before + k] = own[k]
      BY <1>1
    <3>2. ASSUME NEW k \in before + b + 1 .. before + j
          PROVE  k - before \in b + 1 .. j /\ whole[k] = own[k - before]
      <4>1. k - before \in b + 1 .. j /\ before + (k - before) = k
            /\ k - before \in 1 .. Len(own)
        BY <1>1
      <4> QED
        BY <1>1, <4>1
    <3> QED
      BY <3>1, <3>2
  <2>2. j \in b .. Len(own) <=> before + j \in before + b .. Len(whole)
    BY <1>1
  <2>3. j = b <=> before + j = before + b
    BY <1>1
  <2>4. whole[before + j] = own[j]
    BY <1>1
  <2> QED
    BY <2>1, <2>2, <2>3, <2>4 DEF Block
<1>8. \A b \in 1 .. Len(own) : \A j \in Block(whole, before + b) :
         j - before \in 1 .. Len(own) /\ before + (j - before) = j
  BY <1>1 DEF Block
<1>9. \A b \in 1 .. Len(own) : Block(own, b) \subseteq 1 .. Len(own)
  BY <1>1 DEF Block
<1>10. Value(whole, key) \subseteq Value(own, key)
  <2> SUFFICES ASSUME NEW w \in last(whole), NEW j \in Block(whole, w)
               PROVE  whole[j].text \in Value(own, key)
    BY DEF Value
  <2>1. w - before \in last(own) /\ w - before \in 1 .. Len(own)
    BY <1>3, <1>5
  <2>2. before + (w - before) = w
    BY <1>1, <1>3
  <2>3. j - before \in 1 .. Len(own) /\ before + (j - before) = j
    BY <1>8, <2>1, <2>2
  <2>4. j - before \in Block(own, w - before)
    BY <1>7, <2>1, <2>2, <2>3
  <2>5. whole[j] = own[j - before]
    BY <1>1, <2>3
  <2> QED
    BY <2>1, <2>4, <2>5 DEF Value
<1>11. Value(own, key) \subseteq Value(whole, key)
  <2> SUFFICES ASSUME NEW b \in last(own), NEW j \in Block(own, b)
               PROVE  own[j].text \in Value(whole, key)
    BY DEF Value
  <2>1. b \in 1 .. Len(own) /\ j \in 1 .. Len(own)
    BY <1>3, <1>9
  <2>2. before + j \in Block(whole, before + b) /\ before + b \in last(whole)
    BY <1>6, <1>7, <2>1
  <2>3. whole[before + j] = own[j]
    BY <1>1, <2>1
  <2> QED
    BY <2>2, <2>3 DEF Value
<1> QED
  BY <1>10, <1>11

-----------------------------------------------------------------------------
\* The gadget boots in the invariant.
LEMMA InitIInv == Init => IInv
<1> SUFFICES ASSUME Init PROVE IInv
  OBVIOUS
<1>1. PICK o \in Openings :
         /\ MakeconfInit(o.localConf)
         /\ today = o.today
         /\ place = o.place
         /\ received = o.received
         /\ clientSteps = o.clientSteps
         /\ reboots = o.reboots
         /\ midnights = o.midnights
  BY DEF Init
<1>2. MakeconfTypeOK
  BY <1>1, OpeningsAssumption DEF MakeconfInit, MakeconfTypeOK
<1>3. FolderTypeOK
  BY <1>1, OpeningsAssumption DEF Init, FolderTypeOK, InSpam
<1>4. ScanTypeOK
  <2>1. << >> \in Seq({ Email(m) : m \in Messages })
    BY EmptySeq
  <2> QED
    BY <1>1, <2>1, OpeningsAssumption
       DEF Init, ScanInit, ScanTypeOK, ScanPC, NoCharts
<1>5. TypeOK
  BY <1>1, <1>2, <1>3, <1>4, OpeningsAssumption DEF Init, TypeOK
<1>6. ConfigurationIsMade
  BY <1>1 DEF Init, MakeconfInit, ConfigurationIsMade
<1>7. TaughtAfterDelivery /\ LessonsMatchFolders
  BY DEF Init, TaughtAfterDelivery, LessonsMatchFolders, InSpam, ContainsYes
<1>8. listed = {} /\ emails = << >> /\ domains = {} /\ scan = "idle"
  BY DEF Init, ScanInit
<1>9. /\ ListedOnce /\ ReadOnce
      /\ ReadAreMovedOrMarked /\ MisclassifiedWereMovedOrMarked
  BY <1>8 DEF ListedOnce, ReadOnce, CountedOnce, ReadAreMovedOrMarked,
     MisclassifiedWereMovedOrMarked
<1>10. StandingMailIsOnItsWay /\ StandingMailIsCounted
  BY <1>8 DEF StandingMailIsOnItsWay, StandingMailIsCounted
<1>11. DatesArePast
  <2>1. today \in Nat /\ lastRun = 0
    BY <1>5 DEF Init, ScanInit, TypeOK, ScanTypeOK
  <2>2. \A m \in Messages : received[m] <= today
    BY <1>1, OpeningsAssumption
  <2> QED
    BY <2>1, <2>2 DEF DatesArePast
<1>12. ChartsAreOfTheList
  BY <1>8 DEF ChartsAreOfTheList, AfterSort, AfterRate, AfterDaily, AfterWeekly,
     PanicsWithoutRecentSpam, Reported
<1> QED
  BY <1>5, <1>6, <1>7, <1>9, <1>10, <1>11, <1>12 DEF IInv

-----------------------------------------------------------------------------
(***************************************************************************)
(* What a step of somebody else may do to a message                        *)
(***************************************************************************)
LEMMA FolderStep ==
    ASSUME FolderTypeOK, today \in Nat, NEW m \in Messages,
           Deliver(m, today) \/ Client(m)
    PROVE  /\ FolderTypeOK'
           /\ \A x \in Messages : x # m =>
                 /\ place'[x] = place[x] /\ copy'[x] = copy[x]
                 /\ received'[x] = received[x] /\ taught'[x] = taught[x]
           /\ place'[m] # "none"
           /\ copy[m] <= copy'[m]
           /\ place[m] # "none" => received'[m] = received[m]
           /\ copy'[m] = copy[m] /\ place[m] \notin { "none", "new" }
                 => place'[m] # "new"
           /\ taught[m] # "none" => taught'[m] # "none"
<1> USE DEF FolderTypeOK, ClientStep
<1>1. CASE Deliver(m, today)
  <2>1. Filed(m) \in { "new", "out" }
    BY DEF Filed
  <2> QED
    BY <1>1, <2>1 DEF Deliver, InSpam
<1>2. CASE MoveIntoSpam(m)
  BY <1>2 DEF MoveIntoSpam, Learns, InSpam
<1>3. CASE MoveOutOfSpam(m)
  BY <1>3 DEF MoveOutOfSpam, Learns, InSpam
<1>4. CASE Notice(m) \/ Read(m) \/ Expunge(m)
  BY <1>4 DEF Notice, Read, Expunge, InSpam
<1> QED
  BY <1>1, <1>2, <1>3, <1>4 DEF Client

\* What Dovecot and the client do to a message keeps the lessons in line with
\* the folders.
LEMMA LessonsStep ==
    ASSUME FolderTypeOK, today \in Nat, NEW m \in Messages,
           Deliver(m, today) \/ Client(m),
           TaughtAfterDelivery, LessonsMatchFolders
    PROVE  TaughtAfterDelivery' /\ LessonsMatchFolders'
<1> USE DEF FolderTypeOK, TaughtAfterDelivery, LessonsMatchFolders, InSpam
<1>1. CASE Deliver(m, today)
  BY <1>1 DEF Deliver, Filed, ContainsYes
<1>2. CASE MoveIntoSpam(m)
  BY <1>2 DEF MoveIntoSpam, Learns
<1>3. CASE MoveOutOfSpam(m)
  BY <1>3 DEF MoveOutOfSpam, Learns
<1>4. CASE Notice(m) \/ Read(m) \/ Expunge(m)
  BY <1>4 DEF Notice, Read, Expunge
<1> QED
  BY <1>1, <1>2, <1>3, <1>4 DEF Client

\* The list is made of messages as the folder has them, with dates to sort by.
LEMMA EmailsAre ==
    ASSUME FolderTypeOK, ScanTypeOK
    PROVE  /\ Len(emails) \in Nat /\ DOMAIN emails = 1 .. Len(emails)
           /\ \A i \in DOMAIN emails :
                 /\ emails[i].msg \in Messages
                 /\ emails[i] = Email(emails[i].msg)
           /\ Dated(emails)
<1>1. Len(emails) \in Nat /\ DOMAIN emails = 1 .. Len(emails)
  BY DEF ScanTypeOK
<1>2. \A i \in DOMAIN emails : \E m \in Messages : emails[i] = Email(m)
  BY DEF ScanTypeOK
<1>3. \A m \in Messages : Email(m).msg = m /\ Email(m).date \in Int
  BY DEF Email, FolderTypeOK
<1> QED
  BY <1>1, <1>2, <1>3 DEF Dated

\* The sorted list is typed, and has the messages of the list.
LEMMA SortedEmails ==
    ASSUME FolderTypeOK, ScanTypeOK
    PROVE  /\ Sorted(emails) \in Seq({ Email(m) : m \in Messages })
           /\ \A m : (\E i \in DOMAIN emails : emails[i].msg = m)
                     <=> \E i \in DOMAIN Sorted(emails) : Sorted(emails)[i].msg = m
           /\ \A i \in DOMAIN Sorted(emails) :
                 \E k \in DOMAIN emails : Sorted(emails)[i] = emails[k]
           /\ CountedOnce => \A i, j \in DOMAIN Sorted(emails) :
                 Sorted(emails)[i].msg = Sorted(emails)[j].msg => i = j
<1> DEFINE D == DOMAIN emails
           sorted == Sorted(emails)
<1>1. Dated(emails)
  BY EmailsAre
<1>2. DOMAIN sorted = D
  BY <1>1, SortedIsSorted
<1>3. PICK pos \in [D -> D] :
         /\ \A n \in D : sorted[n] = emails[pos[n]]
         /\ \A n, k \in D : pos[n] = pos[k] => n = k
         /\ \A i \in D : \E n \in D : pos[n] = i
  BY <1>1, SortedIsSorted
<1> HIDE DEF sorted
<1>4. sorted \in Seq({ Email(m) : m \in Messages })
  <2>1. sorted \in [1 .. Len(emails) -> { Email(m) : m \in Messages }]
    <3>1. \A n \in D : sorted[n] \in { Email(m) : m \in Messages }
      <4>1. \A i \in D : emails[i] \in { Email(m) : m \in Messages }
        BY DEF ScanTypeOK
      <4> QED
        BY <1>3, <4>1
    <3>2. sorted = [n \in D |-> sorted[n]]
      BY DEF sorted, Sorted
    <3>3. D = 1 .. Len(emails)
      BY EmailsAre
    <3> QED
      BY <3>1, <3>2, <3>3
  <2> QED
    BY <2>1, EmailsAre, FunctionIsSeq
<1>5. \A n \in D : \E k \in D : sorted[n] = emails[k]
  BY <1>3
<1>6. \A m : (\E i \in D : emails[i].msg = m) <=> \E i \in D : sorted[i].msg = m
  BY <1>3
<1>7. CountedOnce => \A i, j \in D : sorted[i].msg = sorted[j].msg => i = j
  BY <1>3 DEF CountedOnce
<1> QED
  BY <1>2, <1>4, <1>5, <1>6, <1>7 DEF sorted

-----------------------------------------------------------------------------
(***************************************************************************)
(* Type correctness                                                        *)
(***************************************************************************)
LEMMA TypeStep ==
    ASSUME TypeOK, ReadOnce, Next PROVE TypeOK'
<1> USE DEF TypeOK
<1>1. ASSUME MakeConfiguration PROVE TypeOK'
  <2>1. MakeconfTypeOK'
    <3>1. CASE StripBase
      <4>1. BaseConf \in Seq(ConfLine) /\ << >> \in Seq(ConfLine)
        BY ConfAssumption, EmptySeq
      <4>2. Stripped(BaseConf, Keys(localConf)) \in Seq(ConfLine)
        BY <4>1, StrippedInOrder
      <4> QED
        BY <3>1, <4>1, <4>2 DEF StripBase, MakeconfTypeOK
    <3>2. CASE AppendLocal
      <4>1. mainCf \o localConf \in Seq(ConfLine)
        BY ConfAssumption, ConcatProperties DEF MakeconfTypeOK
      <4> QED
        BY <3>2, <4>1 DEF AppendLocal, MakeconfTypeOK
    <3> QED
      BY <1>1, <3>1, <3>2 DEF MakeConfiguration, MakeconfStep
  <2>2. FolderTypeOK' /\ ScanTypeOK'
    BY <1>1 DEF MakeConfiguration, folderVars, scanVars, FolderTypeOK,
       ScanTypeOK, Email
  <2> QED
    BY <1>1, <2>1, <2>2 DEF MakeConfiguration, gadgetVars
<1>2. ASSUME StartPostfix \/ StopPostfix \/ Midnight PROVE TypeOK'
  <2>1. MakeconfTypeOK' /\ FolderTypeOK'
    BY <1>2 DEF StartPostfix, StopPostfix, Midnight, makeconfVars, folderVars,
       MakeconfTypeOK, FolderTypeOK
  <2>2. ScanTypeOK'
    BY <1>2 DEF StartPostfix, StopPostfix, Midnight, folderVars, scanVars,
       ScanTypeOK, Email
  <2>3. postfix' \in BOOLEAN
    BY <1>2, Zenon DEF StartPostfix, StopPostfix, Midnight
  <2>4. reboots' \in Nat /\ midnights' \in Nat
    BY <1>2 DEF StartPostfix, StopPostfix, Midnight
  <2> QED
    BY <2>1, <2>2, <2>3, <2>4
<1>3. ASSUME Delivery \/ UseMail PROVE TypeOK'
  <2>1. PICK m \in Messages : (Deliver(m, today) \/ Client(m)) /\ Touch(m)
    BY <1>3 DEF Delivery, UseMail
  <2>2. FolderTypeOK'
    BY <2>1, FolderStep DEF ScanTypeOK
  <2>3. UNCHANGED << today, scanVars, makeconfVars, gadgetVars >>
    BY <1>3, <2>1 DEF Delivery, UseMail, Touch
  <2>4. emails' \in Seq({ Email(x) : x \in Messages }')
    <3>1. \A i \in DOMAIN emails : emails[i] \in { Email(x) : x \in Messages }'
      <4> SUFFICES ASSUME NEW i \in DOMAIN emails
                   PROVE  emails[i] \in { Email(x) : x \in Messages }'
        OBVIOUS
      <4>1. emails[i].msg \in Messages /\ emails[i] = Email(emails[i].msg)
        BY EmailsAre
      <4>2. received'[emails[i].msg] = received[emails[i].msg]
        BY <2>1, <4>1, FolderStep DEF ScanTypeOK, ReadOnce
      <4> QED
        BY <4>1, <4>2 DEF Email
    <3>2. emails' = emails
      BY <2>3 DEF scanVars
    <3> QED
      BY <3>1, <3>2, SeqOfType DEF ScanTypeOK
  <2>5. ScanTypeOK'
    BY <2>1, <2>3, <2>4 DEF Touch, scanVars, ScanTypeOK
  <2> QED
    BY <2>2, <2>3, <2>5 DEF makeconfVars, gadgetVars, MakeconfTypeOK
<1>4. ASSUME Scan PROVE TypeOK'
  <2>1. MakeconfTypeOK' /\ FolderTypeOK' /\ UNCHANGED gadgetVars
    <3>1. UNCHANGED << makeconfVars, gadgetVars, folderVars >>
      BY <1>4 DEF Scan, ScanStep, Cron, AskRspamc, ListCur, ListNew, OpenFile,
         AllOpened, SortAndCount, DrawRate, DrawDaily, DrawWeekly,
         ReportDomains, Send
    <3> QED
      BY <3>1 DEF makeconfVars, folderVars, MakeconfTypeOK, FolderTypeOK
  <2>2. { Email(m) : m \in Messages }' = { Email(m) : m \in Messages }
    BY <1>4 DEF Scan, ScanStep, Cron, AskRspamc, ListCur, ListNew, OpenFile,
       AllOpened, SortAndCount, DrawRate, DrawDaily, DrawWeekly,
       ReportDomains, Send, folderVars, Email
  <2>3. ScanTypeOK'
    <3> USE DEF ScanTypeOK, ScanPC
    <3>1. CASE Cron
      <4>1. << >> \in Seq({ Email(m) : m \in Messages })
        BY EmptySeq
      <4> QED
        BY <2>2, <3>1, <4>1 DEF Cron
    <3>2. CASE AskRspamc \/ AllOpened
      BY <2>2, <3>2 DEF AskRspamc, AllOpened
    <3>3. CASE ListCur \/ ListNew
      <4>1. \A places \in SUBSET InSpam :
               Files(places) \subseteq [msg : Messages, copy : Nat, place : InSpam]
        BY DEF Files, Path, FolderTypeOK
      <4>2. { "cur", "seen" } \subseteq InSpam /\ { "new" } \subseteq InSpam
        BY DEF InSpam
      <4>3. listed' \subseteq [msg : Messages, copy : Nat, place : InSpam]
        BY <3>3, <4>1, <4>2 DEF ListCur, ListNew
      <4> QED
        BY <2>2, <3>3, <4>3 DEF ListCur, ListNew
    <3>4. CASE OpenFile
      <4>1. PICK p \in listed :
               /\ listed' = listed \ { p }
               /\ emails' = IF p = Path(p.msg) /\ Mail[p.msg].scored
                            THEN Append(emails, Email(p.msg)) ELSE emails
        BY <3>4 DEF OpenFile
      <4>2. Email(p.msg) \in { Email(m) : m \in Messages }
        OBVIOUS
      <4>3. emails' \in Seq({ Email(m) : m \in Messages })
        BY <4>1, <4>2, AppendProperties
      <4> QED
        BY <2>2, <3>4, <4>1, <4>3 DEF OpenFile
    <3>5. CASE SortAndCount
      <4>1. emails' \in Seq({ Email(m) : m \in Messages })
        BY <3>5, SortedEmails DEF SortAndCount
      <4>2. DOMAIN charts' = DOMAIN charts
        BY <3>5 DEF SortAndCount
      <4> QED
        BY <2>2, <3>5, <4>1, <4>2 DEF SortAndCount
    <3>6. CASE DrawRate \/ DrawDaily \/ DrawWeekly
      <4>1. DOMAIN charts' = DOMAIN charts
        BY <3>6 DEF DrawRate, DrawDaily, DrawWeekly
      <4>2. scan' \in ScanPC
        BY <3>6 DEF DrawRate, DrawDaily, DrawWeekly
      <4>3. UNCHANGED << today, listed, emails, lastRun, touched >>
        BY <3>6 DEF DrawRate, DrawDaily, DrawWeekly
      <4> QED
        BY <2>2, <4>1, <4>2, <4>3
    <3>7. CASE ReportDomains \/ Send(postfix)
      BY <2>2, <3>7 DEF ReportDomains, Send
    <3> QED
      BY <1>4, <3>1, <3>2, <3>3, <3>4, <3>5, <3>6, <3>7 DEF Scan, ScanStep
  <2> QED
    BY <2>1, <2>3 DEF gadgetVars
<1>5. ASSUME Reboot PROVE TypeOK'
  <2>1. MakeconfTypeOK' /\ FolderTypeOK'
    BY <1>5 DEF Reboot, MakeconfReboot, folderVars, MakeconfTypeOK, FolderTypeOK
  <2>2. << >> \in Seq({ Email(m) : m \in Messages }')
    BY EmptySeq
  <2>3. ScanTypeOK'
    BY <1>5, <2>2 DEF Reboot, ScanTypeOK, ScanPC
  <2>4. postfix' \in BOOLEAN
    BY <1>5, Zenon DEF Reboot
  <2>5. reboots' \in Nat /\ midnights' \in Nat
    BY <1>5 DEF Reboot
  <2> QED
    BY <2>1, <2>3, <2>4, <2>5
<1> QED
  BY <1>1, <1>2, <1>3, <1>4, <1>5 DEF Next

-----------------------------------------------------------------------------
\* Each way to make, use or lose the configuration keeps it made.
LEMMA ConfigurationStep ==
    ASSUME TypeOK, ConfigurationIsMade, Next PROVE ConfigurationIsMade'
<1> USE DEF ConfigurationIsMade
<1>1. ASSUME MakeConfiguration PROVE ConfigurationIsMade'
  <2>1. CASE StripBase
    BY <1>1, <2>1 DEF MakeConfiguration, StripBase, gadgetVars
  <2>2. CASE AppendLocal
    BY <1>1, <2>2 DEF MakeConfiguration, AppendLocal, gadgetVars
  <2> QED
    BY <1>1, <2>1, <2>2 DEF MakeConfiguration, MakeconfStep
<1>2. ASSUME StartPostfix \/ StopPostfix PROVE ConfigurationIsMade'
  BY <1>2 DEF StartPostfix, StopPostfix, makeconfVars
<1>3. ASSUME Delivery \/ UseMail \/ Scan \/ Midnight PROVE ConfigurationIsMade'
  <2>1. UNCHANGED << makeconfVars, postfix >>
    BY <1>3 DEF Delivery, UseMail, Scan, Midnight, gadgetVars
  <2> QED
    BY <2>1 DEF makeconfVars
<1>4. ASSUME Reboot PROVE ConfigurationIsMade'
  BY <1>4 DEF Reboot, MakeconfReboot
<1> QED
  BY <1>1, <1>2, <1>3, <1>4 DEF Next

\* The steps that leave the mail and the scan alone.
LEMMA Elsewhere ==
    ASSUME MakeConfiguration \/ StartPostfix \/ StopPostfix \/ Midnight
    PROVE  UNCHANGED << folderVars, scan, listed, emails, domains, touched >>
BY DEF MakeConfiguration, StartPostfix, StopPostfix, Midnight, scanVars

\* The steps of the scan that only compute and draw.
LEMMA QuietScan ==
    ASSUME AskRspamc \/ AllOpened \/ DrawRate \/ DrawDaily \/ DrawWeekly
           \/ ReportDomains \/ Send(postfix)
    PROVE  /\ UNCHANGED << folderVars, listed, emails, touched >>
           /\ scan' \notin { "idle", "rspamc", "listNew", "open" }
           /\ scan' = "listCur" => scan = "rspamc"
           /\ scan' = "sort" => scan = "open" /\ listed = {}
           /\ scan' \in { "rate", "daily", "weekly", "domains" } =>
                 scan \in { "sort", "rate", "daily", "weekly", "domains" }
BY DEF AskRspamc, AllOpened, DrawRate, DrawDaily, DrawWeekly, ReportDomains,
       Send

\* A delivery and a step of the client are about one message, which is touched.
LEMMA FolderPart ==
    ASSUME TypeOK, Delivery \/ UseMail
    PROVE  \E m \in Messages :
              /\ Deliver(m, today) \/ Client(m)
              /\ today \in Nat /\ FolderTypeOK
              /\ touched' = touched \cup { m }
              /\ UNCHANGED << scan, listed, emails, domains >>
BY DEF Delivery, UseMail, Touch, scanVars, TypeOK, ScanTypeOK

\* No step brings the lessons out of line with the folders.
LEMMA LessonsAreKept ==
    ASSUME TypeOK, TaughtAfterDelivery, LessonsMatchFolders, Next
    PROVE  TaughtAfterDelivery' /\ LessonsMatchFolders'
<1>1. CASE Delivery \/ UseMail
  BY <1>1, FolderPart, LessonsStep
<1>2. CASE ~(Delivery \/ UseMail)
  <2>1. UNCHANGED << place, taught >>
    BY <1>2, Elsewhere DEF Next, Scan, ScanStep, Cron, AskRspamc, ListCur, ListNew,
       OpenFile, AllOpened, SortAndCount, DrawRate, DrawDaily, DrawWeekly,
       ReportDomains, Send, Reboot, folderVars
  <2> QED
    BY <2>1 DEF TaughtAfterDelivery, LessonsMatchFolders
<1> QED
  BY <1>1, <1>2

-----------------------------------------------------------------------------
(***************************************************************************)
(* The list of files                                                       *)
(***************************************************************************)
LEMMA ListedStep ==
    ASSUME TypeOK, ListedOnce, Next PROVE ListedOnce'
<1> DEFINE Paths == [msg : Messages, copy : Nat, place : InSpam]
<1>0. /\ listed \subseteq Paths
      /\ copy \in [Messages -> Nat]
      /\ \A m \in Messages : Path(m) = [msg |-> m, copy |-> copy[m],
                                       place |-> place[m]]
  BY DEF TypeOK, ScanTypeOK, FolderTypeOK, Path
<1>1. ASSUME MakeConfiguration \/ StartPostfix \/ StopPostfix \/ Midnight
      PROVE  ListedOnce'
  BY <1>1, Elsewhere DEF ListedOnce, folderVars
<1>2. ASSUME Delivery \/ UseMail PROVE ListedOnce'
  <2>1. PICK m \in Messages :
           /\ Deliver(m, today) \/ Client(m)
           /\ today \in Nat /\ FolderTypeOK
           /\ UNCHANGED << scan, listed >>
    BY <1>2, FolderPart
  <2>2. \A p \in listed : p.msg \in Messages /\ p.copy \in Nat
    BY <1>0
  <2>3. /\ FolderTypeOK'
        /\ \A x \in Messages : x # m => place'[x] = place[x] /\ copy'[x] = copy[x]
        /\ place'[m] # "none"
        /\ copy[m] <= copy'[m]
        /\ copy'[m] = copy[m] /\ place[m] \notin { "none", "new" }
              => place'[m] # "new"
    BY <2>1, FolderStep
  <2>4. copy[m] \in Nat /\ copy'[m] \in Nat
    BY <2>1, <2>3 DEF FolderTypeOK
  <2>5. \A p \in listed : place'[p.msg] # "none" /\ p.copy <= copy'[p.msg]
    BY <2>2, <2>3, <2>4 DEF ListedOnce
  <2>6. scan = "listNew" =>
           \A p \in listed : p.copy = copy'[p.msg] => place'[p.msg] # "new"
    <3> SUFFICES ASSUME scan = "listNew", NEW p \in listed,
                        p.copy = copy'[p.msg]
                 PROVE  place'[p.msg] # "new"
      OBVIOUS
    <3>1. CASE p.msg # m
      BY <2>2, <2>3, <3>1 DEF ListedOnce
    <3>2. CASE p.msg = m
      <4>1. p.copy <= copy[m] /\ place[m] # "none"
        BY <3>2 DEF ListedOnce
      <4>2. p.copy = copy[m] /\ copy'[m] = copy[m]
        BY <2>2, <2>3, <2>4, <3>2, <4>1
      <4>3. place[m] # "new"
        BY <3>2, <4>2 DEF ListedOnce
      <4> QED
        BY <2>3, <3>2, <4>1, <4>2, <4>3
    <3> QED
      BY <3>1, <3>2
  <2> QED
    BY <2>1, <2>5, <2>6 DEF ListedOnce
<1>3. ASSUME Cron \/ Reboot PROVE ListedOnce'
  BY <1>3 DEF Cron, Reboot, ListedOnce
<1>4. ASSUME ListCur PROVE ListedOnce'
  <2>1. UNCHANGED << place, copy >> /\ listed = {}
    BY <1>4 DEF ListCur, folderVars, ListedOnce
  <2>2. CASE scan' = "failed"
    BY <1>4, <2>1, <2>2 DEF ListCur, ListedOnce
  <2>3. CASE scan' = "listNew"
    <3>1. \A p \in listed' : \E m \in Messages :
             p = Path(m) /\ place[m] \in { "cur", "seen" }
      BY <1>4, <2>3 DEF ListCur, Files
    <3>2. \A p \in listed' :
             /\ p.msg \in Messages /\ p = Path(p.msg)
             /\ p.copy = copy[p.msg] /\ place[p.msg] \in { "cur", "seen" }
      BY <1>0, <3>1
    <3>3. \A p \in listed' : copy[p.msg] \in Nat
      BY <1>0, <3>2
    <3> QED
      BY <2>1, <2>3, <3>2, <3>3 DEF ListedOnce
  <2> QED
    BY <1>4, <2>2, <2>3 DEF ListCur
\* What new holds now is under another copy than what was in cur.
<1>5. ASSUME ListNew PROVE ListedOnce'
  <2>1. UNCHANGED << place, copy >>
    BY <1>5 DEF ListNew, folderVars
  <2>2. CASE scan' = "failed"
    BY <1>5, <2>1, <2>2 DEF ListNew, ListedOnce
  <2>3. CASE scan' = "open"
    <3>1. \A p \in listed' \ listed :
             /\ p.msg \in Messages /\ p = Path(p.msg)
             /\ p.copy = copy[p.msg] /\ place[p.msg] = "new"
      <4>1. \A p \in listed' \ listed : \E m \in Messages :
               p = Path(m) /\ place[m] = "new"
        BY <1>5, <2>3 DEF ListNew, Files
      <4> QED
        BY <1>0, <4>1
    <3>2. \A p \in listed : p.copy = copy[p.msg] => place[p.msg] # "new"
      BY <1>5 DEF ListNew, ListedOnce
    <3>3. \A p \in listed' \ listed : copy[p.msg] \in Nat
      BY <1>0, <3>1
    <3>4. \A p, q \in listed' : p.msg = q.msg /\ p.copy = q.copy => p = q
      BY <3>1, <3>2 DEF ListedOnce
    <3>5. \A p \in listed' : place[p.msg] # "none" /\ p.copy <= copy[p.msg]
      BY <3>1, <3>3 DEF ListedOnce
    <3> QED
      BY <2>1, <2>3, <3>4, <3>5 DEF ListedOnce
  <2> QED
    BY <1>5, <2>2, <2>3 DEF ListNew
<1>6. ASSUME OpenFile \/ SortAndCount PROVE ListedOnce'
  <2>1. UNCHANGED << place, copy >> /\ listed' \subseteq listed
        /\ scan' \notin { "idle", "rspamc", "listCur", "listNew" }
    BY <1>6 DEF OpenFile, SortAndCount, folderVars
  <2> QED
    BY <2>1 DEF ListedOnce
<1>7. ASSUME AskRspamc \/ AllOpened \/ DrawRate \/ DrawDaily \/ DrawWeekly
             \/ ReportDomains \/ Send(postfix)
      PROVE  ListedOnce'
  BY <1>7, QuietScan DEF ListedOnce, folderVars
<1> QED
  BY <1>1, <1>2, <1>3, <1>4, <1>5, <1>6, <1>7 DEF Next, Scan, ScanStep

-----------------------------------------------------------------------------
(***************************************************************************)
(* What is read                                                            *)
(***************************************************************************)

\* A file that can be opened is in the folder; its message becomes the last of
\* the list.
LEMMA Opened ==
    ASSUME TypeOK, OpenFile
    PROVE  \E p \in listed :
              /\ p.msg \in Messages /\ listed' = listed \ { p }
              /\ UNCHANGED << folderVars, scan, domains, touched >>
              /\ scan = "open"
              /\ \/ /\ p = Path(p.msg) /\ Mail[p.msg].scored
                    /\ place[p.msg] \in InSpam
                    /\ DOMAIN emails' = DOMAIN emails \cup { Len(emails) + 1 }
                    /\ Len(emails) + 1 \notin DOMAIN emails
                    /\ emails'[Len(emails) + 1] = Email(p.msg)
                    /\ \A i \in DOMAIN emails : emails'[i] = emails[i]
                 \/ /\ ~(p = Path(p.msg) /\ Mail[p.msg].scored)
                    /\ emails' = emails
<1>1. PICK p \in listed :
         /\ listed' = listed \ { p }
         /\ emails' = IF p = Path(p.msg) /\ Mail[p.msg].scored
                      THEN Append(emails, Email(p.msg)) ELSE emails
  BY DEF OpenFile
<1>2. p.msg \in Messages /\ p.place \in InSpam
  BY DEF TypeOK, ScanTypeOK
<1>3. UNCHANGED << folderVars, scan, domains, touched >> /\ scan = "open"
  BY DEF OpenFile
<1>4. CASE p = Path(p.msg) /\ Mail[p.msg].scored
  <2>1. place[p.msg] \in InSpam
    BY <1>2, <1>4 DEF Path
  <2>2. emails \in Seq({ Email(m) : m \in Messages })
        /\ Email(p.msg) \in { Email(m) : m \in Messages }
    BY <1>2 DEF TypeOK, ScanTypeOK
  <2>3. emails' = Append(emails, Email(p.msg))
    BY <1>1, <1>4
  <2> DEFINE new == Email(p.msg)
             All == { Email(m) : m \in Messages }
  <2> HIDE DEF new, All
  <2>4. /\ DOMAIN emails' = DOMAIN emails \cup { Len(emails) + 1 }
        /\ Len(emails) + 1 \notin DOMAIN emails
        /\ emails'[Len(emails) + 1] = new
        /\ \A i \in DOMAIN emails : emails'[i] = emails[i]
    BY <2>2, <2>3 DEF new, All
  <2> QED
    BY <1>1, <1>2, <1>3, <1>4, <2>1, <2>4 DEF new
<1>5. CASE ~(p = Path(p.msg) /\ Mail[p.msg].scored)
  BY <1>1, <1>2, <1>3, <1>5
<1> QED
  BY <1>4, <1>5

\* No message gets into the list twice.
LEMMA ReadStep ==
    ASSUME TypeOK, ListedOnce, ReadOnce, Next PROVE ReadOnce'
<1>0. /\ \A p \in listed : p.msg \in Messages /\ p.copy \in Nat
      /\ \A i \in DOMAIN emails : emails[i].msg \in Messages
      /\ copy \in [Messages -> Nat]
      /\ \A m \in Messages : Path(m) = [msg |-> m, copy |-> copy[m],
                                       place |-> place[m]]
      /\ \A m \in Messages : Email(m).msg = m
  BY EmailsAre DEF TypeOK, ScanTypeOK, FolderTypeOK, Path, Email
<1>1. ASSUME MakeConfiguration \/ StartPostfix \/ StopPostfix \/ Midnight
      PROVE  ReadOnce'
  BY <1>1, Elsewhere DEF ReadOnce, CountedOnce, folderVars
<1>2. ASSUME Delivery \/ UseMail PROVE ReadOnce'
  <2>1. PICK m \in Messages :
           /\ Deliver(m, today) \/ Client(m)
           /\ today \in Nat /\ FolderTypeOK
           /\ UNCHANGED << scan, listed, emails >>
    BY <1>2, FolderPart
  <2>2. /\ FolderTypeOK'
        /\ \A x \in Messages : x # m => place'[x] = place[x] /\ copy'[x] = copy[x]
        /\ place'[m] # "none"
        /\ copy[m] <= copy'[m]
    BY <2>1, FolderStep
  <2>3. \A x \in Messages : copy[x] \in Nat /\ copy'[x] \in Nat
                            /\ copy[x] <= copy'[x]
    BY <2>1, <2>2 DEF FolderTypeOK
  <2>4. \A i \in DOMAIN emails : place'[emails[i].msg] # "none"
    BY <1>0, <2>2 DEF ReadOnce
  <2>5. \A i \in DOMAIN emails, p \in listed :
           p.msg = emails[i].msg => p.copy < copy'[p.msg]
    BY <1>0, <2>3 DEF ReadOnce
  <2> QED
    BY <2>1, <2>4, <2>5 DEF ReadOnce, CountedOnce
<1>3. ASSUME Cron \/ Reboot PROVE ReadOnce'
  BY <1>3 DEF Cron, Reboot, ReadOnce, CountedOnce
<1>4. ASSUME ListCur \/ ListNew PROVE ReadOnce'
  BY <1>4 DEF ListCur, ListNew, ReadOnce, CountedOnce
<1>5. ASSUME OpenFile PROVE ReadOnce'
  <2>1. PICK p \in listed :
              /\ p.msg \in Messages /\ listed' = listed \ { p }
              /\ UNCHANGED << folderVars, scan, domains, touched >>
              /\ scan = "open"
              /\ \/ /\ p = Path(p.msg) /\ Mail[p.msg].scored
                    /\ place[p.msg] \in InSpam
                    /\ DOMAIN emails' = DOMAIN emails \cup { Len(emails) + 1 }
                    /\ Len(emails) + 1 \notin DOMAIN emails
                    /\ emails'[Len(emails) + 1] = Email(p.msg)
                    /\ \A i \in DOMAIN emails : emails'[i] = emails[i]
                 \/ /\ ~(p = Path(p.msg) /\ Mail[p.msg].scored)
                    /\ emails' = emails
    BY <1>5, Opened
  <2>2. UNCHANGED << place, copy >>
    BY <2>1 DEF folderVars
  <2>3. CASE emails' = emails
    BY <2>1, <2>2, <2>3 DEF ReadOnce, CountedOnce
  <2>4. CASE /\ p = Path(p.msg) /\ place[p.msg] \in InSpam
             /\ DOMAIN emails' = DOMAIN emails \cup { Len(emails) + 1 }
             /\ emails'[Len(emails) + 1] = Email(p.msg)
             /\ \A i \in DOMAIN emails : emails'[i] = emails[i]
    <3>1. p.copy = copy[p.msg] /\ emails'[Len(emails) + 1].msg = p.msg
      BY <1>0, <2>1, <2>4
    \* Read before, it could not be opened under a path that is still good.
    <3>2. \A i \in DOMAIN emails : emails[i].msg # p.msg
      BY <1>0, <3>1 DEF ReadOnce
    <3>3. \A i, j \in DOMAIN emails' : emails'[i].msg = emails'[j].msg => i = j
      BY <2>4, <3>1, <3>2 DEF ReadOnce, CountedOnce
    <3>4. \A i \in DOMAIN emails' : place[emails'[i].msg] # "none"
      BY <2>4, <3>1 DEF ReadOnce, InSpam
    <3>5. \A q \in listed' : q.msg = p.msg => q.copy < copy[q.msg]
      BY <1>0, <2>1, <3>1 DEF ListedOnce
    <3>6. \A i \in DOMAIN emails', q \in listed' :
             q.msg = emails'[i].msg => q.copy < copy[q.msg]
      BY <2>1, <2>4, <3>1, <3>5 DEF ReadOnce
    <3> QED
      BY <2>1, <2>2, <3>3, <3>4, <3>6 DEF ReadOnce, CountedOnce
  <2> QED
    BY <2>1, <2>3, <2>4
<1>6. ASSUME SortAndCount PROVE ReadOnce'
  <2>1. UNCHANGED << place, copy, listed >> /\ emails' = Sorted(emails)
        /\ scan' \notin { "idle", "rspamc", "listCur", "listNew" }
    BY <1>6 DEF SortAndCount, folderVars
  <2>2. /\ \A i \in DOMAIN emails' : \E k \in DOMAIN emails : emails'[i] = emails[k]
        /\ \A i, j \in DOMAIN emails' : emails'[i].msg = emails'[j].msg => i = j
    BY <2>1, SortedEmails DEF TypeOK, ReadOnce
  <2> QED
    BY <2>1, <2>2 DEF ReadOnce, CountedOnce
<1>7. ASSUME AskRspamc \/ AllOpened \/ DrawRate \/ DrawDaily \/ DrawWeekly
             \/ ReportDomains \/ Send(postfix)
      PROVE  ReadOnce'
  <2>1. UNCHANGED << place, copy, listed, emails >>
        /\ scan' \notin { "idle", "rspamc", "listNew" }
        /\ (scan' = "listCur" => scan = "rspamc")
    BY <1>7, QuietScan DEF folderVars
  <2> QED
    BY <2>1 DEF ReadOnce, CountedOnce
<1> QED
  BY <1>1, <1>2, <1>3, <1>4, <1>5, <1>6, <1>7 DEF Next, Scan, ScanStep

-----------------------------------------------------------------------------
(***************************************************************************)
(* What is not missed                                                      *)
(***************************************************************************)
LEMMA StandingStep ==
    ASSUME TypeOK, StandingMailIsOnItsWay, StandingMailIsCounted, Next
    PROVE  StandingMailIsOnItsWay' /\ StandingMailIsCounted'
<1> DEFINE Goal == StandingMailIsOnItsWay' /\ StandingMailIsCounted'
<1> USE DEF StandingMailIsOnItsWay, StandingMailIsCounted
<1>1. ASSUME MakeConfiguration \/ StartPostfix \/ StopPostfix \/ Midnight
      PROVE  Goal
  BY <1>1, Elsewhere DEF folderVars, Path
<1>2. ASSUME Delivery \/ UseMail PROVE Goal
  <2>1. PICK m \in Messages :
           /\ Deliver(m, today) \/ Client(m)
           /\ today \in Nat /\ FolderTypeOK
           /\ touched' = touched \cup { m }
           /\ UNCHANGED << scan, listed, emails >>
    BY <1>2, FolderPart
  <2>2. \A x \in Messages : x # m => place'[x] = place[x] /\ copy'[x] = copy[x]
    BY <2>1, FolderStep
  <2> QED
    BY <2>1, <2>2 DEF Path
<1>3. ASSUME Cron \/ Reboot PROVE Goal
  BY <1>3 DEF Cron, Reboot
<1>4. ASSUME ListCur PROVE Goal
  BY <1>4 DEF ListCur, Files, InSpam, Path, folderVars
<1>5. ASSUME ListNew PROVE Goal
  BY <1>5 DEF ListNew, Files, InSpam, Path, folderVars
<1>6. ASSUME OpenFile PROVE Goal
  <2>1. PICK p \in listed :
              /\ p.msg \in Messages /\ listed' = listed \ { p }
              /\ UNCHANGED << folderVars, scan, domains, touched >>
              /\ scan = "open"
              /\ \/ /\ p = Path(p.msg) /\ Mail[p.msg].scored
                    /\ place[p.msg] \in InSpam
                    /\ DOMAIN emails' = DOMAIN emails \cup { Len(emails) + 1 }
                    /\ Len(emails) + 1 \notin DOMAIN emails
                    /\ emails'[Len(emails) + 1] = Email(p.msg)
                    /\ \A i \in DOMAIN emails : emails'[i] = emails[i]
                 \/ /\ ~(p = Path(p.msg) /\ Mail[p.msg].scored)
                    /\ emails' = emails
    BY <1>6, Opened
  <2>2. UNCHANGED << place, copy, touched, scan >> /\ \A m : Path(m)' = Path(m)
    BY <2>1 DEF folderVars, Path
  <2>3. \A m \in Messages : Path(m).msg = m /\ Email(m).msg = m
    BY DEF Path, Email
  <2>4. \A m : (\E i \in DOMAIN emails : emails[i].msg = m)
                 => \E i \in DOMAIN emails' : emails'[i].msg = m
    BY <2>1
  <2>5. ASSUME NEW m \in Messages, place[m] \in InSpam, m \notin touched,
               Mail[m].scored
        PROVE  \/ Path(m) \in listed'
               \/ \E i \in DOMAIN emails' : emails'[i].msg = m
    <3>1. CASE p = Path(m)
      BY <2>1, <2>3, <2>5, <3>1
    <3>2. CASE p # Path(m)
      BY <2>1, <2>4, <2>5, <3>2
    <3> QED
      BY <3>1, <3>2
  <2> QED
    BY <2>1, <2>2, <2>5
<1>7. ASSUME SortAndCount PROVE Goal
  <2>1. UNCHANGED << place, touched >> /\ emails' = Sorted(emails)
        /\ scan = "sort" /\ scan' \notin { "listNew", "open" }
    BY <1>7 DEF SortAndCount, folderVars
  <2>2. \A m : (\E i \in DOMAIN emails : emails[i].msg = m)
                 => \E i \in DOMAIN emails' : emails'[i].msg = m
    BY <2>1, SortedEmails DEF TypeOK
  <2> QED
    BY <2>1, <2>2
<1>8. ASSUME AskRspamc \/ AllOpened \/ DrawRate \/ DrawDaily \/ DrawWeekly
             \/ ReportDomains \/ Send(postfix)
      PROVE  Goal
  <2>1. /\ UNCHANGED << place, listed, emails, touched >>
        /\ scan' \notin { "listNew", "open" }
        /\ scan' = "sort" => scan = "open" /\ listed = {}
        /\ scan' \in { "rate", "daily", "weekly", "domains" } =>
              scan \in { "sort", "rate", "daily", "weekly", "domains" }
    BY <1>8, QuietScan DEF folderVars
  <2> QED
    BY <2>1
<1> QED
  BY <1>1, <1>2, <1>3, <1>4, <1>5, <1>6, <1>7, <1>8 DEF Next, Scan, ScanStep

-----------------------------------------------------------------------------
(***************************************************************************)
(* What is reported                                                        *)
(***************************************************************************)
LEMMA TaughtStays ==
    ASSUME TypeOK, Next
    PROVE  \A m \in Messages : taught[m] # "none" => taught'[m] # "none"
<1>1. CASE Delivery \/ UseMail
  <2>1. PICK m \in Messages :
           /\ Deliver(m, today) \/ Client(m)
           /\ today \in Nat /\ FolderTypeOK
    BY <1>1, FolderPart
  <2> QED
    BY <2>1, FolderStep
<1>2. CASE ~(Delivery \/ UseMail)
  <2>1. UNCHANGED taught
    BY <1>2, Elsewhere DEF Next, Scan, ScanStep, Cron, AskRspamc, ListCur, ListNew,
       OpenFile, AllOpened, SortAndCount, DrawRate, DrawDaily, DrawWeekly,
       ReportDomains, Send, Reboot, folderVars
  <2> QED
    BY <2>1
<1> QED
  BY <1>1, <1>2

LEMMA NothingInEmpty == \A i \in DOMAIN << >> : FALSE
OBVIOUS

\* What is in the list as ham has been moved or marked otherwise, and stays so.
LEMMA MovedOrMarkedStep ==
    ASSUME TypeOK, LessonsMatchFolders, ReadAreMovedOrMarked, Next
    PROVE  ReadAreMovedOrMarked'
<1>0. \A i \in DOMAIN emails : emails[i].msg \in Messages
  BY EmailsAre DEF TypeOK
<1> USE DEF ReadAreMovedOrMarked, MovedOrMarked, ContainsYes
<1>1. CASE emails' = emails \/ emails' = << >>
  <2>1. CASE emails' = emails
    BY <1>0, <2>1, TaughtStays
  <2>2. CASE emails' = << >>
    <3>1. \A i \in DOMAIN emails' : FALSE
      BY <2>2, NothingInEmpty
    <3> QED
      BY <3>1
  <2> QED
    BY <1>1, <2>1, <2>2
<1>2. CASE OpenFile
  <2>1. PICK p \in listed :
              /\ p.msg \in Messages
              /\ UNCHANGED folderVars
              /\ \/ /\ place[p.msg] \in InSpam
                    /\ DOMAIN emails' = DOMAIN emails \cup { Len(emails) + 1 }
                    /\ emails'[Len(emails) + 1] = Email(p.msg)
                    /\ \A i \in DOMAIN emails : emails'[i] = emails[i]
                 \/ emails' = emails
    BY <1>2, Opened
  <2>2. place[p.msg] \in InSpam =>
           Email(p.msg).isSpam \/ MovedOrMarked(Email(p.msg).msg)
    BY <2>1 DEF LessonsMatchFolders, Email
  <2>3. UNCHANGED taught
    BY <2>1 DEF folderVars
  <2> QED
    BY <2>1, <2>2, <2>3
<1>3. CASE SortAndCount
  <2>1. \A i \in DOMAIN emails' : \E k \in DOMAIN emails : emails'[i] = emails[k]
    BY <1>3, SortedEmails DEF SortAndCount, TypeOK
  <2> QED
    BY <1>0, <2>1, TaughtStays
<1>4. CASE ~(OpenFile \/ SortAndCount)
  <2>1. emails' = emails \/ emails' = << >>
    BY <1>4, Elsewhere, FolderPart, QuietScan
       DEF Next, Scan, ScanStep, Cron, ListCur, ListNew, Reboot
  <2> QED
    BY <1>1, <2>1
<1> QED
  BY <1>2, <1>3, <1>4

\* What the report on domains says is of messages that have been moved or marked
\* otherwise.
LEMMA MovedStep ==
    ASSUME TypeOK, ReadAreMovedOrMarked, MisclassifiedWereMovedOrMarked, Next
    PROVE  MisclassifiedWereMovedOrMarked'
<1>1. CASE domains' = domains
  BY <1>1, TaughtStays DEF MisclassifiedWereMovedOrMarked, MovedOrMarked, ContainsYes
<1>2. CASE domains' = {}
  BY <1>2 DEF MisclassifiedWereMovedOrMarked
<1>3. CASE ReportDomains
  <2> DEFINE misclassified == { i \in DOMAIN emails :
                                 ~emails[i].isSpam /\ emails[i].domain # "" }
             Of(d) == { i \in misclassified : emails[i].domain = d }
             Recent(d) == { i \in Of(d) : emails[i].date > today - CUTOFF }
             record(d) == [senders |-> { emails[i].address : i \in Of(d) },
                           recent  |-> Cardinality(Recent(d)),
                           total   |-> Cardinality(Of(d))]
  <2>1. domains' = { r \in { record(emails[i].domain) : i \in misclassified } :
                      r.recent > 0 }
    BY <1>3 DEF ReportDomains, recent_misclassified
  <2>2. UNCHANGED taught
    BY <1>3 DEF ReportDomains, folderVars
  <2>3. \A r \in domains' : \E i \in misclassified : r = record(emails[i].domain)
    BY <2>1
  <2>4. ASSUME NEW d PROVE Cardinality(Recent(d)) <= Cardinality(Of(d))
    <3>1. Recent(d) \subseteq Of(d) /\ Of(d) \subseteq 1 .. Len(emails)
          /\ Len(emails) \in Nat
      BY EmailsAre DEF TypeOK
    <3>2. IsFiniteSet(1 .. Len(emails))
      BY <3>1, NumbersTo
    <3>3. IsFiniteSet(Of(d))
      BY <3>1, <3>2, FS_Subset
    <3> QED
      BY <3>1, <3>3, FS_Subset
  <2>5. ASSUME NEW d, NEW i \in Of(d)
        PROVE  \E m \in Messages :
                  /\ Mail[m].address = emails[i].address
                  /\ Mail[m].xSpamRead # "Yes"
                  /\ MovedOrMarked(m)
    <3>1. /\ i \in DOMAIN emails /\ ~emails[i].isSpam
          /\ emails[i].msg \in Messages /\ emails[i] = Email(emails[i].msg)
      BY EmailsAre DEF TypeOK
    <3>2. MovedOrMarked(emails[i].msg)
      BY <3>1 DEF ReadAreMovedOrMarked
    <3>3. PICK m \in Messages : m = emails[i].msg
      BY <3>1
    <3>4. Mail[m].address = emails[i].address /\ Mail[m].xSpamRead # "Yes"
      <4>1. /\ Email(m).address = Mail[m].address
            /\ Email(m).isSpam <=> Mail[m].xSpamRead = "Yes"
        BY DEF Email
      <4> QED
        BY <3>1, <3>3, <4>1
    <3> QED
      BY <3>2, <3>3, <3>4
  <2>6. ASSUME NEW r \in domains'
        PROVE  /\ r.recent <= r.total
               /\ \A sender \in r.senders :
                     \E m \in Messages :
                        /\ Mail[m].address = sender
                        /\ Mail[m].xSpamRead # "Yes"
                        /\ MovedOrMarked(m)
    <3>1. PICK i \in misclassified : r = record(emails[i].domain)
      BY <2>3
    <3>2. /\ r.recent = Cardinality(Recent(emails[i].domain))
          /\ r.total = Cardinality(Of(emails[i].domain))
          /\ r.senders = { emails[k].address : k \in Of(emails[i].domain) }
      BY <3>1
    <3> HIDE DEF Of, Recent
    <3> QED
      BY <2>4, <2>5, <3>2
  <2> QED
    BY <2>2, <2>6 DEF MisclassifiedWereMovedOrMarked, MovedOrMarked, ContainsYes
<1> QED
  BY <1>1, <1>2, <1>3, Elsewhere, FolderPart
     DEF Next, Scan, ScanStep, Cron, AskRspamc, ListCur, ListNew, OpenFile,
         AllOpened, SortAndCount, DrawRate, DrawDaily, DrawWeekly, Send, Reboot

-----------------------------------------------------------------------------
(***************************************************************************)
(* Counting for the charts                                                 *)
(***************************************************************************)

\* What is numbered one to one by the other set is as many.
LEMMA SameNumber ==
    ASSUME NEW S, NEW T, IsFiniteSet(S), NEW f \in [S -> T],
           \A i, j \in S : f[i] = f[j] => i = j,
           \A t \in T : \E i \in S : f[i] = t
    PROVE  IsFiniteSet(T) /\ Cardinality(T) = Cardinality(S)
<1>1. f \in Surjection(S, T)
  BY DEF Surjection
<1>2. f \in Injection(S, T)
  BY DEF Injection, IsInjective
<1> QED
  BY <1>1, <1>2, FS_Surjection

\* Every set of places of a list is finite.
LEMMA PlacesAreFinite ==
    ASSUME NEW n \in Nat, NEW S \in SUBSET (1 .. n)
    PROVE  IsFiniteSet(S) /\ Cardinality(S) \in 0 .. n
<1>1. IsFiniteSet(1 .. n) /\ Cardinality(1 .. n) = n
  BY NumbersTo
<1>2. IsFiniteSet(S) /\ Cardinality(S) <= Cardinality(1 .. n)
  BY <1>1, FS_Subset
<1>3. Cardinality(S) \in Nat
  BY <1>2, FS_CardinalityType
<1> QED
  BY <1>1, <1>2, <1>3

\* Places of which each that is there has all before it are the first ones, as
\* many as they are: where take_while and partition_point stop.
LEMMA FirstPlaces ==
    ASSUME NEW n \in Nat, NEW S \in SUBSET (1 .. n),
           \A k \in S : \A i \in 1 .. n : i <= k => i \in S
    PROVE  S = 1 .. Cardinality(S)
<1>1. IsFiniteSet(S) /\ Cardinality(S) \in 0 .. n
  BY PlacesAreFinite
<1>2. \A k \in S : k <= Cardinality(S)
  <2> SUFFICES ASSUME NEW k \in S PROVE k <= Cardinality(S)
    OBVIOUS
  <2>1. k \in Nat /\ 1 .. k \subseteq S
    OBVIOUS
  <2>2. IsFiniteSet(1 .. k) /\ Cardinality(1 .. k) = k
    BY <2>1, NumbersTo
  <2> QED
    BY <1>1, <2>1, <2>2, FS_Subset
<1>3. S \subseteq 1 .. Cardinality(S)
  BY <1>1, <1>2
<1>4. /\ IsFiniteSet(1 .. Cardinality(S))
      /\ Cardinality(1 .. Cardinality(S)) = Cardinality(S)
  BY <1>1, NumbersTo
<1> QED
  BY <1>3, <1>4, FS_Subset

\* The first day of a week, as a search and as an arithmetic of weekdays.
LEMMA MondayIsPrevious ==
    ASSUME NEW date \in Int
    PROVE  /\ MondayOf(date) = previous_sunday(date)
           /\ MondayOf(date) \in Int /\ MondayOf(date) % 7 = 3
           /\ date - 6 <= MondayOf(date) /\ MondayOf(date) <= date
<1> DEFINE monday == previous_sunday(date)
<1>1. monday \in Int /\ date - 6 <= monday /\ monday <= date
  BY DEF previous_sunday, WeekdayNumber
<1>2. monday % 7 = 3
  BY DEF previous_sunday, WeekdayNumber
<1> HIDE DEF monday
<1>3. \A d \in date - 6 .. date : d % 7 = 3 => d = monday
  BY <1>1, <1>2
<1>4. MondayOf(date) = monday
  BY <1>1, <1>2, <1>3 DEF MondayOf
<1> QED
  BY <1>1, <1>2, <1>4 DEF monday

\* The days before a Monday on which a week starts are 7 apart.
LEMMA MondaysApart ==
    ASSUME NEW a \in Int, NEW b \in Int, a % 7 = 3, b % 7 = 3,
           a <= b, a > b - 7 * (WEEKLY_CHART_WINDOW - 1)
    PROVE  \E k \in 0 .. WEEKLY_CHART_WINDOW - 2 : a = b - 7 * k
<1>1. PICK k \in Int : b - a = 7 * k
  <2>1. (b - a) % 7 = 0
    OBVIOUS
  <2>2. b - a = 7 * ((b - a) \div 7)
    BY <2>1
  <2> QED
    BY <2>2
<1> QED
  BY <1>1 DEF WEEKLY_CHART_WINDOW

\* The bin of a score is the number that the cast cuts it off to.
LEMMA BinOfScore ==
    ASSUME NEW score \in Int, NEW b \in Int
    PROVE  quantize(score) \in Int /\ (InBin(score, b) <=> quantize(score) = b)
<1>1. CASE score >= 0
  BY <1>1 DEF quantize, InBin
<1>2. CASE score < 0
  <2>1. quantize(score) = -((-score) \div 10)
    BY <1>2 DEF quantize
  <2> DEFINE q == (-score) \div 10
  <2>2. q \in Nat /\ 10 * q <= -score /\ -score < 10 * q + 10
    BY <1>2
  <2> HIDE DEF q
  <2>3. quantize(score) = -q
    BY <2>1 DEF q
  <2> QED
    BY <1>2, <2>2, <2>3 DEF InBin
<1> QED
  BY <1>1, <1>2

\* The message of a list with another date keeps the rest.
LEMMA Redated ==
    ASSUME NEW m, NEW d
    PROVE  /\ [Email(m) EXCEPT !.date = d].date = d
           /\ [Email(m) EXCEPT !.date = d].isSpam = Email(m).isSpam
BY DEF Email

\* Weeks follow one another as their dates do.
LEMMA MondaysFollow ==
    ASSUME NEW a \in Int, NEW b \in Int, a <= b
    PROVE  MondayOf(a) <= MondayOf(b)
<1>1. previous_sunday(a) <= previous_sunday(b)
  BY DEF previous_sunday, WeekdayNumber
<1> QED
  BY <1>1, MondayIsPrevious

\* weekly_bins gives each message once, dated with the Monday of its week, the
\* latest first.
LEMMA WeeklyBinsAre ==
    ASSUME FolderTypeOK, ScanTypeOK
    PROVE  /\ Len(WeeklyBins(emails)) = Len(emails)
           /\ DOMAIN WeeklyBins(emails) = DOMAIN emails
           /\ \E of \in [DOMAIN emails -> DOMAIN emails] :
                 /\ \A n, k \in DOMAIN emails : of[n] = of[k] => n = k
                 /\ \A i \in DOMAIN emails : \E n \in DOMAIN emails : of[n] = i
                 /\ \A n \in DOMAIN emails :
                       /\ WeeklyBins(emails)[n].date
                             = MondayOf(emails[of[n]].date)
                       /\ WeeklyBins(emails)[n].isSpam = emails[of[n]].isSpam
           /\ \A n, k \in DOMAIN emails :
                 n <= k => WeeklyBins(emails)[k].date
                              <= WeeklyBins(emails)[n].date
<1> DEFINE L == Len(emails)
           D == DOMAIN emails
           sorted == Sorted(emails)
           binned == [i \in 1 .. L |-> [sorted[L - i + 1]
                         EXCEPT !.date = previous_sunday(@)]]
<1>1. /\ L \in Nat /\ D = 1 .. L /\ Dated(emails)
      /\ \A i \in D : /\ emails[i].msg \in Messages
                      /\ emails[i] = Email(emails[i].msg)
  BY EmailsAre
<1>2. /\ DOMAIN sorted = D
      /\ \A n, k \in D : n <= k => sorted[n].date <= sorted[k].date
  BY <1>1, SortedIsSorted
<1>3. PICK pos \in [D -> D] :
         /\ \A n \in D : sorted[n] = emails[pos[n]]
         /\ \A n, k \in D : pos[n] = pos[k] => n = k
         /\ \A i \in D : \E n \in D : pos[n] = i
  BY <1>1, SortedIsSorted
<1>4. WeeklyBins(emails) = binned
  <2>1. Len(sorted) = L
    <3>1. sorted \in Seq({ Email(m) : m \in Messages })
      BY SortedEmails
    <3>2. Len(sorted) \in Nat /\ DOMAIN sorted = 1 .. Len(sorted)
      BY <3>1
    <3> QED
      BY <1>1, <1>2, <3>2
  <2>2. Reverse(sorted) = [i \in 1 .. L |-> sorted[L - i + 1]]
    BY <2>1 DEF Reverse
  <2> HIDE DEF L, sorted
  <2> QED
    BY <2>2 DEF WeeklyBins, sorted
<1>5. \A n \in 1 .. L : L - n + 1 \in 1 .. L
  BY <1>1
<1>6. \A n \in D : /\ binned[n].date = MondayOf(emails[pos[L - n + 1]].date)
                   /\ binned[n].isSpam = emails[pos[L - n + 1]].isSpam
                   /\ binned[n].date = MondayOf(sorted[L - n + 1].date)
  <2> SUFFICES ASSUME NEW n \in D
               PROVE  /\ binned[n].date = MondayOf(emails[pos[L - n + 1]].date)
                      /\ binned[n].isSpam = emails[pos[L - n + 1]].isSpam
                      /\ binned[n].date = MondayOf(sorted[L - n + 1].date)
    OBVIOUS
  <2>1. L - n + 1 \in D
    BY <1>1, <1>5
  <2>2. PICK i \in D : i = pos[L - n + 1]
    BY <1>3, <2>1
  <2>3. sorted[L - n + 1] = Email(emails[i].msg) /\ emails[i] = Email(emails[i].msg)
    BY <1>1, <1>3, <2>1, <2>2
  <2> DEFINE m == emails[i].msg
             d == previous_sunday(Email(m).date)
  <2>4. binned[n] = [Email(m) EXCEPT !.date = d]
    BY <1>1, <2>3
  <2>5. emails[i].date \in Int
    BY <1>1 DEF Dated
  <2>6. d = MondayOf(emails[i].date)
    BY <2>3, <2>5, MondayIsPrevious
  <2>7. /\ [Email(m) EXCEPT !.date = d].date = d
        /\ [Email(m) EXCEPT !.date = d].isSpam = Email(m).isSpam
    BY Redated
  <2> HIDE DEF m, d, binned, sorted, L
  <2> QED
    BY <2>2, <2>3, <2>4, <2>6, <2>7 DEF m
<1> DEFINE of == [n \in D |-> pos[L - n + 1]]
<1>7. of \in [D -> D]
  BY <1>1, <1>3, <1>5
<1>8. \A n, k \in D : of[n] = of[k] => n = k
  <2> SUFFICES ASSUME NEW n \in D, NEW k \in D, of[n] = of[k] PROVE n = k
    OBVIOUS
  <2>1. L - n + 1 \in D /\ L - k + 1 \in D
    BY <1>1, <1>5
  <2>2. L - n + 1 = L - k + 1
    BY <1>3, <2>1
  <2> QED
    BY <1>1, <2>2
<1>9. \A i \in D : \E n \in D : of[n] = i
  <2> SUFFICES ASSUME NEW i \in D PROVE \E n \in D : of[n] = i
    OBVIOUS
  <2>1. PICK k \in D : pos[k] = i
    BY <1>3
  <2>2. L - k + 1 \in D /\ L - (L - k + 1) + 1 = k
    BY <1>1, <1>5
  <2> QED
    BY <2>1, <2>2
<1>10. \A n, k \in D : n <= k => binned[k].date <= binned[n].date
  <2> SUFFICES ASSUME NEW n \in D, NEW k \in D, n <= k
               PROVE  binned[k].date <= binned[n].date
    OBVIOUS
  <2>1. L - n + 1 \in D /\ L - k + 1 \in D /\ L - k + 1 <= L - n + 1
    BY <1>1, <1>5
  <2>2. sorted[L - k + 1].date <= sorted[L - n + 1].date
    BY <1>2, <2>1
  <2>3. sorted[L - k + 1].date \in Int /\ sorted[L - n + 1].date \in Int
    <3>1. \A i \in D : emails[i].date \in Int
      BY <1>1 DEF Dated
    <3> HIDE DEF sorted, L, D
    <3> QED
      BY <1>3, <2>1, <3>1
  <2> HIDE DEF sorted, binned, L
  <2> QED
    BY <1>6, <2>2, <2>3, MondaysFollow
<1>11. DOMAIN binned = D /\ Len(binned) = L
  <2>1. DOMAIN binned = 1 .. L
    OBVIOUS
  <2>2. binned \in Seq({ binned[i] : i \in 1 .. L })
    <3>1. binned \in [1 .. L -> { binned[i] : i \in 1 .. L }]
      OBVIOUS
    <3> HIDE DEF binned, L
    <3> QED
      BY <1>1, <3>1, FunctionIsSeq
  <2>3. Len(binned) \in Nat /\ DOMAIN binned = 1 .. Len(binned)
    <3> HIDE DEF binned
    <3> QED
      BY <2>2
  <2> HIDE DEF binned
  <2> QED
    BY <1>1, <2>1, <2>3
<1>12. \A n \in D : of[n] = pos[L - n + 1]
  OBVIOUS
<1> HIDE DEF binned, of, L, sorted
<1>13. \A n \in D : /\ binned[n].date = MondayOf(emails[of[n]].date)
                    /\ binned[n].isSpam = emails[of[n]].isSpam
  BY <1>6, <1>12
<1> QED
  BY <1>4, <1>7, <1>8, <1>9, <1>10, <1>11, <1>13 DEF L

\* The messages of the last weeks up to the one of a day.
InTheWeeks(day) ==
    { i \in DOMAIN emails : MondayOf(emails[i].date)
                               > MondayOf(day) - 7 * (WEEKLY_CHART_WINDOW - 1) }

Taken(day) == take_weeks(WeeklyBins(emails), WEEKLY_CHART_WINDOW, day)

\* take_weeks stops at the first message that is too old, and as the messages
\* are in order the ones it has taken are all of the last weeks.
LEMMA TakenWeeks ==
    ASSUME FolderTypeOK, ScanTypeOK, NEW day \in Int
    PROVE  /\ IsFiniteSet(DOMAIN Taken(day))
           /\ \E of \in [DOMAIN Taken(day) -> InTheWeeks(day)] :
                 /\ \A n, k \in DOMAIN Taken(day) : of[n] = of[k] => n = k
                 /\ \A i \in InTheWeeks(day) :
                       \E n \in DOMAIN Taken(day) : of[n] = i
                 /\ \A n \in DOMAIN Taken(day) :
                       /\ Taken(day)[n].date = MondayOf(emails[of[n]].date)
                       /\ Taken(day)[n].isSpam = emails[of[n]].isSpam
<1> DEFINE L == Len(emails)
           D == DOMAIN emails
           binned == WeeklyBins(emails)
           earliest == MondayOf(day) - 7 * (WEEKLY_CHART_WINDOW - 1)
           recent == { n \in 1 .. L : binned[n].date > earliest }
           c == Cardinality(recent)
<1>1. /\ L \in Nat /\ D = 1 .. L
      /\ \A i \in D : emails[i].date \in Int
  BY EmailsAre DEF Dated
<1>2. /\ Len(binned) = L
      /\ \A n, k \in D : n <= k => binned[k].date <= binned[n].date
  BY WeeklyBinsAre
<1>3. PICK of \in [D -> D] :
         /\ \A n, k \in D : of[n] = of[k] => n = k
         /\ \A i \in D : \E n \in D : of[n] = i
         /\ \A n \in D : /\ binned[n].date = MondayOf(emails[of[n]].date)
                         /\ binned[n].isSpam = emails[of[n]].isSpam
  BY WeeklyBinsAre
<1>4. earliest \in Int /\ earliest = previous_sunday(day) - (WEEKLY_CHART_WINDOW - 1) * 7
  BY MondayIsPrevious DEF WEEKLY_CHART_WINDOW
<1>5. \A n \in D : binned[n].date \in Int
  <2> SUFFICES ASSUME NEW n \in D PROVE binned[n].date \in Int
    OBVIOUS
  <2>1. of[n] \in D /\ binned[n].date = MondayOf(emails[of[n]].date)
    BY <1>3
  <2>2. emails[of[n]].date \in Int
    BY <1>1, <2>1
  <2> QED
    BY <2>1, <2>2, MondayIsPrevious
<1>6. recent = 1 .. c /\ c \in 0 .. L
  <2> DEFINE date(n) == binned[n].date
  <2>0. \A n \in 1 .. L : /\ date(n) \in Int
                          /\ \A k \in 1 .. L : n <= k => date(k) <= date(n)
    BY <1>1, <1>2, <1>5
  <2> HIDE DEF earliest, binned, L
  <2>1. \A k \in recent : \A i \in 1 .. L : i <= k => i \in recent
    <3>1. recent = { n \in 1 .. L : date(n) > earliest }
      OBVIOUS
    <3> HIDE DEF date, recent
    <3> QED
      BY <1>4, <2>0, <3>1
  <2>2. recent \in SUBSET (1 .. L)
    OBVIOUS
  <2> HIDE DEF recent
  <2> QED
    BY <1>1, <2>1, <2>2, FirstPlaces, PlacesAreFinite
<1> DEFINE Good(n) == \A i \in 1 .. n : binned[i].date > earliest
           taken == { n \in 0 .. L : Good(n) }
<1>7. c \in taken /\ \A k \in taken : k <= c
  <2> HIDE DEF earliest, binned, L, c
  <2>1. \A i \in 1 .. c : i \in recent
    BY <1>6
  <2>2. \A i \in 1 .. c : binned[i].date > earliest
    BY <2>1
  <2>3. ASSUME NEW k \in taken PROVE k <= c
    <3>1. CASE k = 0
      BY <1>6, <3>1
    <3>2. CASE k # 0
      <4>1. k \in Nat /\ k \in 1 .. k /\ k \in 1 .. L /\ Good(k)
        BY <1>1, <3>2
      <4>2. k \in recent
        BY <4>1
      <4> HIDE DEF recent
      <4> QED
        BY <1>6, <4>2
    <3> QED
      BY <3>1, <3>2
  <2> QED
    BY <1>6, <2>2, <2>3
<1>8. Taken(day) = SubSeq(binned, 1, c)
  <2>1. Taken(day) = SubSeq(binned, 1, CHOOSE n \in taken : \A k \in taken : k <= n)
    BY <1>2, <1>4 DEF Taken, take_weeks
  <2>2. (CHOOSE n \in taken : \A k \in taken : k <= n) = c
    <3>1. \A n \in taken : n \in Int
      BY <1>1
    <3> HIDE DEF taken, c
    <3>2. \A n \in taken : (\A k \in taken : k <= n) => n = c
      BY <1>7, <3>1
    <3> QED
      BY <1>7, <3>2
  <2> QED
    BY <2>1, <2>2
<1>9. /\ DOMAIN Taken(day) = 1 .. c
      /\ \A n \in 1 .. c : Taken(day)[n] = binned[n]
  <2> HIDE DEF c, binned
  <2>1. c \in Nat /\ 1 \in Int
    BY <1>1, <1>6
  <2> DEFINE S == { binned[i] : i \in 1 .. c }
  <2>2. \A i \in 1 .. c : binned[i] \in S
    OBVIOUS
  <2> HIDE DEF S
  <2>3. /\ SubSeq(binned, 1, c) \in Seq(S)
        /\ Len(SubSeq(binned, 1, c)) = IF 1 <= c THEN c - 1 + 1 ELSE 0
        /\ \A i \in 1 .. c - 1 + 1 : SubSeq(binned, 1, c)[i] = binned[1 + i - 1]
    BY <2>1, <2>2, SubSeqProperties
  <2>4. Len(SubSeq(binned, 1, c)) = c
    BY <2>1, <2>3
  <2>5. DOMAIN SubSeq(binned, 1, c) = 1 .. c
    BY <2>3, <2>4
  <2>6. \A i \in 1 .. c : SubSeq(binned, 1, c)[i] = binned[i]
    <3>1. \A i \in 1 .. c : i \in 1 .. c - 1 + 1 /\ 1 + i - 1 = i
      BY <2>1
    <3> QED
      BY <2>3, <3>1
  <2> QED
    BY <1>8, <2>5, <2>6
<1>10. IsFiniteSet(1 .. c)
  BY <1>6, NumbersTo
<1> DEFINE here == [n \in 1 .. c |-> of[n]]
<1>11. \A n \in 1 .. c : n \in D /\ here[n] \in InTheWeeks(day)
  <2> SUFFICES ASSUME NEW n \in 1 .. c
               PROVE  n \in D /\ here[n] \in InTheWeeks(day)
    OBVIOUS
  <2>1. n \in 1 .. L /\ binned[n].date > earliest
    <3>1. n \in recent
      BY <1>6
    <3> QED
      BY <3>1
  <2> HIDE DEF c, binned, L
  <2>2. n \in D /\ of[n] \in D /\ MondayOf(emails[of[n]].date) > earliest
    BY <1>1, <1>3, <2>1
  <2> QED
    BY <2>2 DEF InTheWeeks
<1>12. \A i \in InTheWeeks(day) : \E n \in 1 .. c : here[n] = i
  <2> SUFFICES ASSUME NEW i \in InTheWeeks(day) PROVE \E n \in 1 .. c : here[n] = i
    OBVIOUS
  <2>1. i \in D /\ MondayOf(emails[i].date) > earliest
    BY DEF InTheWeeks
  <2>2. PICK n \in D : of[n] = i
    BY <1>3, <2>1
  <2>3. binned[n].date > earliest
    BY <1>3, <2>1, <2>2
  <2>4. n \in recent
    BY <1>1, <2>3
  <2>5. n \in 1 .. c
    <3> HIDE DEF recent
    <3> QED
      BY <1>6, <2>4
  <2> QED
    BY <2>2, <2>5
<1> HIDE DEF c, D, binned, earliest, L
<1>13. here \in [1 .. c -> InTheWeeks(day)]
  BY <1>11
<1>14. \A n, k \in 1 .. c : here[n] = here[k] => n = k
  BY <1>3, <1>11
<1>15. \A n \in 1 .. c : /\ Taken(day)[n].date = MondayOf(emails[here[n]].date)
                         /\ Taken(day)[n].isSpam = emails[here[n]].isSpam
  BY <1>3, <1>9, <1>11
<1> HIDE DEF here
<1>16. /\ here \in [DOMAIN Taken(day) -> InTheWeeks(day)]
       /\ \A n, k \in DOMAIN Taken(day) : here[n] = here[k] => n = k
       /\ \A i \in InTheWeeks(day) : \E n \in DOMAIN Taken(day) : here[n] = i
       /\ \A n \in DOMAIN Taken(day) :
             /\ Taken(day)[n].date = MondayOf(emails[here[n]].date)
             /\ Taken(day)[n].isSpam = emails[here[n]].isSpam
  BY <1>9, <1>12, <1>13, <1>14, <1>15
<1>17. IsFiniteSet(DOMAIN Taken(day))
  BY <1>9, <1>10
<1> QED
  BY <1>16, <1>17

\* The weeks of the messages taken are those that LastWeeks lists.
LEMMA TakenAreOfTheWeeks ==
    ASSUME FolderTypeOK, ScanTypeOK, NEW day \in Int,
           \A i \in DOMAIN emails : emails[i].date <= day
    PROVE  /\ \A i \in InTheWeeks(day) :
                 MondayOf(emails[i].date) \in WeeksWithSpam(day)
           /\ \A w \in WeeksWithSpam(day) :
                 ReceivedIn(w) # {} /\ ReceivedIn(w) \subseteq InTheWeeks(day)
<1>1. \A i \in DOMAIN emails : emails[i].date \in Int
  BY EmailsAre DEF Dated
<1>2. ASSUME NEW i \in InTheWeeks(day)
      PROVE  MondayOf(emails[i].date) \in WeeksWithSpam(day)
  <2> DEFINE a == MondayOf(emails[i].date)
             b == MondayOf(day)
  <2>1. i \in DOMAIN emails /\ emails[i].date \in Int /\ emails[i].date <= day
        /\ a > b - 7 * (WEEKLY_CHART_WINDOW - 1)
    BY <1>1 DEF InTheWeeks
  <2>2. a \in Int /\ b \in Int /\ a % 7 = 3 /\ b % 7 = 3 /\ a <= b
    BY <2>1, MondayIsPrevious, MondaysFollow
  <2>3. i \in ReceivedIn(a)
    BY <2>1 DEF ReceivedIn
  <2> HIDE DEF a
  <2>4. \E k \in 0 .. WEEKLY_CHART_WINDOW - 2 : a = b - 7 * k
    <3> HIDE DEF b
    <3> QED
      BY <2>1, <2>2, MondaysApart
  <2>5. a \in LastWeeks(day)
    BY <2>4 DEF LastWeeks
  <2>6. a \in WeeksWithSpam(day)
    BY <2>3, <2>5 DEF WeeksWithSpam
  <2> QED
    BY <2>6 DEF a
<1>3. ASSUME NEW w \in WeeksWithSpam(day)
      PROVE  ReceivedIn(w) # {} /\ ReceivedIn(w) \subseteq InTheWeeks(day)
  <2> DEFINE b == MondayOf(day)
  <2>1. ReceivedIn(w) # {} /\ \E k \in 0 .. WEEKLY_CHART_WINDOW - 2 : w = b - 7 * k
    BY DEF WeeksWithSpam, LastWeeks
  <2>2. b \in Int
    BY MondayIsPrevious
  <2>3. w > b - 7 * (WEEKLY_CHART_WINDOW - 1)
    <3> HIDE DEF b
    <3> QED
      BY <2>1, <2>2 DEF WEEKLY_CHART_WINDOW
  <2> QED
    BY <2>1, <2>3 DEF ReceivedIn, InTheWeeks
<1> QED
  BY <1>2, <1>3

\* Where two sets correspond one to one, so do parts of them that match.
LEMMA CountedAlike ==
    ASSUME NEW A, NEW B, IsFiniteSet(A), NEW of \in [A -> B],
           \A n, k \in A : of[n] = of[k] => n = k,
           \A i \in B : \E n \in A : of[n] = i,
           NEW S \in SUBSET A, NEW T \in SUBSET B,
           \A n \in A : n \in S <=> of[n] \in T
    PROVE  IsFiniteSet(T) /\ Cardinality(T) = Cardinality(S)
<1> DEFINE f == [n \in S |-> of[n]]
<1>1. IsFiniteSet(S)
  BY FS_Subset
<1>2. f \in [S -> T] /\ \A n \in S : f[n] = of[n]
  OBVIOUS
<1> HIDE DEF f
<1>3. \A n, k \in S : f[n] = f[k] => n = k
  BY <1>2
<1>4. \A t \in T : \E n \in S : f[n] = t
  BY <1>2
<1> QED
  BY <1>1, <1>2, <1>3, <1>4, SameNumber

\* For each of the weeks the chart counts the messages of that week.
LEMMA WeekIsCounted ==
    ASSUME FolderTypeOK, ScanTypeOK, NEW day \in Int,
           \A i \in DOMAIN emails : emails[i].date <= day
    PROVE  /\ { b.date : b \in ToSet(Taken(day)) } = WeeksWithSpam(day)
           /\ \A w \in WeeksWithSpam(day) :
                 /\ Cardinality({ n \in DOMAIN Taken(day) :
                                    Taken(day)[n].date = w })
                       = Cardinality(ReceivedIn(w))
                 /\ Cardinality({ n \in DOMAIN Taken(day) :
                                    Taken(day)[n].date = w /\ Taken(day)[n].isSpam })
                       = Cardinality({ i \in ReceivedIn(w) : emails[i].isSpam })
                 /\ Cardinality({ n \in DOMAIN Taken(day) :
                                    Taken(day)[n].date = w /\ ~Taken(day)[n].isSpam })
                       = Cardinality({ i \in ReceivedIn(w) : ~emails[i].isSpam })
<1> DEFINE A == DOMAIN Taken(day)
           B == InTheWeeks(day)
           t == Taken(day)
<1>1. IsFiniteSet(A)
  BY TakenWeeks
<1>2. PICK of \in [A -> B] :
         /\ \A n, k \in A : of[n] = of[k] => n = k
         /\ \A i \in B : \E n \in A : of[n] = i
         /\ \A n \in A : /\ t[n].date = MondayOf(emails[of[n]].date)
                         /\ t[n].isSpam = emails[of[n]].isSpam
  BY TakenWeeks
<1>3. /\ \A i \in B : MondayOf(emails[i].date) \in WeeksWithSpam(day)
      /\ \A w \in WeeksWithSpam(day) : ReceivedIn(w) # {} /\ ReceivedIn(w) \subseteq B
  BY TakenAreOfTheWeeks
<1>4. \A i, w : i \in ReceivedIn(w) =>
         i \in DOMAIN emails /\ MondayOf(emails[i].date) = w
  BY DEF ReceivedIn
<1>5. \A i \in B : \A w : MondayOf(emails[i].date) = w => i \in ReceivedIn(w)
  BY DEF InTheWeeks, ReceivedIn
<1>0. ASSUME NEW S \in SUBSET A, NEW T \in SUBSET B,
             \A n \in A : n \in S <=> of[n] \in T
      PROVE  Cardinality(T) = Cardinality(S)
  <2> HIDE DEF A, B
  <2>1. /\ \A n, k \in A : of[n] = of[k] => n = k
        /\ \A i \in B : \E n \in A : of[n] = i
    BY <1>2
  <2>2. IsFiniteSet(T) /\ Cardinality(T) = Cardinality(S)
    BY <1>0, <1>1, <2>1, CountedAlike
  <2> QED
    BY <2>2
<1>6. { b.date : b \in ToSet(t) } = WeeksWithSpam(day)
  <2>1. { b.date : b \in ToSet(t) } = { t[n].date : n \in A }
    BY DEF ToSet
  <2>2. ASSUME NEW n \in A PROVE t[n].date \in WeeksWithSpam(day)
    BY <1>2, <1>3
  <2>3. ASSUME NEW w \in WeeksWithSpam(day) PROVE \E n \in A : t[n].date = w
    <3>1. PICK i \in B : i \in ReceivedIn(w)
      BY <1>3
    <3> QED
      BY <1>2, <1>4, <3>1
  <2> HIDE DEF A, t
  <2> QED
    BY <2>1, <2>2, <2>3
<1>7. ASSUME NEW w \in WeeksWithSpam(day)
      PROVE  /\ Cardinality({ n \in A : t[n].date = w }) = Cardinality(ReceivedIn(w))
             /\ Cardinality({ n \in A : t[n].date = w /\ t[n].isSpam })
                   = Cardinality({ i \in ReceivedIn(w) : emails[i].isSpam })
             /\ Cardinality({ n \in A : t[n].date = w /\ ~t[n].isSpam })
                   = Cardinality({ i \in ReceivedIn(w) : ~emails[i].isSpam })
  <2> DEFINE all == { n \in A : t[n].date = w }
             spam == { n \in A : t[n].date = w /\ t[n].isSpam }
             ham == { n \in A : t[n].date = w /\ ~t[n].isSpam }
             Spam == { i \in ReceivedIn(w) : emails[i].isSpam }
             Ham == { i \in ReceivedIn(w) : ~emails[i].isSpam }
  <2>1. ReceivedIn(w) \in SUBSET B
    BY <1>3
  <2>2. Spam \in SUBSET B /\ Ham \in SUBSET B
    BY <2>1
  <2>3. \A n \in A : /\ of[n] \in B
                     /\ t[n].date = MondayOf(emails[of[n]].date)
                     /\ t[n].isSpam = emails[of[n]].isSpam
    BY <1>2
  <2>4. all \in SUBSET A /\ spam \in SUBSET A /\ ham \in SUBSET A
    OBVIOUS
  <2>5. \A n \in A : of[n] \in ReceivedIn(w) <=> t[n].date = w
    BY <1>4, <1>5, <2>3
  <2>6. \A n \in A : /\ n \in all <=> of[n] \in ReceivedIn(w)
                     /\ n \in spam <=> of[n] \in Spam
                     /\ n \in ham <=> of[n] \in Ham
    BY <2>3, <2>5, Zenon
  <2> HIDE DEF all, spam, ham, Spam, Ham, A, B, t
  <2>7. Cardinality(ReceivedIn(w)) = Cardinality(all)
    BY <1>0, <2>1, <2>4, <2>6
  <2>8. Cardinality(Spam) = Cardinality(spam)
    BY <1>0, <2>2, <2>4, <2>6
  <2>9. Cardinality(Ham) = Cardinality(ham)
    BY <1>0, <2>2, <2>4, <2>6
  <2> QED
    BY <2>7, <2>8, <2>9 DEF all, spam, ham, Spam, Ham
<1> QED
  BY <1>6, <1>7

\* Every message of a week is spam or ham.
LEMMA SpamAndHam ==
    ASSUME FolderTypeOK, ScanTypeOK
    PROVE  \A w : Cardinality({ i \in ReceivedIn(w) : emails[i].isSpam })
                    + Cardinality({ i \in ReceivedIn(w) : ~emails[i].isSpam })
                  = Cardinality(ReceivedIn(w))
<1> SUFFICES ASSUME NEW w
             PROVE  Cardinality({ i \in ReceivedIn(w) : emails[i].isSpam })
                       + Cardinality({ i \in ReceivedIn(w) : ~emails[i].isSpam })
                    = Cardinality(ReceivedIn(w))
  OBVIOUS
<1> DEFINE Spam == { i \in ReceivedIn(w) : emails[i].isSpam }
           Ham == { i \in ReceivedIn(w) : ~emails[i].isSpam }
<1>1. ReceivedIn(w) \subseteq 1 .. Len(emails) /\ Len(emails) \in Nat
  BY EmailsAre DEF ReceivedIn
<1>2. IsFiniteSet(ReceivedIn(w))
  BY <1>1, NumbersTo, FS_Subset
<1>3. Spam \cup Ham = ReceivedIn(w) /\ Spam \cap Ham = {}
  OBVIOUS
<1>4. /\ IsFiniteSet(Spam) /\ IsFiniteSet(Ham)
      /\ Cardinality(Spam) \in Nat /\ Cardinality(Ham) \in Nat
  BY <1>2, FS_Subset, FS_CardinalityType
<1> HIDE DEF Spam, Ham
<1>5. Cardinality(Spam \cup Ham)
         = Cardinality(Spam) + Cardinality(Ham) - Cardinality({})
  BY <1>3, <1>4, FS_Union
<1>6. Cardinality({}) = 0
  BY FS_EmptySet
<1>7. Cardinality(Spam) + Cardinality(Ham) = Cardinality(ReceivedIn(w))
  <2>1. Cardinality(Spam \cup Ham) = Cardinality(ReceivedIn(w))
    BY <1>3
  <2>2. Cardinality(Spam \cup Ham) = Cardinality(Spam) + Cardinality(Ham) - 0
    BY <1>3, <1>5, <1>6
  <2> QED
    BY <1>4, <2>1, <2>2
<1> QED
  BY <1>7 DEF Spam, Ham

\* The chart of the misclassification rate is about the calendar weeks.
LEMMA RateIsOfTheWeeks ==
    ASSUME FolderTypeOK, ScanTypeOK, NEW day \in Int,
           \A i \in DOMAIN emails : emails[i].date <= day
    PROVE  misclassification_rate(Taken(day)) =
              { [date |-> w,
                 part |-> Cardinality({ i \in ReceivedIn(w) : ~emails[i].isSpam }),
                 of   |-> Cardinality(ReceivedIn(w))] :
                   w \in WeeksWithSpam(day) }
<1> DEFINE t == Taken(day)
           spam(w) == Cardinality({ n \in DOMAIN t : t[n].date = w /\ t[n].isSpam })
           ham(w) == Cardinality({ n \in DOMAIN t : t[n].date = w /\ ~t[n].isSpam })
           Spam(w) == Cardinality({ i \in ReceivedIn(w) : emails[i].isSpam })
           Ham(w) == Cardinality({ i \in ReceivedIn(w) : ~emails[i].isSpam })
           All(w) == Cardinality(ReceivedIn(w))
           W == WeeksWithSpam(day)
<1>1. spam_counts(t) =
         { [date |-> w, spam |-> spam(w), ham |-> ham(w)] :
             w \in { b.date : b \in ToSet(t) } }
  BY DEF spam_counts, Count
<1>2. /\ { b.date : b \in ToSet(t) } = W
      /\ \A w \in W : spam(w) = Spam(w) /\ ham(w) = Ham(w)
  BY WeekIsCounted
<1>3. \A w \in W : Spam(w) + Ham(w) = All(w)
  BY SpamAndHam
<1> HIDE DEF t, spam, ham, Spam, Ham, All, W
<1>4. misclassification_rate(t) =
         { [date |-> w, part |-> ham(w), of |-> spam(w) + ham(w)] : w \in W }
  <2> DEFINE counts(w) == [date |-> w, spam |-> spam(w), ham |-> ham(w)]
             rate(c) == [date |-> c.date, part |-> c.ham, of |-> c.spam + c.ham]
  <2>1. spam_counts(t) = { counts(w) : w \in W }
    BY <1>1, <1>2
  <2>2. misclassification_rate(t) = { rate(c) : c \in spam_counts(t) }
    BY DEF misclassification_rate
  <2>3. \A w : rate(counts(w)) =
                 [date |-> w, part |-> ham(w), of |-> spam(w) + ham(w)]
    OBVIOUS
  <2> HIDE DEF counts, rate
  <2>4. misclassification_rate(t) = { rate(counts(w)) : w \in W }
    BY <2>1, <2>2
  <2> QED
    BY <2>3, <2>4
<1>5. misclassification_rate(t) =
         { [date |-> w, part |-> Ham(w), of |-> All(w)] : w \in W }
  BY <1>2, <1>3, <1>4
<1> QED
  BY <1>5 DEF t, Ham, All, W

\* So is the histogram of messages per week.
LEMMA HistogramIsOfTheWeeks ==
    ASSUME FolderTypeOK, ScanTypeOK, NEW day \in Int,
           \A i \in DOMAIN emails : emails[i].date <= day
    PROVE  IntoBins([n \in DOMAIN Taken(day) |-> Taken(day)[n].date]) =
              { [of |-> w, count |-> Cardinality(ReceivedIn(w))] :
                   w \in WeeksWithSpam(day) }
<1> DEFINE t == Taken(day)
           dates == [n \in DOMAIN t |-> t[n].date]
           all(w) == Cardinality({ n \in DOMAIN t : t[n].date = w })
           All(w) == Cardinality(ReceivedIn(w))
           bin(w) == Cardinality({ n \in DOMAIN dates : dates[n] = w })
           W == WeeksWithSpam(day)
<1>1. IntoBins(dates) = { [of |-> w, count |-> bin(w)] : w \in ToSet(dates) }
  BY DEF IntoBins, Count
<1>2. \A w : { n \in DOMAIN dates : dates[n] = w } = { n \in DOMAIN t : t[n].date = w }
  OBVIOUS
<1>3. ToSet(dates) = { b.date : b \in ToSet(t) }
  BY DEF ToSet
<1>4. /\ { b.date : b \in ToSet(t) } = W
      /\ \A w \in W : all(w) = All(w)
  BY WeekIsCounted
<1>5. \A w : bin(w) = all(w)
  BY <1>2
<1> HIDE DEF t, all, All, W, dates, bin
<1>6. IntoBins(dates) = { [of |-> w, count |-> All(w)] : w \in W }
  BY <1>1, <1>3, <1>4, <1>5
<1> QED
  BY <1>6 DEF dates, t, All, W

\* Without a message of the last weeks there is nothing to draw.
LEMMA NoWeeks ==
    ASSUME FolderTypeOK, ScanTypeOK, NEW day \in Int,
           \A i \in DOMAIN emails : emails[i].date <= day
    PROVE  /\ WeeksWithSpam(day) = {} =>
                 \A i \in DOMAIN emails : emails[i].date < day - DAILY_CHART_WINDOW
           /\ WeeksWithSpam(day) # {} =>
                 \E i \in DOMAIN emails :
                    emails[i].date >= day - 7 * (WEEKLY_CHART_WINDOW - 1)
<1>1. \A i \in DOMAIN emails : emails[i].date \in Int
  BY EmailsAre DEF Dated
<1>2. \A i \in DOMAIN emails :
         /\ MondayOf(emails[i].date) \in Int
         /\ emails[i].date - 6 <= MondayOf(emails[i].date)
         /\ MondayOf(emails[i].date) <= emails[i].date
  BY <1>1, MondayIsPrevious
<1>3. MondayOf(day) \in Int /\ MondayOf(day) % 7 = 3
      /\ day - 6 <= MondayOf(day) /\ MondayOf(day) <= day
  BY MondayIsPrevious
<1>4. ASSUME WeeksWithSpam(day) = {}, NEW i \in DOMAIN emails
      PROVE  emails[i].date < day - DAILY_CHART_WINDOW
  <2>1. i \notin InTheWeeks(day)
    BY <1>4, TakenAreOfTheWeeks
  <2>2. ~(MondayOf(emails[i].date) > MondayOf(day) - 7 * (WEEKLY_CHART_WINDOW - 1))
    BY <2>1 DEF InTheWeeks
  <2> QED
    BY <1>1, <1>2, <1>3, <2>2 DEF WEEKLY_CHART_WINDOW, DAILY_CHART_WINDOW
<1>5. ASSUME WeeksWithSpam(day) # {}
      PROVE  \E i \in DOMAIN emails :
                emails[i].date >= day - 7 * (WEEKLY_CHART_WINDOW - 1)
  <2>1. PICK w \in WeeksWithSpam(day) : TRUE
    BY <1>5
  <2>2. PICK i \in DOMAIN emails : MondayOf(emails[i].date) = w
    BY <2>1 DEF WeeksWithSpam, ReceivedIn
  <2>3. PICK k \in 0 .. WEEKLY_CHART_WINDOW - 2 : w = MondayOf(day) - 7 * k
    BY <2>1 DEF WeeksWithSpam, LastWeeks
  <2>4. k \in Int /\ k <= 28
    BY DEF WEEKLY_CHART_WINDOW
  <2>5. emails[i].date >= day - 7 * 29
    BY <1>1, <1>2, <1>3, <2>2, <2>3, <2>4
  <2> QED
    BY <2>5 DEF WEEKLY_CHART_WINDOW
<1> QED
  BY <1>4, <1>5

LastDays(day) == last_n_days(emails, DAILY_CHART_WINDOW, day)

InTheDays(day) ==
    { i \in DOMAIN emails :
        emails[i].date \in day - DAILY_CHART_WINDOW .. day }

\* last_n_days cuts off what is older, when the list is in order.
LEMMA DailyIsOfTheDays ==
    ASSUME FolderTypeOK, ScanTypeOK, OldestFirst, NEW day \in Int,
           \A i \in DOMAIN emails : emails[i].date <= day
    PROVE  /\ Len(LastDays(day)) = Cardinality(InTheDays(day))
           /\ ToSet(LastDays(day)) = { emails[i] : i \in InTheDays(day) }
           /\ LastDays(day) = << >> => InTheDays(day) = {}
<1> DEFINE L == Len(emails)
           D == DOMAIN emails
           earliest == day - DAILY_CHART_WINDOW
           older == { i \in D : emails[i].date < earliest }
           before == Cardinality(older)
<1>1. /\ L \in Nat /\ D = 1 .. L
      /\ \A i \in D : emails[i].date \in Int /\ emails[i].date <= day
      /\ \A i, j \in D : i <= j => emails[i].date <= emails[j].date
      /\ emails \in Seq({ Email(m) : m \in Messages })
  BY EmailsAre DEF Dated, OldestFirst, ScanTypeOK
<1>2. earliest \in Int
  BY DEF DAILY_CHART_WINDOW
<1>3. LastDays(day) =
         IF emails = << >> \/ emails[1].date > earliest THEN emails
         ELSE IF Last(emails).date < earliest THEN << >>
         ELSE SubSeq(emails, before + 1, L)
  BY DEF LastDays, last_n_days, Count
<1>4. InTheDays(day) = D \ older
  <2> HIDE DEF earliest, D
  <2> QED
    BY <1>1, <1>2 DEF InTheDays, earliest, D
<1>5. older = 1 .. before /\ before \in 0 .. L
  <2>1. older \in SUBSET (1 .. L)
    BY <1>1
  <2>2. \A k \in older : \A i \in 1 .. L : i <= k => i \in older
    <3> HIDE DEF earliest, L
    <3> QED
      BY <1>1, <1>2
  <2> HIDE DEF older, L
  <2> QED
    BY <1>1, <2>1, <2>2, FirstPlaces, PlacesAreFinite
<1> HIDE DEF before
<1>6. CASE emails = << >> \/ emails[1].date > earliest
  <2>1. older = {}
    <3>1. CASE emails = << >>
      BY <3>1
    <3>2. CASE emails # << >> /\ emails[1].date > earliest
      <4>1. L # 0
        BY <1>1, <3>2, EmptySeq
      <4>2. 1 \in D /\ \A i \in D : 1 <= i
        BY <1>1, <4>1
      <4> HIDE DEF D, L, earliest
      <4> QED
        BY <1>1, <1>2, <3>2, <4>2
    <3> QED
      BY <1>6, <3>1, <3>2
  <2>2. LastDays(day) = emails /\ InTheDays(day) = D
    BY <1>3, <1>4, <1>6, <2>1
  <2>3. Cardinality(D) = L
    BY <1>1, NumbersTo
  <2>4. emails = << >> => D = {}
    OBVIOUS
  <2> QED
    BY <2>2, <2>3, <2>4 DEF ToSet
<1>7. CASE ~(emails = << >> \/ emails[1].date > earliest)
  <2>1. L \in D /\ Last(emails) = emails[L] /\ \A i \in D : i <= L
    <3>1. L # 0
      BY <1>1, <1>7, EmptySeq
    <3> QED
      BY <1>1, <3>1 DEF Last
  <2>2. CASE emails[L].date < earliest
    <3>1. older = D
      <4> HIDE DEF L, D, earliest
      <4> QED
        BY <1>1, <1>2, <2>1, <2>2
    <3>2. LastDays(day) = << >>
      BY <1>3, <1>7, <2>1, <2>2
    <3>3. InTheDays(day) = {}
      BY <1>4, <3>1
    <3> QED
      BY <3>2, <3>3, FS_EmptySet DEF ToSet
  <2>3. CASE ~(emails[L].date < earliest)
    <3>1. LastDays(day) = SubSeq(emails, before + 1, L)
      BY <1>3, <1>7, <2>1, <2>3
    <3>2. before < L
      <4>1. L \notin older
        BY <2>3
      <4> HIDE DEF older
      <4> QED
        BY <1>1, <1>5, <2>1, <4>1
    <3>3. InTheDays(day) = before + 1 .. L
      <4> HIDE DEF older, L
      <4> QED
        BY <1>1, <1>4, <1>5
    <3> HIDE DEF L, older
    <3>4. Cardinality(before + 1 .. L) = L - before
      <4>1. before + 1 \in Int /\ L \in Int /\ before + 1 <= L
        BY <1>1, <1>5, <3>2
      <4>2. Cardinality(before + 1 .. L) = L - (before + 1) + 1
        BY <4>1, FS_Interval
      <4> QED
        BY <1>1, <1>5, <4>2
    <3> DEFINE S == { emails[i] : i \in before + 1 .. L }
    <3>5. \A i \in before + 1 .. L : emails[i] \in S
      OBVIOUS
    <3> HIDE DEF S
    <3>6. /\ before + 1 \in Int /\ L \in Int /\ before \in Nat /\ L \in Nat
      BY <1>1, <1>5
    <3>7. LET cut == SubSeq(emails, before + 1, L)
          IN  /\ cut \in Seq(S)
              /\ Len(cut) = IF before + 1 <= L THEN L - (before + 1) + 1 ELSE 0
              /\ \A i \in 1 .. L - (before + 1) + 1 :
                    cut[i] = emails[before + 1 + i - 1]
      BY <3>5, <3>6, SubSeqProperties
    <3> DEFINE cut == SubSeq(emails, before + 1, L)
    <3>8. Len(cut) = L - before /\ cut \in Seq(S)
      BY <3>2, <3>6, <3>7
    <3>9. \A i \in 1 .. L - before : cut[i] = emails[before + i]
      <4>1. \A i \in 1 .. L - before :
               i \in 1 .. L - (before + 1) + 1 /\ before + 1 + i - 1 = before + i
        BY <3>6
      <4> QED
        BY <3>7, <4>1
    <3> HIDE DEF cut
    <3>10. DOMAIN cut = 1 .. L - before
      BY <3>8
    <3>11. ToSet(cut) = { emails[i] : i \in before + 1 .. L }
      <4>1. \A i \in 1 .. L - before : before + i \in before + 1 .. L
        BY <3>6
      <4>2. \A i \in before + 1 .. L :
               i - before \in 1 .. L - before /\ before + (i - before) = i
        BY <3>6
      <4>3. \A i \in before + 1 .. L : cut[i - before] = emails[i]
        BY <3>9, <4>2
      <4>4. ToSet(cut) = { cut[i] : i \in 1 .. L - before }
        BY <3>10 DEF ToSet
      <4> QED
        BY <3>9, <4>1, <4>2, <4>3, <4>4
    <3>12. cut # << >>
      <4>1. Len(cut) # 0
        BY <3>2, <3>6, <3>8
      <4> QED
        BY <4>1
    <3>13. LastDays(day) = cut
      BY <3>1 DEF cut
    <3> QED
      BY <3>3, <3>4, <3>8, <3>11, <3>12, <3>13
  <2> QED
    BY <2>2, <2>3
<1> QED
  BY <1>6, <1>7

ScoreHistogram == IntoBins([i \in DOMAIN emails |-> quantize(emails[i].score)])

\* The bins of the scores are those of the sorted list too.
LEMMA ScoresOfTheSorted ==
    ASSUME FolderTypeOK, ScanTypeOK
    PROVE  /\ \A n \in DOMAIN Sorted(emails) :
                 \E bin \in ScoreHistogram : InBin(Sorted(emails)[n].score, bin.of)
           /\ \A bin \in ScoreHistogram :
                 bin.count = Cardinality({ n \in DOMAIN Sorted(emails) :
                                             InBin(Sorted(emails)[n].score, bin.of) })
<1> DEFINE D == DOMAIN emails
           sorted == Sorted(emails)
           value(i) == quantize(emails[i].score)
           values == [i \in D |-> value(i)]
           number(v) == Cardinality({ i \in D : value(i) = v })
           binned(v) == Cardinality({ n \in D : InBin(sorted[n].score, v) })
<1>1. /\ Dated(emails)
      /\ IsFiniteSet(D)
      /\ \A i \in D : emails[i].score \in Int
  <2>1. \A i \in D : /\ emails[i].msg \in Messages
                     /\ emails[i] = Email(emails[i].msg)
    BY EmailsAre
  <2>2. \A m \in Messages : Email(m).score \in Int
    BY MailAssumption DEF Email
  <2>3. D = 1 .. Len(emails) /\ Len(emails) \in Nat
    BY EmailsAre
  <2> QED
    BY <2>1, <2>2, <2>3, EmailsAre, NumbersTo
<1>2. DOMAIN sorted = D
  BY <1>1, SortedIsSorted
<1>3. PICK pos \in [D -> D] :
         /\ \A n \in D : sorted[n] = emails[pos[n]]
         /\ \A n, k \in D : pos[n] = pos[k] => n = k
         /\ \A i \in D : \E n \in D : pos[n] = i
  BY <1>1, SortedIsSorted
<1>4. \A i \in D : value(i) \in Int
                   /\ \A v \in Int : InBin(emails[i].score, v) <=> value(i) = v
  BY <1>1, BinOfScore
<1>5. ScoreHistogram = { [of |-> v, count |-> number(v)] : v \in { value(i) : i \in D } }
  <2>1. ToSet(values) = { value(i) : i \in D }
    BY DEF ToSet
  <2> DEFINE many(v) == Cardinality({ i \in DOMAIN values : values[i] = v })
  <2>2. \A v : { i \in DOMAIN values : values[i] = v } = { i \in D : value(i) = v }
    OBVIOUS
  <2>3. \A v : many(v) = number(v)
    BY <2>2
  <2>4. ScoreHistogram = { [of |-> v, count |-> many(v)] : v \in ToSet(values) }
    BY DEF ScoreHistogram, IntoBins, Count
  <2> HIDE DEF many, number, values, value, D
  <2> QED
    BY <2>1, <2>3, <2>4
<1>0. ASSUME NEW S \in SUBSET D, NEW T \in SUBSET D,
             \A n \in D : n \in S <=> pos[n] \in T
      PROVE  Cardinality(T) = Cardinality(S)
  <2> DEFINE f == [n \in S |-> pos[n]]
  <2>1. IsFiniteSet(S)
    BY <1>1, FS_Subset
  <2> HIDE DEF D
  <2>2. f \in [S -> T] /\ \A n \in S : n \in D /\ f[n] = pos[n]
    BY <1>0
  <2> HIDE DEF f
  <2>3. \A n, k \in S : f[n] = f[k] => n = k
    BY <1>3, <2>2
  <2>4. \A t \in T : \E n \in S : f[n] = t
    BY <1>0, <1>3, <2>2
  <2> QED
    BY <2>1, <2>2, <2>3, <2>4, SameNumber
<1>6. \A v \in Int : binned(v) = number(v)
  <2> SUFFICES ASSUME NEW v \in Int PROVE binned(v) = number(v)
    OBVIOUS
  <2> DEFINE S == { n \in D : InBin(sorted[n].score, v) }
             T == { i \in D : value(i) = v }
  <2>1. S \in SUBSET D /\ T \in SUBSET D
    OBVIOUS
  <2>2. \A n \in D : pos[n] \in D
    BY <1>3
  <2>3. \A n \in D : n \in S <=> pos[n] \in T
    <3> HIDE DEF D, sorted, value
    <3> QED
      BY <1>3, <1>4, <2>2
  <2> HIDE DEF S, T, D
  <2>4. Cardinality(T) = Cardinality(S)
    BY <1>0, <2>1, <2>3
  <2> QED
    BY <2>4 DEF S, T
<1>7. \A n \in D : InBin(sorted[n].score, value(pos[n])) /\ pos[n] \in D
  <2> HIDE DEF D, sorted, value
  <2> QED
    BY <1>3, <1>4
<1> HIDE DEF D, sorted, value, number, binned
<1>8. \A n \in D : \E bin \in ScoreHistogram : InBin(sorted[n].score, bin.of)
  <2> SUFFICES ASSUME NEW n \in D
               PROVE  \E bin \in ScoreHistogram : InBin(sorted[n].score, bin.of)
    OBVIOUS
  <2> DEFINE v == value(pos[n])
             bin == [of |-> v, count |-> number(v)]
  <2>1. bin \in ScoreHistogram /\ bin.of = v
    BY <1>5, <1>7
  <2>2. InBin(sorted[n].score, bin.of)
    BY <1>7, <2>1
  <2> HIDE DEF bin
  <2> QED
    BY <2>1, <2>2
<1>9. \A bin \in ScoreHistogram : bin.count = binned(bin.of)
  BY <1>4, <1>5, <1>6
<1> QED
  BY <1>2, <1>8, <1>9 DEF D, sorted, binned

-----------------------------------------------------------------------------
(***************************************************************************)
(* The charts                                                              *)
(***************************************************************************)

\* Time does not go back, and what is delivered is dated with today.
LEMMA DatesStep ==
    ASSUME TypeOK, DatesArePast, Next
    PROVE  DatesArePast' /\ today <= today' /\ today \in Nat /\ today' \in Nat
<1>0. /\ today \in Nat /\ lastRun \in Nat
      /\ received \in [Messages -> Nat] /\ FolderTypeOK
  BY DEF TypeOK, ScanTypeOK, FolderTypeOK
<1> USE DEF DatesArePast
<1>1. ASSUME Midnight
      PROVE  DatesArePast' /\ today <= today' /\ today' \in Nat
  <2>1. today' = today + 1 /\ UNCHANGED << received, lastRun >>
    BY <1>1 DEF Midnight, folderVars, scanVars
  <2>2. \A m \in Messages : received[m] \in Nat
    BY <1>0
  <2> QED
    BY <1>0, <2>1, <2>2
<1>2. ASSUME Delivery \/ UseMail
      PROVE  DatesArePast' /\ today' = today
  <2>1. PICK m \in Messages : Deliver(m, today) \/ Client(m)
    BY <1>2 DEF Delivery, UseMail
  <2>2. UNCHANGED << today, lastRun >>
    BY <1>2 DEF Delivery, UseMail, Touch, scanVars
  <2>3. CASE Deliver(m, today)
    <3>1. received' = [received EXCEPT ![m] = today]
      BY <2>3 DEF Deliver
    <3> QED
      BY <1>0, <2>2, <3>1
  <2>4. CASE Client(m)
    <3>1. UNCHANGED received
      BY <2>4 DEF Client, MoveIntoSpam, MoveOutOfSpam, Notice, Read, Expunge
    <3> QED
      BY <2>2, <3>1
  <2> QED
    BY <2>1, <2>3, <2>4
<1>3. ASSUME MakeConfiguration \/ StartPostfix \/ StopPostfix \/ Scan \/ Reboot
      PROVE  DatesArePast' /\ today' = today
  <2>1. UNCHANGED << today, received >>
    BY <1>3 DEF MakeConfiguration, StartPostfix, StopPostfix, Scan, ScanStep,
       Cron, AskRspamc, ListCur, ListNew, OpenFile, AllOpened, SortAndCount,
       DrawRate, DrawDaily, DrawWeekly, ReportDomains, Send, Reboot, folderVars
  <2>2. lastRun' = lastRun \/ lastRun' = today
    BY <1>3 DEF MakeConfiguration, StartPostfix, StopPostfix, Scan, ScanStep,
       Cron, AskRspamc, ListCur, ListNew, OpenFile, AllOpened, SortAndCount,
       DrawRate, DrawDaily, DrawWeekly, ReportDomains, Send, Reboot, scanVars
  <2> QED
    BY <1>0, <2>1, <2>2
<1> QED
  BY <1>0, <1>1, <1>2, <1>3 DEF Next

\* What was read is dated with a day that has come.
LEMMA EmailsArePast ==
    ASSUME TypeOK, DatesArePast
    PROVE  /\ today \in Nat /\ lastRun \in Nat /\ lastRun <= today
           /\ today \in ReadingDays
           /\ \A i \in DOMAIN emails :
                 emails[i].date \in Int /\ emails[i].date <= today
<1>1. today \in Nat /\ lastRun \in Nat /\ lastRun <= today
  BY DEF TypeOK, ScanTypeOK, DatesArePast
<1>2. \A i \in DOMAIN emails : /\ emails[i].msg \in Messages
                               /\ emails[i] = Email(emails[i].msg)
  BY EmailsAre DEF TypeOK
<1>3. \A m \in Messages : Email(m).date \in Int /\ Email(m).date <= today
  BY DEF TypeOK, FolderTypeOK, DatesArePast, Email
<1> QED
  BY <1>1, <1>2, <1>3 DEF ReadingDays

\* A chart that is drawn leaves the others.
LEMMA OneIsDrawn ==
    ASSUME ScanTypeOK, NEW data
    PROVE  /\ [charts EXCEPT !.scores = data].scores = data
           /\ LET drawn == [charts EXCEPT !.rate = data]
              IN  drawn.rate = data /\ drawn.scores = charts.scores
           /\ LET drawn == [charts EXCEPT !.daily = data]
              IN  /\ drawn.daily = data /\ drawn.scores = charts.scores
                  /\ drawn.rate = charts.rate
           /\ LET drawn == [charts EXCEPT !.weekly = data]
              IN  /\ drawn.weekly = data /\ drawn.scores = charts.scores
                  /\ drawn.rate = charts.rate /\ drawn.daily = charts.daily
<1>1. DOMAIN charts = { "scores", "rate", "daily", "weekly" }
  BY DEF ScanTypeOK, NoCharts
<1> QED
  BY <1>1

\* What is said of a chart stays true while the list and the chart stay.
LEMMA SameList ==
    ASSUME emails' = emails
    PROVE  /\ OldestFirst' = OldestFirst
           /\ charts.scores' = charts.scores => ScoresAreBinned' = ScoresAreBinned
           /\ charts.rate' = charts.rate =>
                 \A day : RateIsByWeek(day)' = RateIsByWeek(day)
           /\ charts.weekly' = charts.weekly =>
                 \A day : HistogramIsByWeek(day)' = HistogramIsByWeek(day)
           /\ charts.daily' = charts.daily =>
                 \A dates : DailyIsOfDates(dates)' = DailyIsOfDates(dates)
<1>1. OldestFirst' = OldestFirst
  BY DEF OldestFirst
<1>2. ASSUME charts.scores' = charts.scores
      PROVE  ScoresAreBinned' = ScoresAreBinned
  BY <1>2 DEF ScoresAreBinned, Count
<1>3. \A w : ReceivedIn(w)' = ReceivedIn(w)
  BY DEF ReceivedIn
<1>4. \A day : WeeksWithSpam(day)' = WeeksWithSpam(day)
  BY <1>3 DEF WeeksWithSpam
<1>5. ASSUME charts.rate' = charts.rate, NEW day
      PROVE  RateIsByWeek(day)' = RateIsByWeek(day)
  <2> DEFINE ham(w) == Cardinality({ i \in ReceivedIn(w) : ~emails[i].isSpam })
             all(w) == Cardinality(ReceivedIn(w))
             rate == { [date |-> w, part |-> ham(w), of |-> all(w)] :
                          w \in WeeksWithSpam(day) }
  <2>1. \A w : ham(w)' = ham(w) /\ all(w)' = all(w)
    BY <1>3
  <2>2. RateIsByWeek(day) = (charts.rate = rate)
    BY DEF RateIsByWeek
  <2>3. RateIsByWeek(day)' = (charts.rate' = rate')
    BY DEF RateIsByWeek
  <2> HIDE DEF ham, all
  <2>4. rate' = rate
    BY <1>4, <2>1
  <2> QED
    BY <1>5, <2>2, <2>3, <2>4
<1>6. ASSUME charts.weekly' = charts.weekly, NEW day
      PROVE  HistogramIsByWeek(day)' = HistogramIsByWeek(day)
  BY <1>3, <1>4, <1>6 DEF HistogramIsByWeek
<1>7. ASSUME charts.daily' = charts.daily, NEW dates
      PROVE  DailyIsOfDates(dates)' = DailyIsOfDates(dates)
  BY <1>7 DEF DailyIsOfDates
<1> QED
  BY <1>1, <1>2, <1>5, <1>6, <1>7

\* The steps of the gadget that are not of the scan leave list and charts alone.
LEMMA ScanWaits ==
    ASSUME TypeOK, MakeConfiguration \/ StartPostfix \/ StopPostfix
                   \/ Delivery \/ UseMail \/ Midnight
    PROVE  UNCHANGED << scan, emails, charts, lastRun >>
BY DEF MakeConfiguration, StartPostfix, StopPostfix, Delivery, UseMail,
   Midnight, Touch, scanVars

\* While charts are drawn nothing is read, and before that nothing is drawn.
LEMMA NothingDrawnYet ==
    ASSUME Cron \/ AskRspamc \/ ListCur \/ ListNew \/ OpenFile \/ AllOpened
           \/ Reboot
    PROVE  scan' \in { "idle", "rspamc", "listCur", "listNew", "open", "sort",
                       "failed" }
BY DEF Cron, AskRspamc, ListCur, ListNew, OpenFile, AllOpened, Reboot

\* The days of the clock stay in ReadingDays as the clock goes on.
LEMMA ChartsOutlastTheDay ==
    ASSUME TypeOK, DatesArePast, ChartsAreOfTheList, lastRun' = lastRun,
           today' \in Nat, today <= today',
           UNCHANGED << scan, emails, charts >>
    PROVE  ChartsAreOfTheList'
<1>1. /\ OldestFirst' = OldestFirst
      /\ ScoresAreBinned' = ScoresAreBinned
      /\ \A day : RateIsByWeek(day)' = RateIsByWeek(day)
      /\ \A day : HistogramIsByWeek(day)' = HistogramIsByWeek(day)
      /\ \A dates : DailyIsOfDates(dates)' = DailyIsOfDates(dates)
  BY SameList
<1>2. ReadingDays \subseteq ReadingDays'
  BY EmailsArePast DEF ReadingDays
<1>3. PanicsWithoutRecentSpam'
  <2>1. scan = "panicked" =>
          /\ emails # << >>
          /\ \A i \in DOMAIN emails : emails[i].date < today' - DAILY_CHART_WINDOW
    BY EmailsArePast
       DEF ChartsAreOfTheList, PanicsWithoutRecentSpam, DAILY_CHART_WINDOW
  <2>2. Reported' = Reported /\ HasSpamOfTheWeeks' = HasSpamOfTheWeeks
    BY DEF Reported, HasSpamOfTheWeeks
  <2> QED
    BY <2>1, <2>2 DEF ChartsAreOfTheList, PanicsWithoutRecentSpam
<1>4. HasSpamOfTheWeeks' = HasSpamOfTheWeeks
  BY DEF HasSpamOfTheWeeks
<1>5. scan' \in { "rate", "daily", "weekly" } => emails' # << >>
  BY DEF ChartsAreOfTheList
<1>6. scan' \in AfterSort => OldestFirst' /\ ScoresAreBinned'
  BY <1>1 DEF ChartsAreOfTheList
<1>7. scan' \in AfterRate /\ emails' # << >> =>
         \E day \in ReadingDays' : RateIsByWeek(day)'
  BY <1>1, <1>2 DEF ChartsAreOfTheList
<1>8. scan' \in AfterDaily /\ emails' # << >> =>
         \E day \in ReadingDays' : DailyIsOfDates(day - 14 .. day)'
  BY <1>1, <1>2 DEF ChartsAreOfTheList
<1>9. scan' \in AfterWeekly /\ emails' # << >> =>
         /\ \E day \in ReadingDays' : HistogramIsByWeek(day)'
         /\ HasSpamOfTheWeeks'
  BY <1>1, <1>2, <1>4 DEF ChartsAreOfTheList
<1> QED
  BY <1>3, <1>5, <1>6, <1>7, <1>8, <1>9
     DEF ChartsAreOfTheList

\* Each chart is drawn of the list, and says of it what it should.
LEMMA ChartsStep ==
    ASSUME TypeOK, DatesArePast, ChartsAreOfTheList, Next
    PROVE  ChartsAreOfTheList'
<1>0. /\ FolderTypeOK /\ ScanTypeOK
      /\ today \in Int /\ today \in ReadingDays /\ lastRun \in Int /\ lastRun <= today
      /\ \A i \in DOMAIN emails : emails[i].date \in Int /\ emails[i].date <= today
  BY EmailsArePast DEF TypeOK
<1>1. ASSUME MakeConfiguration \/ StartPostfix \/ StopPostfix \/ Delivery
             \/ UseMail \/ Midnight
      PROVE  ChartsAreOfTheList'
  <2>1. UNCHANGED << scan, emails, charts, lastRun >>
    BY <1>1, ScanWaits
  <2>2. today' \in Nat /\ today <= today'
    BY DatesStep
  <2> QED
    BY <2>1, <2>2, ChartsOutlastTheDay
<1>2. ASSUME Cron \/ AskRspamc \/ ListCur \/ ListNew \/ OpenFile \/ AllOpened
             \/ Reboot
      PROVE  ChartsAreOfTheList'
  <2>1. scan' \in { "idle", "rspamc", "listCur", "listNew", "open", "sort",
                    "failed" }
    BY <1>2, NothingDrawnYet
  <2> QED
    BY <2>1 DEF ChartsAreOfTheList, AfterSort, AfterRate, AfterDaily,
       AfterWeekly, PanicsWithoutRecentSpam, Reported
<1>3. ASSUME SortAndCount PROVE ChartsAreOfTheList'
  <2>1. /\ emails' = Sorted(emails)
        /\ charts' = [charts EXCEPT !.scores = ScoreHistogram]
        /\ scan' = IF emails = << >> THEN "domains" ELSE "rate"
    BY <1>3 DEF SortAndCount, ScoreHistogram
  <2>2. charts'.scores = ScoreHistogram
    BY <1>0, <2>1, OneIsDrawn
  <2>3. Dated(emails) /\ DOMAIN emails = 1 .. Len(emails) /\ Len(emails) \in Nat
    BY <1>0, EmailsAre
  <2>4. /\ DOMAIN Sorted(emails) = DOMAIN emails
        /\ \A n, k \in DOMAIN emails :
              n <= k => Sorted(emails)[n].date <= Sorted(emails)[k].date
    BY <2>3, SortedIsSorted
  <2>5. OldestFirst'
    BY <2>1, <2>4 DEF OldestFirst
  <2>6. ScoresAreBinned'
    BY <1>0, <2>1, <2>2, ScoresOfTheSorted DEF ScoresAreBinned, Count
  <2>7. emails = << >> <=> emails' = << >>
    <3>1. Sorted(emails) \in Seq({ Email(m) : m \in Messages })
          /\ emails \in Seq({ Email(m) : m \in Messages })
      BY <1>0, SortedEmails DEF ScanTypeOK
    <3>2. emails = << >> <=> DOMAIN emails = {}
      BY <3>1
    <3>3. Sorted(emails) = << >> <=> DOMAIN Sorted(emails) = {}
      BY <3>1
    <3> QED
      BY <2>1, <2>4, <3>2, <3>3
  <2>8. CASE emails = << >>
    BY <2>1, <2>5, <2>6, <2>7, <2>8
       DEF ChartsAreOfTheList, PanicsWithoutRecentSpam, Reported
  <2>9. CASE emails # << >>
    <3>1. scan' = "rate" /\ emails' # << >>
      BY <2>1, <2>7, <2>9
    <3>2. "rate" \notin AfterRate /\ "rate" \notin AfterDaily
          /\ "rate" \notin AfterWeekly
      BY DEF AfterRate, AfterDaily, AfterWeekly
    <3> QED
      BY <2>5, <2>6, <3>1, <3>2
         DEF ChartsAreOfTheList, PanicsWithoutRecentSpam, Reported
  <2> QED
    BY <2>8, <2>9
<1>4. ASSUME DrawRate PROVE ChartsAreOfTheList'
  <2> DEFINE rate == misclassification_rate(Taken(today))
  <2>1. /\ scan = "rate" /\ charts' = [charts EXCEPT !.rate = rate]
        /\ scan' = IF rate # {} THEN "daily" ELSE "panicked"
        /\ UNCHANGED << today, emails, lastRun >>
    BY <1>4 DEF DrawRate, Taken, HasAxes
  <2>2. OldestFirst /\ ScoresAreBinned /\ emails # << >>
    BY <2>1 DEF ChartsAreOfTheList, AfterSort
  <2> HIDE DEF rate
  <2>3. charts'.rate = rate /\ charts'.scores = charts.scores
    BY <1>0, <2>1, OneIsDrawn
  <2>4. OldestFirst' /\ ScoresAreBinned'
    BY <2>1, <2>2, <2>3, SameList
  <2>5. RateIsByWeek(today)'
    <3>1. RateIsByWeek(today)' = (rate =
              { [date |-> w,
                 part |-> Cardinality({ i \in ReceivedIn(w) : ~emails[i].isSpam }),
                 of   |-> Cardinality(ReceivedIn(w))] :
                   w \in WeeksWithSpam(today) })
      BY <2>1, <2>3 DEF RateIsByWeek, WeeksWithSpam, ReceivedIn
    <3> QED
      BY <1>0, <3>1, RateIsOfTheWeeks DEF rate
  <2>6. today \in ReadingDays' /\ today' = today
    BY <1>0, <2>1 DEF ReadingDays
  <2>7. rate = {} => \A i \in DOMAIN emails :
                        emails[i].date < today - DAILY_CHART_WINDOW
    <3> DEFINE point(w) ==
                  [date |-> w,
                   part |-> Cardinality({ i \in ReceivedIn(w) : ~emails[i].isSpam }),
                   of   |-> Cardinality(ReceivedIn(w))]
    <3>0. rate = { point(w) : w \in WeeksWithSpam(today) }
      BY <1>0, RateIsOfTheWeeks DEF rate
    <3> HIDE DEF point
    <3>1. rate = {} => WeeksWithSpam(today) = {}
      BY <3>0
    <3> QED
      BY <1>0, <3>1, NoWeeks
  <2>8. \E day \in ReadingDays' : RateIsByWeek(day)'
    BY <2>5, <2>6
  <2>9. "daily" \notin AfterDaily /\ "daily" \notin AfterWeekly
        /\ "panicked" \notin AfterRate /\ "panicked" \notin AfterDaily
        /\ "panicked" \notin AfterWeekly
    BY DEF AfterRate, AfterDaily, AfterWeekly
  <2> QED
    BY <2>1, <2>2, <2>4, <2>7, <2>8, <2>9
       DEF ChartsAreOfTheList, PanicsWithoutRecentSpam, Reported
<1>5. ASSUME DrawDaily PROVE ChartsAreOfTheList'
  <2> DEFINE daily == LastDays(today)
  <2>1. /\ scan = "daily" /\ charts' = [charts EXCEPT !.daily = daily]
        /\ scan' = "weekly" \/ (daily = << >> /\ scan' = "panicked")
        /\ UNCHANGED << today, emails, lastRun >>
    BY <1>5 DEF DrawDaily, LastDays
  <2>2. /\ OldestFirst /\ ScoresAreBinned /\ emails # << >>
        /\ \E day \in ReadingDays : RateIsByWeek(day)
    BY <2>1 DEF ChartsAreOfTheList, AfterSort, AfterRate
  <2> HIDE DEF daily
  <2>3. /\ charts'.daily = daily /\ charts'.scores = charts.scores
        /\ charts'.rate = charts.rate
    BY <1>0, <2>1, OneIsDrawn
  <2>4. /\ OldestFirst' /\ ScoresAreBinned'
        /\ \A day : RateIsByWeek(day)' = RateIsByWeek(day)
    BY <2>1, <2>2, <2>3, SameList
  <2>5. DailyIsOfDates(today - 14 .. today)'
    <3>1. /\ Len(daily) = Cardinality(InTheDays(today))
          /\ ToSet(daily) = { emails[i] : i \in InTheDays(today) }
      BY <1>0, <2>2, DailyIsOfTheDays DEF daily
    <3> QED
      BY <2>1, <2>3, <3>1 DEF DailyIsOfDates, InTheDays, DAILY_CHART_WINDOW
  <2>6. ReadingDays' = ReadingDays /\ today' = today
    BY <2>1 DEF ReadingDays
  <2>7. daily = << >> => \A i \in DOMAIN emails :
                            emails[i].date < today - DAILY_CHART_WINDOW
    <3>1. daily = << >> => InTheDays(today) = {}
      BY <1>0, <2>2, DailyIsOfTheDays DEF daily
    <3> QED
      BY <1>0, <3>1 DEF InTheDays, DAILY_CHART_WINDOW
  <2>8. /\ \E day \in ReadingDays' : RateIsByWeek(day)'
        /\ \E day \in ReadingDays' : DailyIsOfDates(day - 14 .. day)'
    BY <1>0, <2>2, <2>4, <2>5, <2>6
  <2>9. "weekly" \notin AfterWeekly /\ "panicked" \notin AfterRate
        /\ "panicked" \notin AfterDaily /\ "panicked" \notin AfterWeekly
    BY DEF AfterRate, AfterDaily, AfterWeekly
  <2> QED
    BY <2>1, <2>2, <2>4, <2>7, <2>8, <2>9
       DEF ChartsAreOfTheList, PanicsWithoutRecentSpam, Reported
<1>6. ASSUME DrawWeekly PROVE ChartsAreOfTheList'
  <2> DEFINE weekly == IntoBins([n \in DOMAIN Taken(today) |->
                                    Taken(today)[n].date])
  <2>1. /\ scan = "weekly" /\ charts' = [charts EXCEPT !.weekly = weekly]
        /\ scan' = IF weekly # {} THEN "domains" ELSE "panicked"
        /\ UNCHANGED << today, emails, lastRun >>
    BY <1>6 DEF DrawWeekly, Taken, HasAxes
  <2>2. /\ OldestFirst /\ ScoresAreBinned /\ emails # << >>
        /\ \E day \in ReadingDays : RateIsByWeek(day)
        /\ \E day \in ReadingDays : DailyIsOfDates(day - 14 .. day)
    BY <2>1 DEF ChartsAreOfTheList, AfterSort, AfterRate, AfterDaily
  <2> HIDE DEF weekly
  <2>3. /\ charts'.weekly = weekly /\ charts'.scores = charts.scores
        /\ charts'.rate = charts.rate /\ charts'.daily = charts.daily
    BY <1>0, <2>1, OneIsDrawn
  <2>4. /\ OldestFirst' /\ ScoresAreBinned'
        /\ \A day : RateIsByWeek(day)' = RateIsByWeek(day)
        /\ \A dates : DailyIsOfDates(dates)' = DailyIsOfDates(dates)
    BY <2>1, <2>2, <2>3, SameList
  <2>5. HistogramIsByWeek(today)'
    <3>1. HistogramIsByWeek(today)' = (weekly =
              { [of |-> w, count |-> Cardinality(ReceivedIn(w))] :
                   w \in WeeksWithSpam(today) })
      BY <2>1, <2>3 DEF HistogramIsByWeek, WeeksWithSpam, ReceivedIn
    <3> QED
      BY <1>0, <3>1, HistogramIsOfTheWeeks DEF weekly
  <2>6. ReadingDays' = ReadingDays /\ today' = today
    BY <2>1 DEF ReadingDays
  <2>7. /\ weekly = {} => \A i \in DOMAIN emails :
                              emails[i].date < today - DAILY_CHART_WINDOW
        /\ weekly # {} => HasSpamOfTheWeeks'
    <3> DEFINE bar(w) == [of |-> w, count |-> Cardinality(ReceivedIn(w))]
    <3>0. weekly = { bar(w) : w \in WeeksWithSpam(today) }
      BY <1>0, HistogramIsOfTheWeeks DEF weekly
    <3> HIDE DEF bar
    <3>1. weekly = {} <=> WeeksWithSpam(today) = {}
      BY <3>0
    <3>2. weekly # {} => \E i \in DOMAIN emails :
                            emails[i].date >= today - 7 * (WEEKLY_CHART_WINDOW - 1)
      BY <1>0, <3>1, NoWeeks
    <3>3. \A i \in DOMAIN emails :
             emails[i].date >= today - 7 * (WEEKLY_CHART_WINDOW - 1) =>
             emails[i].date >= lastRun - 7 * (WEEKLY_CHART_WINDOW - 1)
      BY <1>0 DEF WEEKLY_CHART_WINDOW
    <3>4. weekly # {} => HasSpamOfTheWeeks'
      BY <2>1, <3>2, <3>3 DEF HasSpamOfTheWeeks
    <3> QED
      BY <1>0, <3>1, <3>4, NoWeeks
  <2>8. /\ \E day \in ReadingDays' : RateIsByWeek(day)'
        /\ \E day \in ReadingDays' : DailyIsOfDates(day - 14 .. day)'
        /\ \E day \in ReadingDays' : HistogramIsByWeek(day)'
    BY <1>0, <2>2, <2>4, <2>5, <2>6
  <2>9. "panicked" \notin AfterRate /\ "panicked" \notin AfterDaily
        /\ "panicked" \notin AfterWeekly
    BY DEF AfterRate, AfterDaily, AfterWeekly
  <2> QED
    BY <2>1, <2>2, <2>4, <2>7, <2>8, <2>9
       DEF ChartsAreOfTheList, PanicsWithoutRecentSpam, Reported
<1>7. ASSUME ReportDomains \/ Send(postfix) PROVE ChartsAreOfTheList'
  <2>1. /\ scan \in AfterWeekly /\ scan' \in AfterWeekly
        /\ UNCHANGED << today, emails, charts, lastRun >>
    BY <1>7 DEF ReportDomains, Send, AfterWeekly
  <2>2. /\ OldestFirst' = OldestFirst
        /\ ScoresAreBinned' = ScoresAreBinned
        /\ \A day : RateIsByWeek(day)' = RateIsByWeek(day)
        /\ \A day : HistogramIsByWeek(day)' = HistogramIsByWeek(day)
        /\ \A dates : DailyIsOfDates(dates)' = DailyIsOfDates(dates)
    BY <2>1, SameList
  <2>3. ReadingDays' = ReadingDays /\ HasSpamOfTheWeeks' = HasSpamOfTheWeeks
    BY <2>1 DEF ReadingDays, HasSpamOfTheWeeks
  <2>4. scan' \notin { "rate", "daily", "weekly", "panicked" }
    BY <2>1 DEF AfterWeekly
  <2>5. scan \in AfterSort /\ scan \in AfterRate /\ scan \in AfterDaily
    BY <2>1 DEF AfterSort, AfterRate, AfterDaily
  <2>6. OldestFirst' /\ ScoresAreBinned'
    BY <2>2, <2>5 DEF ChartsAreOfTheList
  <2>7. emails' # << >> =>
           /\ \E day \in ReadingDays' : RateIsByWeek(day)'
           /\ \E day \in ReadingDays' : DailyIsOfDates(day - 14 .. day)'
           /\ \E day \in ReadingDays' : HistogramIsByWeek(day)'
           /\ HasSpamOfTheWeeks'
    BY <2>1, <2>2, <2>3, <2>5 DEF ChartsAreOfTheList
  <2> QED
    BY <2>4, <2>6, <2>7 DEF ChartsAreOfTheList, PanicsWithoutRecentSpam
<1> QED
  BY <1>1, <1>2, <1>3, <1>4, <1>5, <1>6, <1>7 DEF Next, Scan, ScanStep

-----------------------------------------------------------------------------
\* Every step of the gadget keeps the invariant.
LEMMA NextIInv == IInv /\ [Next]_vars => IInv'
<1> SUFFICES ASSUME IInv, [Next]_vars PROVE IInv'
  OBVIOUS
<1>1. CASE Next
  BY <1>1, TypeStep, ConfigurationStep, LessonsAreKept, ListedStep, ReadStep,
     StandingStep, MovedOrMarkedStep, MovedStep, DatesStep, ChartsStep DEF IInv
<1>2. CASE UNCHANGED vars
  <2>1. ChartsAreOfTheList'
    <3>1. today \in Nat /\ today <= today
      BY EmailsArePast DEF IInv
    <3> QED
      BY <1>2, <3>1, ChartsOutlastTheDay DEF IInv, vars, scanVars
  <2>2. DatesArePast'
    BY <1>2 DEF IInv, DatesArePast, vars, scanVars, folderVars
  <2> QED
    BY <1>2, <2>1, <2>2
       DEF vars, makeconfVars, folderVars, scanVars, gadgetVars, IInv, TypeOK,
       MakeconfTypeOK, FolderTypeOK, ScanTypeOK, Email, ConfigurationIsMade,
       TaughtAfterDelivery, LessonsMatchFolders, ListedOnce, ReadOnce,
       CountedOnce, StandingMailIsOnItsWay, StandingMailIsCounted, Path,
       ReadAreMovedOrMarked, MovedOrMarked, MisclassifiedWereMovedOrMarked
<1> QED
  BY <1>1, <1>2

\* The boot, Postfix, the user and the scan keep the invariant in any order of
\* their steps (postfix-makeconf.sh:36-39, spam.rs:83-112, 207-238).
THEOREM InductiveInvariant == Spec => []IInv
BY InitIInv, NextIInv, PTL DEF Spec

\* Whatever the two configurations are, and wherever the power fails between the
\* two writes of main.cf, the settings of the machine count while Postfix is up
\* (postfix-makeconf.sh:36-39).
THEOREM LocalSettingsAlwaysWin == Spec => []LocalSettingsWin
<1>1. IInv => LocalSettingsWin
  <2> SUFFICES ASSUME IInv, postfix, NEW key \in SetIn(localConf)
               PROVE  Value(mainCf, key) = Value(localConf, key)
    BY DEF LocalSettingsWin
  <2>1. mainCf \in Seq(ConfLine) /\ localConf \in Seq(ConfLine)
    BY ConfAssumption DEF IInv, TypeOK, MakeconfTypeOK
  <2>2. EndsWith(mainCf, localConf)
    <3>1. PICK left \in { << >>, Stripped(BaseConf, Keys(localConf)) } :
             mainCf = left \o localConf
      BY DEF IInv, ConfigurationIsMade
    <3>2. left \in Seq(ConfLine)
      BY ConfAssumption, EmptySeq, StrippedInOrder
    <3>3. /\ Len(mainCf) - Len(localConf) = Len(left) /\ Len(left) >= 0
          /\ \A i \in DOMAIN localConf : mainCf[Len(left) + i] = localConf[i]
      BY <2>1, <3>1, <3>2
    <3> QED
      BY <3>3 DEF EndsWith
  <2> QED
    BY <2>1, <2>2, LastSettingsCount
<1> QED
  BY <1>1, InductiveInvariant, PTL

\* A configuration whose settings have names and that begins with one.
WellFormed(conf) ==
    /\ BeginsAnew(conf)
    /\ \A line \in ToSet(conf) : line.kind = "set" => line.key # ""

\* Whatever the image and the machine set, the settings that the machine does
\* not replace keep their values, but for those next to a replaced one in the
\* file of the image (postfix-makeconf.sh:23-39).  It takes a main.cf.local that
\* does not begin in the middle of a setting: what does goes on with the last
\* setting of the image.
THEOREM OtherSettingsAlwaysSurvive ==
    ASSUME \A conf \in LocalConfs : WellFormed(conf)
    PROVE  Spec => []OtherSettingsSurvive
<1>1. IInv => OtherSettingsSurvive
  <2> DEFINE keys == Keys(localConf)
             stripped == Stripped(BaseConf, keys)
  <2> SUFFICES ASSUME IInv, postfix,
                      mainCf # localConf,
                      NEW key \in SetIn(BaseConf) \ ReplacedBy(localConf),
                      ~NextToReplaced(BaseConf, key, ReplacedBy(localConf))
               PROVE  Value(mainCf, key) = Value(BaseConf, key)
    BY DEF OtherSettingsSurvive
  <2>1. /\ localConf \in Seq(ConfLine) /\ BaseConf \in Seq(ConfLine)
        /\ WellFormed(localConf)
    BY ConfAssumption DEF IInv, TypeOK, MakeconfTypeOK
  <2>2. keys = ReplacedBy(localConf)
    <3>1. \A line \in ToSet(localConf) : line \in ConfLine
      BY <2>1 DEF ToSet
    <3>2. \A line \in ConfLine :
             line.kind # "note" <=> line.kind \in { "set", "more" }
      BY DEF ConfLine
    <3>3. { l \in ToSet(localConf) : l.kind # "note" }
          = { x \in ToSet(localConf) : x.kind \in { "set", "more" } }
      BY <3>1, <3>2
    <3> QED
      BY <3>3 DEF Keys, ReplacedBy
  <2>3. key \notin SetIn(localConf)
    <3> SUFFICES ASSUME key \in SetIn(localConf) PROVE FALSE
      OBVIOUS
    <3>1. PICK line \in ToSet(localConf) : line.kind = "set" /\ line.key = key
      BY DEF SetIn
    <3>2. key # ""
      BY <2>1, <3>1 DEF WellFormed
    <3> QED
      BY <3>1, <3>2 DEF ReplacedBy
  <2>4. mainCf = stripped \o localConf
    <3>1. mainCf = stripped \o localConf \/ mainCf = << >> \o localConf
      BY DEF IInv, ConfigurationIsMade
    <3>2. << >> \o localConf = localConf
      BY <2>1, ConcatEmptySeq
    <3> QED
      BY <3>1, <3>2
  <2>5. stripped \in Seq(ConfLine)
    BY <2>1, StrippedInOrder
  <2>6. Value(stripped, key) = Value(BaseConf, key)
    BY <2>1, <2>2, StrippingKeeps
  <2> HIDE DEF stripped
  <2>7. Value(stripped \o localConf, key) = Value(stripped, key)
    BY <2>1, <2>3, <2>5, AppendingKeeps DEF WellFormed
  <2> QED
    BY <2>4, <2>6, <2>7
<1> QED
  BY <1>1, InductiveInvariant, PTL

\* No message is counted twice, whatever the user does to the folder while it is
\* listed and read (spam.rs:91-109, 230-235).
THEOREM AlwaysCountedOnce == Spec => []CountedOnce
<1>1. IInv => CountedOnce
  BY DEF IInv, ReadOnce
<1> QED
  BY <1>1, InductiveInvariant, PTL

\* A message that nobody touches during the scan is counted, whatever happens to
\* the others (spam.rs:91-109, 230-235).
THEOREM StandingMailIsAlwaysCounted == Spec => []StandingMailIsCounted
<1>1. IInv => StandingMailIsCounted
  BY DEF IInv
<1> QED
  BY <1>1, InductiveInvariant, PTL

\* What is reported as misclassified was moved into Spam by the user, or has an
\* X-Spam that spam.sieve takes for "Yes" and the program does not: the two tests
\* are different ones (spam.sieve:3, spam.rs:45-53, 121-173).
THEOREM MisclassifiedWereAlwaysMovedOrMarked == Spec => []MisclassifiedWereMovedOrMarked
<1>1. IInv => MisclassifiedWereMovedOrMarked
  BY DEF IInv
<1> QED
  BY <1>1, InductiveInvariant, PTL

\* The last lesson about a message agrees with where it is, unless rspamc failed
\* (dovecot.conf:89-103).
THEOREM LessonsAlwaysMatchFolders == Spec => []LessonsMatchFolders
<1>1. IInv => LessonsMatchFolders
  BY DEF IInv
<1> QED
  BY <1>1, InductiveInvariant, PTL

\* Whatever the clock does between the charts, both weekly ones are about the
\* calendar weeks of the day they were drawn and of the 28 weeks before it: each
\* message of those weeks is counted once, under its Monday, and none is left out
\* by take_while, because the list was sorted (statistics.rs:73-83, 99-138).
THEOREM WeeklyChartsAreAlwaysCalendarWeeks == Spec => []WeeklyChartsAreCalendarWeeks
<1>1. IInv => WeeklyChartsAreCalendarWeeks
  BY DEF IInv, ChartsAreOfTheList, WeeklyChartsAreCalendarWeeks, Reported,
     AfterRate, AfterDaily, AfterWeekly
<1> QED
  BY <1>1, InductiveInvariant, PTL

\* The chart of the last days is about all messages of 15 dates, whatever the
\* shortcuts of last_n_days took (statistics.rs:85-97, main.rs:101-110).
THEOREM DailyChartIsAlwaysFifteenDates == Spec => []DailyChartIsFifteenDates
<1>1. IInv => DailyChartIsFifteenDates
  BY DEF IInv, ChartsAreOfTheList, DailyChartIsFifteenDates, Reported,
     AfterDaily, AfterWeekly
<1> QED
  BY <1>1, InductiveInvariant, PTL

\* Every message is in one bin of the scores, whose width is a point but for the
\* one around 0 (statistics.rs:31-43, 165-181).
THEOREM ScoresAreAlwaysBinned == Spec => []ScoreBins
<1>1. IInv => ScoreBins
  BY DEF IInv, ChartsAreOfTheList, ScoreBins, Reported, AfterSort, AfterRate,
     AfterDaily, AfterWeekly
<1> QED
  BY <1>1, InductiveInvariant, PTL

\* The program panics only on spam that is all older than 14 days, and sends a
\* report about spam only when some is of the last 29 weeks (line.rs:34,
\* hist.rs:34, main.rs:101-160).
THEOREM PanicsAlwaysWithoutRecentSpam == Spec => []PanicsWithoutRecentSpam
<1>1. IInv => PanicsWithoutRecentSpam
  BY DEF IInv, ChartsAreOfTheList
<1> QED
  BY <1>1, InductiveInvariant, PTL

=============================================================================
