---------------------------- MODULE LogFanOutProofs ----------------------------
(***************************************************************************)
(* Theorems about LogFanOut, for any number of servers, events and times.  *)
(***************************************************************************)
EXTENDS LogFanOut, FiniteSetTheorems, SequenceTheorems, WellFoundedInduction, TLAPS

-------------------------------------------------------------------------------
(* Induction, for a set instead of a predicate: a set of naturals with a    *)
(* least element outside would have the number before it.                   *)
LEMMA NaturalSetInduction ==
  ASSUME NEW S \in SUBSET Nat, 0 \in S, \A n \in S : n + 1 \in S
  PROVE  S = Nat
  <1> DEFINE less == {p \in Nat \X Nat : p[1] < p[2]}
             T == Nat \ S
  <1>1. IsWellFoundedOn(less, Nat)
    BY NatLessThanWellFounded DEF OpToRel
  <1>2. \A x, y \in Nat : x < y => <<x, y>> \in less
    OBVIOUS
  <1> HIDE DEF less
  <1>3. CASE T # {}
    <2>1. PICK x \in T : \A y \in T : ~ (<<y, x>> \in less)
      <3>1. T \subseteq Nat
        OBVIOUS
      <3> HIDE DEF T
      <3> QED
        BY <1>1, <1>3, <3>1, WFMin
    <2>2. x \in Nat /\ x # 0
      BY <2>1
    <2>3. x - 1 \in Nat /\ x - 1 < x
      BY <2>2
    <2>4. x - 1 \in S
      BY <1>2, <2>1, <2>2, <2>3
    <2>5. (x - 1) + 1 \in S
      BY <2>4
    <2> QED
      BY <2>1, <2>2, <2>5
  <1> QED
    BY <1>3

(* An injective function on 1..n is onto. *)
LEMMA InjectiveIsOnto ==
  ASSUME NEW n \in Nat, NEW f \in [1..n -> 1..n],
         \A i, j \in 1..n : f[i] = f[j] => i = j
  PROVE  \A y \in 1..n : \E i \in 1..n : f[i] = y
  <1>1. f \in Injection(1..n, 1..n)
    BY DEF Injection, IsInjective
  <1>2. IsFiniteSet(1..n)
    BY FS_Interval
  <1>3. f \in Surjection(1..n, 1..n)
    BY <1>1, <1>2, FS_Injection
  <1> QED
    BY <1>3 DEF Surjection

-------------------------------------------------------------------------------
(* Sorting: the order of time, and of position for equal times.             *)
Timed(events) == \A i \in DOMAIN events : events[i].time \in Nat
Before(events, i, j) ==
    \/ events[i].time < events[j].time
    \/ events[i].time = events[j].time /\ i < j
UpTo(events, j) ==
    {k \in DOMAIN events :
        \/ events[k].time < events[j].time
        \/ events[k].time = events[j].time /\ k <= j}

LEMMA RankIsPosition ==
  ASSUME NEW E, NEW events \in Seq(E), Timed(events)
  PROVE  /\ \A j \in DOMAIN events : Rank(events, j) \in 1..Len(events)
         /\ \A i, j \in DOMAIN events : Before(events, i, j) => Rank(events, i) < Rank(events, j)
  <1> DEFINE n == Len(events)
  <1>1. n \in Nat /\ DOMAIN events = 1..n
    OBVIOUS
  <1>2. \A i \in 1..n : events[i].time \in Nat
    BY <1>1 DEF Timed
  <1> HIDE DEF n
  <1>3. \A j \in 1..n : Rank(events, j) = Cardinality(UpTo(events, j))
    BY DEF Rank, UpTo
  <1>4. IsFiniteSet(1..n) /\ Cardinality(1..n) = n
    BY <1>1, FS_Interval
  <1>5. \A j \in 1..n : UpTo(events, j) \in SUBSET (1..n) /\ j \in UpTo(events, j)
    BY <1>1, <1>2 DEF UpTo
  <1>6. ASSUME NEW j \in 1..n
        PROVE  /\ IsFiniteSet(UpTo(events, j))
               /\ Cardinality(UpTo(events, j)) \in 1..n
    <2>1. IsFiniteSet(UpTo(events, j)) /\ Cardinality(UpTo(events, j)) <= n
      BY <1>4, <1>5, FS_Subset
    <2>2. Cardinality(UpTo(events, j)) \in Nat
      BY <2>1, FS_CardinalityType
    <2>3. Cardinality(UpTo(events, j)) # 0
      BY <1>5, <2>1, FS_EmptySet
    <2> QED
      BY <1>1, <2>1, <2>2, <2>3
  <1>7. ASSUME NEW i \in 1..n, NEW j \in 1..n, Before(events, i, j)
        PROVE  Rank(events, i) < Rank(events, j)
    <2>1. UpTo(events, i) \subseteq UpTo(events, j)
      BY <1>1, <1>2, <1>7 DEF UpTo, Before
    <2>2. j \notin UpTo(events, i)
      BY <1>1, <1>2, <1>7 DEF UpTo, Before
    <2>3. UpTo(events, i) # UpTo(events, j)
      BY <1>5, <2>2
    <2>4. /\ Cardinality(UpTo(events, i)) <= Cardinality(UpTo(events, j))
          /\ Cardinality(UpTo(events, i)) # Cardinality(UpTo(events, j))
      BY <1>6, <2>1, <2>3, FS_Subset
    <2>5. Cardinality(UpTo(events, i)) \in Nat /\ Cardinality(UpTo(events, j)) \in Nat
      BY <1>1, <1>6
    <2> QED
      BY <1>3, <2>4, <2>5
  <1> QED
    BY <1>1, <1>3, <1>6, <1>7 DEF n

(* The place in events of the i-th event of the page.                       *)
Place(events, i) == CHOOSE j \in DOMAIN events : Rank(events, j) = i

(* The page has the events, each once, by time and, at one time, by place.  *)
LEMMA SortedIsSorted ==
  ASSUME NEW E, NEW events \in Seq(E), Timed(events)
  PROVE  /\ Sorted(events) \in Seq(E) /\ Len(Sorted(events)) = Len(events)
         /\ \A i \in DOMAIN events : /\ Place(events, i) \in DOMAIN events
                                     /\ Sorted(events)[i] = events[Place(events, i)]
         /\ \A j \in DOMAIN events : \E i \in DOMAIN events : Place(events, i) = j
         /\ \A i, j \in DOMAIN events :
              i < j => Before(events, Place(events, i), Place(events, j))
  <1> DEFINE n == Len(events)
             rank == [j \in 1..n |-> Rank(events, j)]
  <1>1. n \in Nat /\ DOMAIN events = 1..n
    OBVIOUS
  <1>2. \A i \in 1..n : events[i].time \in Nat /\ events[i] \in E
    BY <1>1 DEF Timed
  <1> HIDE DEF n
  <1>3. /\ \A j \in 1..n : Rank(events, j) \in 1..n
        /\ \A i, j \in 1..n : Before(events, i, j) => Rank(events, i) < Rank(events, j)
    BY <1>1, RankIsPosition DEF n
  <1>4. \A i, j \in 1..n : i = j \/ Before(events, i, j) \/ Before(events, j, i)
    BY <1>1, <1>2 DEF Before
  <1>5. \A i, j \in 1..n : rank[i] = rank[j] => i = j
    BY <1>1, <1>3, <1>4
  <1>6. rank \in [1..n -> 1..n]
    BY <1>3
  <1>7. \A i \in 1..n : \E j \in 1..n : rank[j] = i
    BY <1>1, <1>5, <1>6, InjectiveIsOnto
  <1>8. \A i \in 1..n : \E j \in 1..n : Rank(events, j) = i
    BY <1>7
  <1>9. \A i \in 1..n : Place(events, i) \in 1..n /\ Rank(events, Place(events, i)) = i
    BY <1>1, <1>8 DEF Place
  <1>10. Sorted(events) = [i \in 1..n |-> events[Place(events, i)]]
    BY <1>1 DEF Sorted, Place
  <1>11. \A i \in 1..n : events[Place(events, i)] \in E
    BY <1>2, <1>9
  <1>12. Sorted(events) \in Seq(E) /\ Len(Sorted(events)) = n
    BY <1>1, <1>10, <1>11
  <1>13. \A j \in 1..n : Rank(events, j) \in 1..n /\ Place(events, Rank(events, j)) = j
    BY <1>3, <1>5, <1>9
  <1>14. ASSUME NEW i \in 1..n, NEW j \in 1..n, i < j
         PROVE  Before(events, Place(events, i), Place(events, j))
    <2>1. /\ Place(events, i) \in 1..n /\ Place(events, j) \in 1..n
          /\ Rank(events, Place(events, i)) = i /\ Rank(events, Place(events, j)) = j
      BY <1>9
    <2>2. ~Before(events, Place(events, j), Place(events, i)) /\ Place(events, i) # Place(events, j)
      BY <1>1, <1>3, <1>14, <2>1
    <2> QED
      BY <1>4, <2>1, <2>2
  <1>15. \A i \in 1..n : Sorted(events)[i] = events[Place(events, i)]
    BY <1>10
  <1> QED
    BY <1>1, <1>9, <1>12, <1>13, <1>14, <1>15 DEF n

-------------------------------------------------------------------------------
(* Concatenation, log by log.  The recursive function that FlattenSeq       *)
(* chooses exists: g for one log more extends g.                            *)
Extend(L, i, prefix) == IF i = 1 THEN L[i] ELSE prefix \o L[i]
Concats(L, n, g) == g = [i \in 1..n |-> IF i = 1 THEN L[i] ELSE g[i - 1] \o L[i]]

LEMMA ConcatsExist ==
  ASSUME NEW L
  PROVE  \A n \in Nat : \E g : Concats(L, n, g)
  <1> DEFINE S == {n \in Nat : \E g : Concats(L, n, g)}
  <1>1. 0 \in S
    <2> DEFINE g == [i \in 1..0 |-> L[i]]
    <2>1. Concats(L, 0, g)
      BY DEF Concats
    <2> QED
      BY <2>1
  <1>2. ASSUME NEW n \in S PROVE n + 1 \in S
    <2>0. n \in Nat
      OBVIOUS
    <2>1. PICK g : Concats(L, n, g)
      OBVIOUS
    <2> DEFINE h == [i \in 1..(n + 1) |-> Extend(L, i, g[i - 1])]
    <2>2. g = [i \in 1..n |-> Extend(L, i, g[i - 1])]
      BY <2>1 DEF Concats, Extend
    <2>3. \A i \in 1..n : h[i] = Extend(L, i, g[i - 1]) /\ g[i] = Extend(L, i, g[i - 1])
      BY <2>0, <2>2
    <2>4. ASSUME NEW i \in 1..(n + 1) PROVE Extend(L, i, g[i - 1]) = Extend(L, i, h[i - 1])
      <3>1. CASE i = 1
        BY <3>1 DEF Extend
      <3>2. CASE i # 1
        <4>1. i - 1 \in 1..n
          BY <2>0, <3>2
        <4>2. g[i - 1] = h[i - 1]
          BY <2>3, <4>1
        <4> QED
          BY <4>2
      <3> QED
        BY <3>1, <3>2
    <2>5. h = [i \in 1..(n + 1) |-> Extend(L, i, h[i - 1])]
      BY <2>4
    <2> HIDE DEF h
    <2>6. Concats(L, n + 1, h)
      BY <2>5 DEF Concats, Extend
    <2> QED
      BY <2>0, <2>6
  <1> HIDE DEF S
  <1>3. S = Nat
    BY <1>1, <1>2, NaturalSetInduction DEF S
  <1> QED
    BY <1>3 DEF S

LEMMA FlattenConcats ==
  ASSUME NEW E, NEW n \in Nat \ {0}, NEW L \in [1..n -> Seq(E)]
  PROVE  \E g : /\ g[1] = L[1] /\ FlattenSeq(L) = g[n]
               /\ \A i \in 1..(n - 1) : g[i + 1] = g[i] \o L[i + 1]
  <1> DEFINE g == CHOOSE g : Concats(L, n, g)
  <1>1. Concats(L, n, g)
    BY ConcatsExist
  <1>2. Len(L) = n
    OBVIOUS
  <1>3. FlattenSeq(L) = g[n]
    BY <1>2 DEF FlattenSeq, Concats
  <1> HIDE DEF g
  <1>4. \A i \in 1..n : g[i] = Extend(L, i, g[i - 1])
    <2>1. g = [i \in 1..n |-> Extend(L, i, g[i - 1])]
      BY <1>1 DEF Concats, Extend
    <2> QED
      BY <2>1
  <1>5. g[1] = L[1]
    BY <1>4 DEF Extend
  <1>6. ASSUME NEW i \in 1..(n - 1) PROVE g[i + 1] = g[i] \o L[i + 1]
    <2>1. i + 1 \in 1..n /\ i + 1 # 1 /\ (i + 1) - 1 = i
      OBVIOUS
    <2>2. g[i + 1] = Extend(L, i + 1, g[(i + 1) - 1])
      BY <1>4, <2>1
    <2> QED
      BY <2>1, <2>2 DEF Extend
  <1> QED
    BY <1>3, <1>5, <1>6

(* What n logs of length K or 0 come to: their events and no others, and    *)
(* the full length only if no log is empty.                                 *)
FirstLogs(L, K, n, f) ==
    /\ \A x : (\E k \in 1..Len(f) : f[k] = x)
             <=> (\E i \in 1..n : \E a \in 1..Len(L[i]) : L[i][a] = x)
    /\ \E c \in 0..n : Len(f) = c * K /\ (c = n => \A i \in 1..n : Len(L[i]) = K)

LEMMA OneLogMore ==
  ASSUME NEW E, NEW L, NEW K \in Nat, NEW n \in Nat, NEW f \in Seq(E), FirstLogs(L, K, n, f),
         L[n + 1] \in Seq(E), Len(L[n + 1]) \in {0, K}
  PROVE  f \o L[n + 1] \in Seq(E) /\ FirstLogs(L, K, n + 1, f \o L[n + 1])
  <1> DEFINE t == L[n + 1]
             h == f \o t
  <1>1. /\ h \in Seq(E) /\ Len(h) = Len(f) + Len(t)
        /\ \A k \in 1..(Len(f) + Len(t)) : h[k] = IF k <= Len(f) THEN f[k] ELSE t[k - Len(f)]
    BY ConcatProperties
  <1>2. Len(f) \in Nat /\ Len(t) \in Nat /\ Len(t) \in {0, K}
    BY LenProperties
  <1>3. \A i \in 1..(n + 1) : i \in 1..n \/ i = n + 1
    OBVIOUS
  <1> HIDE DEF h
  <1>4. ASSUME NEW x
        PROVE  (\E k \in 1..Len(h) : h[k] = x)
                 <=> (\E k \in 1..Len(f) : f[k] = x) \/ (\E a \in 1..Len(t) : t[a] = x)
    <2> HIDE DEF t
    <2>1. ASSUME NEW k \in 1..Len(h), h[k] = x
          PROVE  (\E l \in 1..Len(f) : f[l] = x) \/ (\E a \in 1..Len(t) : t[a] = x)
      <3>1. CASE k <= Len(f)
        <4>1. k \in 1..Len(f) /\ f[k] = x
          BY <1>1, <1>2, <2>1, <3>1
        <4> QED
          BY <4>1
      <3>2. CASE ~(k <= Len(f))
        <4>1. k - Len(f) \in 1..Len(t) /\ t[k - Len(f)] = x
          BY <1>1, <1>2, <2>1, <3>2
        <4> QED
          BY <4>1
      <3> QED
        BY <3>1, <3>2
    <2>2. ASSUME NEW k \in 1..Len(f), f[k] = x PROVE \E l \in 1..Len(h) : h[l] = x
      <3>1. k \in 1..Len(h) /\ h[k] = x
        BY <1>1, <1>2, <2>2
      <3> QED
        BY <3>1
    <2>3. ASSUME NEW a \in 1..Len(t), t[a] = x PROVE \E l \in 1..Len(h) : h[l] = x
      <3>1. Len(f) + a \in 1..Len(h) /\ ~(Len(f) + a <= Len(f)) /\ (Len(f) + a) - Len(f) = a
        BY <1>1, <1>2
      <3>2. h[Len(f) + a] = x
        BY <1>1, <2>3, <3>1
      <3> QED
        BY <3>1, <3>2
    <2> QED
      BY <2>1, <2>2, <2>3
  <1>5. \A x : (\E k \in 1..Len(h) : h[k] = x)
               <=> (\E i \in 1..(n + 1) : \E a \in 1..Len(L[i]) : L[i][a] = x)
    <2>1. ASSUME NEW x
          PROVE  (\E i \in 1..(n + 1) : \E a \in 1..Len(L[i]) : L[i][a] = x)
                   <=> \/ \E i \in 1..n : \E a \in 1..Len(L[i]) : L[i][a] = x
                       \/ \E a \in 1..Len(t) : t[a] = x
      BY <1>3
    <2> HIDE DEF t
    <2> QED
      BY <1>4, <2>1 DEF FirstLogs
  <1>6. PICK c \in 0..n : Len(f) = c * K /\ (c = n => \A i \in 1..n : Len(L[i]) = K)
    BY DEF FirstLogs
  <1>7. \E d \in 0..(n + 1) : Len(h) = d * K /\ (d = n + 1 => \A i \in 1..(n + 1) : Len(L[i]) = K)
    <2>1. CASE Len(t) = K
      <3>1. c + 1 \in 0..(n + 1) /\ Len(h) = (c + 1) * K
        BY <1>1, <1>6, <2>1
      <3>2. c + 1 = n + 1 => \A i \in 1..(n + 1) : Len(L[i]) = K
        BY <1>3, <1>6, <2>1
      <3> QED
        BY <3>1, <3>2
    <2>2. CASE Len(t) = 0
      <3>1. c \in 0..(n + 1) /\ c # n + 1 /\ Len(h) = c * K
        BY <1>1, <1>2, <1>6, <2>2
      <3> QED
        BY <3>1
    <2> QED
      BY <1>2, <2>1, <2>2
  <1> QED
    BY <1>1, <1>5, <1>7 DEF FirstLogs, h

LEMMA FlattenedLogs ==
  ASSUME NEW E, NEW K \in Nat, NEW n \in Nat \ {0}, NEW L \in [1..n -> Seq(E)],
         \A i \in 1..n : Len(L[i]) \in {0, K}
  PROVE  FlattenSeq(L) \in Seq(E) /\ FirstLogs(L, K, n, FlattenSeq(L))
  <1>1. PICK g : /\ g[1] = L[1] /\ FlattenSeq(L) = g[n]
                 /\ \A i \in 1..(n - 1) : g[i + 1] = g[i] \o L[i + 1]
    BY FlattenConcats
  <1> DEFINE S == {m \in Nat : m + 1 <= n => g[m + 1] \in Seq(E) /\ FirstLogs(L, K, m + 1, g[m + 1])}
  <1>2. 0 \in S
    <2>1. L[1] \in Seq(E) /\ Len(L[1]) \in {0, K}
      OBVIOUS
    <2>2. ASSUME NEW x
          PROVE  (\E k \in 1..Len(L[1]) : L[1][k] = x)
                   <=> (\E i \in 1..1 : \E a \in 1..Len(L[i]) : L[i][a] = x)
      OBVIOUS
    <2>3. \E c \in 0..1 : Len(L[1]) = c * K /\ (c = 1 => \A i \in 1..1 : Len(L[i]) = K)
      <3>1. CASE Len(L[1]) = K
        <4>1. Len(L[1]) = 1 * K /\ \A i \in 1..1 : Len(L[i]) = K
          BY <3>1
        <4> QED
          BY <4>1
      <3>2. CASE Len(L[1]) = 0
        <4>1. Len(L[1]) = 0 * K
          BY <3>2
        <4> QED
          BY <4>1
      <3> QED
        BY <2>1, <3>1, <3>2
    <2>4. FirstLogs(L, K, 1, L[1])
      BY <2>2, <2>3 DEF FirstLogs
    <2> QED
      BY <1>1, <2>1, <2>4
  <1>3. ASSUME NEW m \in S PROVE m + 1 \in S
    <2>0. m \in Nat /\ m + 1 \in Nat
      OBVIOUS
    <2> SUFFICES ASSUME (m + 1) + 1 <= n
                 PROVE  /\ g[(m + 1) + 1] \in Seq(E)
                        /\ FirstLogs(L, K, (m + 1) + 1, g[(m + 1) + 1])
      BY <2>0
    <2>1. g[m + 1] \in Seq(E) /\ FirstLogs(L, K, m + 1, g[m + 1])
      BY <2>0
    <2>2. m + 1 \in 1..(n - 1) /\ (m + 1) + 1 \in 1..n
      BY <2>0
    <2>3. L[(m + 1) + 1] \in Seq(E) /\ Len(L[(m + 1) + 1]) \in {0, K}
      BY <2>2
    <2>4. g[(m + 1) + 1] = g[m + 1] \o L[(m + 1) + 1]
      BY <1>1, <2>2
    <2> DEFINE p == m + 1
               f == g[m + 1]
    <2>5. p \in Nat /\ f \in Seq(E) /\ FirstLogs(L, K, p, f)
      BY <2>0, <2>1
    <2>6. L[p + 1] \in Seq(E) /\ Len(L[p + 1]) \in {0, K}
      BY <2>3
    <2>7. g[(m + 1) + 1] = f \o L[p + 1] /\ (m + 1) + 1 = p + 1
      BY <2>4
    <2> HIDE DEF p, f
    <2>8. f \o L[p + 1] \in Seq(E) /\ FirstLogs(L, K, p + 1, f \o L[p + 1])
      BY <2>5, <2>6, OneLogMore
    <2> QED
      BY <2>7, <2>8
  <1> HIDE DEF S
  <1>4. n - 1 \in S
    <2>1. S \in SUBSET Nat
      BY DEF S
    <2>2. \A k \in S : k + 1 \in S
      BY <1>3
    <2>3. S = Nat
      BY <1>2, <2>1, <2>2, NaturalSetInduction
    <2> QED
      BY <2>3
  <1>5. (n - 1) + 1 = n
    OBVIOUS
  <1> QED
    BY <1>1, <1>4, <1>5 DEF S

(* Logs taken in the order of their servers keep that order, and each its   *)
(* own.                                                                     *)
Follows(e, d) ==
    \/ e.server < d.server
    \/ e.server = d.server /\ e.number < d.number
OfServer(t, i) == \A a \in 1..Len(t) : t[a].server = i /\ t[a].number = a
LogsOfServers(L, n) == \A i \in 1..n : OfServer(L[i], i)
InOrder(n, f) ==
    /\ \A k \in 1..Len(f) : f[k].server \in 1..n
    /\ \A k, l \in 1..Len(f) : k < l => Follows(f[k], f[l])

LEMMA OneServerMore ==
  ASSUME NEW E, NEW n \in Nat, NEW f \in Seq(E), InOrder(n, f), NEW t \in Seq(E), OfServer(t, n + 1)
  PROVE  InOrder(n + 1, f \o t)
  <1> DEFINE h == f \o t
  <1>1. /\ Len(h) = Len(f) + Len(t)
        /\ \A k \in 1..(Len(f) + Len(t)) : h[k] = IF k <= Len(f) THEN f[k] ELSE t[k - Len(f)]
    BY ConcatProperties
  <1>2. Len(f) \in Nat /\ Len(t) \in Nat
    BY LenProperties
  <1> HIDE DEF h
  <1>3. ASSUME NEW k \in 1..Len(h), k <= Len(f)
        PROVE  k \in 1..Len(f) /\ h[k] = f[k] /\ h[k].server \in 1..n
    <2>1. k \in 1..Len(f) /\ h[k] = f[k]
      BY <1>1, <1>2, <1>3
    <2> QED
      BY <2>1 DEF InOrder
  <1>4. ASSUME NEW k \in 1..Len(h), ~(k <= Len(f))
        PROVE  h[k].server = n + 1 /\ h[k].number = k - Len(f)
    <2>1. k - Len(f) \in 1..Len(t) /\ h[k] = t[k - Len(f)]
      BY <1>1, <1>2, <1>4
    <2> QED
      BY <2>1 DEF OfServer
  <1>5. ASSUME NEW k \in 1..Len(h) PROVE h[k].server \in 1..(n + 1)
    BY <1>3, <1>4
  <1>6. ASSUME NEW k \in 1..Len(h), NEW l \in 1..Len(h), k < l
        PROVE  Follows(h[k], h[l])
    <2>1. CASE l <= Len(f)
      <3>1. k <= Len(f)
        BY <1>1, <1>2, <1>6, <2>1
      <3>2. /\ k \in 1..Len(f) /\ h[k] = f[k]
            /\ l \in 1..Len(f) /\ h[l] = f[l]
        BY <1>3, <2>1, <3>1
      <3> QED
        BY <1>6, <3>2 DEF InOrder
    <2>2. CASE k <= Len(f) /\ ~(l <= Len(f))
      <3>1. h[k].server \in 1..n /\ h[l].server = n + 1
        BY <1>3, <1>4, <2>2
      <3>2. h[k].server < h[l].server
        BY <3>1
      <3> QED
        BY <3>2 DEF Follows
    <2>3. CASE ~(k <= Len(f)) /\ ~(l <= Len(f))
      <3>1. /\ h[k].server = n + 1 /\ h[l].server = n + 1
            /\ h[k].number = k - Len(f) /\ h[l].number = l - Len(f)
        BY <1>4, <2>3
      <3>2. k - Len(f) < l - Len(f)
        BY <1>1, <1>2, <1>6
      <3> QED
        BY <3>1, <3>2 DEF Follows
    <2>4. (k <= Len(f)) \/ ~(l <= Len(f)) \/ l <= Len(f)
      OBVIOUS
    <2> QED
      BY <2>1, <2>2, <2>3
  <1> QED
    BY <1>5, <1>6 DEF InOrder, h

LEMMA FlattenedInOrder ==
  ASSUME NEW E, NEW n \in Nat \ {0}, NEW L \in [1..n -> Seq(E)], LogsOfServers(L, n)
  PROVE  InOrder(n, FlattenSeq(L))
  <1>1. PICK g : /\ g[1] = L[1] /\ FlattenSeq(L) = g[n]
                 /\ \A i \in 1..(n - 1) : g[i + 1] = g[i] \o L[i + 1]
    BY FlattenConcats
  <1> DEFINE S == {m \in Nat : m + 1 <= n => g[m + 1] \in Seq(E) /\ InOrder(m + 1, g[m + 1])}
  <1>2. 0 \in S
    <2> DEFINE t == L[1]
    <2>1. t \in Seq(E) /\ OfServer(t, 1) /\ Len(t) \in Nat
      BY LenProperties DEF LogsOfServers
    <2> HIDE DEF t
    <2>2. \A k \in 1..Len(t) : t[k].server = 1 /\ t[k].number = k
      BY <2>1 DEF OfServer
    <2>3. InOrder(1, t)
      BY <2>1, <2>2 DEF InOrder, Follows
    <2> QED
      BY <1>1, <2>1, <2>3 DEF t
  <1>3. ASSUME NEW m \in S PROVE m + 1 \in S
    <2>0. m \in Nat /\ m + 1 \in Nat
      OBVIOUS
    <2> SUFFICES ASSUME (m + 1) + 1 <= n
                 PROVE  g[(m + 1) + 1] \in Seq(E) /\ InOrder((m + 1) + 1, g[(m + 1) + 1])
      BY <2>0
    <2>1. m + 1 \in 1..(n - 1) /\ (m + 1) + 1 \in 1..n
      BY <2>0
    <2> DEFINE p == m + 1
               f == g[m + 1]
               t == L[(m + 1) + 1]
    <2>2. p \in Nat /\ f \in Seq(E) /\ InOrder(p, f)
      BY <2>0
    <2>3. t \in Seq(E) /\ OfServer(t, p + 1)
      BY <2>1 DEF LogsOfServers
    <2>4. g[(m + 1) + 1] = f \o t /\ (m + 1) + 1 = p + 1
      BY <1>1, <2>1
    <2> HIDE DEF p, f, t
    <2>5. InOrder(p + 1, f \o t)
      BY <2>2, <2>3, OneServerMore
    <2>6. f \o t \in Seq(E)
      BY <2>2, <2>3, ConcatProperties
    <2> QED
      BY <2>4, <2>5, <2>6
  <1> HIDE DEF S
  <1>4. n - 1 \in S
    <2>1. S \in SUBSET Nat
      BY DEF S
    <2>2. \A k \in S : k + 1 \in S
      BY <1>3
    <2>3. S = Nat
      BY <1>2, <2>1, <2>2, NaturalSetInduction
    <2> QED
      BY <2>3
  <1>5. (n - 1) + 1 = n
    OBVIOUS
  <1> QED
    BY <1>1, <1>4, <1>5 DEF S

-------------------------------------------------------------------------------
(* The fetches.  A fetch has its log when it has succeeded; the order of    *)
(* arrival has each server whose fetch has ended once.                      *)
FetchInv ==
    /\ variant \in Variants
    /\ app \in {"authorizing", "fetching", "rendered", "failed"}
    /\ result \in [Servers -> {"none", "asked", "fetched", "failed"}]
    /\ log = [s \in Servers |-> log[s]]
    /\ \A s \in Servers : log[s] \in IF result[s] = "fetched" THEN Logs(s) ELSE {<<>>}
    /\ arrived \in Seq(Servers) /\ IsInjective(arrived)
    /\ \A i \in DOMAIN arrived : result[arrived[i]] \in {"fetched", "failed"}
    /\ app = "authorizing" => arrived = <<>> /\ \A s \in Servers : log[s] = <<>>
    /\ client \in {"waiting", "accepted", "wrong", "error"}

LEMMA FetchInit == Init => FetchInv
  <1> SUFFICES ASSUME Init PROVE FetchInv
    OBVIOUS
  <1>1. arrived = <<>> /\ arrived \in Seq(Servers) /\ DOMAIN arrived = {}
    BY DEF Init
  <1>2. IsInjective(arrived)
    BY <1>1 DEF IsInjective
  <1>3. /\ log = [s \in Servers |-> log[s]]
        /\ \A s \in Servers : log[s] = <<>> /\ result[s] = "none"
    BY DEF Init
  <1>4. \A s \in Servers : log[s] \in IF result[s] = "fetched" THEN Logs(s) ELSE {<<>>}
    BY <1>3
  <1> QED
    BY <1>1, <1>2, <1>3, <1>4 DEF Init, FetchInv

(* The end of one fetch, either way. *)
LEMMA FetchEnds ==
  ASSUME FetchInv, NEW s \in Servers, Asked(s), NEW verdict \in {"fetched", "failed"},
         result' = [result EXCEPT ![s] = verdict], arrived' = Append(arrived, s)
  PROVE  /\ result' \in [Servers -> {"none", "asked", "fetched", "failed"}]
         /\ arrived' \in Seq(Servers) /\ IsInjective(arrived')
         /\ \A i \in DOMAIN arrived' : result'[arrived'[i]] \in {"fetched", "failed"}
  <1>1. /\ result \in [Servers -> {"none", "asked", "fetched", "failed"}]
        /\ arrived \in Seq(Servers)
        /\ \A i, j \in DOMAIN arrived : arrived[i] = arrived[j] => i = j
        /\ \A i \in DOMAIN arrived : result[arrived[i]] \in {"fetched", "failed"}
    BY DEF FetchInv, IsInjective
  <1> DEFINE n == Len(arrived)
  <1>2. n \in Nat /\ DOMAIN arrived = 1..n
    BY <1>1
  <1>3. /\ arrived' \in Seq(Servers) /\ DOMAIN arrived' = 1..(n + 1)
        /\ \A i \in 1..n : arrived'[i] = arrived[i] /\ arrived[i] \in Servers
        /\ arrived'[n + 1] = s
    BY <1>1, <1>2, AppendProperties, ElementOfSeq
  <1> HIDE DEF n
  <1>4. \A i \in 1..n : arrived[i] # s
    BY <1>1, <1>2 DEF Asked
  <1>5. \A i \in 1..(n + 1) : i \in 1..n \/ i = n + 1
    BY <1>2
  <1>6. \A i, j \in 1..(n + 1) : arrived'[i] = arrived'[j] => i = j
    BY <1>1, <1>2, <1>3, <1>4, <1>5
  <1>7. result'[s] = verdict /\ \A t \in Servers : t # s => result'[t] = result[t]
    BY <1>1
  <1>8. \A i \in 1..(n + 1) : result'[arrived'[i]] \in {"fetched", "failed"}
    BY <1>1, <1>2, <1>3, <1>4, <1>5, <1>7
  <1>9. result' \in [Servers -> {"none", "asked", "fetched", "failed"}]
    BY <1>1
  <1> QED
    BY <1>3, <1>6, <1>8, <1>9 DEF IsInjective

LEMMA FetchStep == FetchInv /\ [Next]_vars => FetchInv'
  <1> SUFFICES ASSUME FetchInv, [Next]_vars PROVE FetchInv'
    OBVIOUS
  <1>s. Servers' = Servers /\ \A s : Logs(s)' = Logs(s)
    BY DEF Servers, Logs, Events
  <1>1. CASE /\ UNCHANGED <<variant, result, log, arrived>>
             /\ app' \in {"authorizing", "fetching", "rendered", "failed"}
             /\ app' = "authorizing" => app = "authorizing"
             /\ client' \in {"waiting", "accepted", "wrong", "error"}
    BY <1>1, <1>s DEF FetchInv
  <1>t. /\ variant \in Variants /\ client \in {"waiting", "accepted", "wrong", "error"}
        /\ app \in {"authorizing", "fetching", "rendered", "failed"}
        /\ log = [s \in Servers |-> log[s]]
        /\ \A s \in Servers : log[s] \in IF result[s] = "fetched" THEN Logs(s) ELSE {<<>>}
        /\ result \in [Servers -> {"none", "asked", "fetched", "failed"}]
    BY DEF FetchInv
  <1>2. CASE UNCHANGED vars \/ Over
    BY <1>1, <1>2, <1>t DEF vars, Over
  <1>3. CASE Authorize
    <2>1. CASE UNCHANGED result
      BY <1>1, <1>3, <1>t, <2>1 DEF Authorize
    <2>2. CASE app' = "fetching" /\ result' = [s \in Servers |-> "asked"]
      <3>1. arrived = <<>> /\ \A s \in Servers : log[s] = <<>>
        BY <1>3 DEF Authorize, FetchInv
      <3>2. UNCHANGED <<variant, log, arrived, client>>
        BY <1>3 DEF Authorize
      <3>3. /\ \A s \in Servers : result'[s] = "asked"
            /\ result' \in [Servers -> {"none", "asked", "fetched", "failed"}]
        BY <2>2
      <3>4. \A s \in Servers : log'[s] \in IF result'[s] = "fetched" THEN Logs(s) ELSE {<<>>}
        BY <3>1, <3>2, <3>3
      <3>5. DOMAIN arrived' = {}
        BY <3>1, <3>2
      <3> QED
        BY <1>s, <1>t, <2>2, <3>2, <3>3, <3>4, <3>5 DEF FetchInv
    <2> QED
      BY <1>3, <2>1, <2>2 DEF Authorize
  <1>4. ASSUME NEW s \in Servers, Fetched(s) PROVE FetchInv'
    <2>1. PICK events \in Logs(s) : log' = [log EXCEPT ![s] = events]
      BY <1>4 DEF Fetched
    <2>2. /\ Asked(s) /\ app = "fetching" /\ UNCHANGED <<variant, app, client>>
          /\ result' = [result EXCEPT ![s] = "fetched"] /\ arrived' = Append(arrived, s)
      BY <1>4 DEF Fetched
    <2>3. /\ result' \in [Servers -> {"none", "asked", "fetched", "failed"}]
          /\ arrived' \in Seq(Servers) /\ IsInjective(arrived')
          /\ \A i \in DOMAIN arrived' : result'[arrived'[i]] \in {"fetched", "failed"}
      BY <2>2, FetchEnds
    <2>4. log' = [t \in Servers |-> log'[t]] /\ log'[s] = events /\ result'[s] = "fetched"
      BY <1>t, <2>1, <2>2
    <2>5. \A t \in Servers : t # s => log'[t] = log[t] /\ result'[t] = result[t]
      BY <1>t, <2>1, <2>2
    <2>6. \A t \in Servers : log'[t] \in IF result'[t] = "fetched" THEN Logs(t) ELSE {<<>>}
      BY <1>t, <2>4, <2>5
    <2> QED
      BY <1>s, <1>t, <2>2, <2>3, <2>4, <2>6 DEF FetchInv
  <1>5. ASSUME NEW s \in Servers, FetchFails(s) PROVE FetchInv'
    <2>1. CASE app' = "failed" /\ UNCHANGED <<result, arrived>>
      BY <1>1, <1>5, <1>t, <2>1 DEF FetchFails
    <2>2. CASE result' = [result EXCEPT ![s] = "failed"] /\ arrived' = Append(arrived, s) /\ UNCHANGED app
      <3>1. Asked(s) /\ app = "fetching" /\ UNCHANGED <<variant, client, log>>
        BY <1>5 DEF FetchFails
      <3>2. /\ result' \in [Servers -> {"none", "asked", "fetched", "failed"}]
            /\ arrived' \in Seq(Servers) /\ IsInjective(arrived')
            /\ \A i \in DOMAIN arrived' : result'[arrived'[i]] \in {"fetched", "failed"}
        BY <2>2, <3>1, FetchEnds
      <3>3. result[s] = "asked" /\ result'[s] = "failed" /\ \A t \in Servers : t # s => result'[t] = result[t]
        BY <1>t, <2>2, <3>1 DEF Asked
      <3>4. \A t \in Servers : log'[t] \in IF result'[t] = "fetched" THEN Logs(t) ELSE {<<>>}
        BY <1>t, <3>1, <3>3
      <3> QED
        BY <1>s, <1>t, <2>2, <3>1, <3>2, <3>4 DEF FetchInv
    <2> QED
      BY <1>5, <2>1, <2>2 DEF FetchFails
  <1>6. CASE Render \/ CheckPage \/ GetError \/ \E s \in Servers : InvalidLog(s)
    BY <1>1, <1>6, <1>t DEF Render, CheckPage, GetError, InvalidLog
  <1> QED
    BY <1>2, <1>3, <1>4, <1>5, <1>6 DEF Next

-------------------------------------------------------------------------------
(* The page: rendered from the logs as they still are, once all fetches had *)
(* ended.                                                                   *)
RenderedPage == \E order \in Orders : page = Sorted(Collected(order))
PageInv ==
    /\ app = "rendered" => Joined /\ RenderedPage
    /\ app # "rendered" => page = <<>>
    /\ client = "accepted" => app = "rendered" /\ LinesOk(Lines(variant, Len(page)))

LEMMA PageStep == FetchInv /\ PageInv /\ [Next]_vars => PageInv'
  <1> SUFFICES ASSUME FetchInv, PageInv, [Next]_vars PROVE PageInv'
    OBVIOUS
  <1>1. CASE UNCHANGED <<variant, app, result, log, page, client>>
    BY <1>1 DEF PageInv, RenderedPage, Orders, Collected, Joined, AsAsked
  <1>2. CASE UNCHANGED vars \/ Over
    BY <1>1, <1>2 DEF vars, Over
  <1>3. CASE /\ app # "rendered" /\ app' # "rendered"
             /\ UNCHANGED <<page, client>>
    BY <1>3 DEF PageInv
  <1>4. CASE Authorize \/ \E s \in Servers : Fetched(s) \/ FetchFails(s) \/ InvalidLog(s)
    BY <1>3, <1>4 DEF Authorize, Fetched, FetchFails, InvalidLog
  <1>5. CASE Render
    <2>1. /\ app = "fetching" /\ app' = "rendered" /\ Joined
          /\ UNCHANGED <<variant, result, log, arrived, client>>
      BY <1>5 DEF Render
    <2>2. Joined'
      BY <2>1 DEF Joined
    <2>3. RenderedPage'
      BY <1>5 DEF Render, RenderedPage, Orders, Collected, AsAsked
    <2> QED
      BY <2>1, <2>2, <2>3 DEF PageInv
  <1>6. CASE CheckPage \/ GetError
    <2>1. UNCHANGED <<variant, app, result, log, page>>
      BY <1>6 DEF CheckPage, GetError
    <2>2. (app' = "rendered" => Joined' /\ RenderedPage') /\ (app' # "rendered" => page' = <<>>)
      BY <2>1 DEF PageInv, RenderedPage, Orders, Collected, Joined, AsAsked
    <2>3. client' = "accepted" => app = "rendered" /\ LinesOk(Lines(variant, Len(page)))
      BY <1>6 DEF CheckPage, GetError
    <2> QED
      BY <2>1, <2>2, <2>3 DEF PageInv
  <1> QED
    BY <1>2, <1>4, <1>5, <1>6 DEF Next

LEMMA PageInit == Init => PageInv
  BY DEF Init, PageInv

(* What the page is made of.                                                *)
LEMMA LogsAreSequences ==
  ASSUME NEW s \in Servers, NEW events \in Logs(s)
  PROVE  events \in Seq(Events) /\ Len(events) = EventCount /\ OfServer(events, s)
  <1>1. events \in [1..EventCount -> Events] /\ EventCount \in Nat
    BY LogFanOutAssumption DEF Logs
  <1>2. events \in Seq(Events) /\ Len(events) = EventCount
    BY <1>1
  <1>3. \A i \in 1..EventCount : events[i].server = s /\ events[i].number = i
    BY DEF Logs
  <1> QED
    BY <1>2, <1>3 DEF OfServer

LEMMA OrdersAreOnto ==
  ASSUME NEW order \in Orders
  PROVE  order \in [Servers -> Servers] /\ \A s \in Servers : \E i \in Servers : order[i] = s
  <1>1. CASE variant = "python"
    <2>1. order \in [Servers -> Servers] /\ \A s, t \in Servers : order[s] = order[t] => s = t
      BY <1>1 DEF Orders
    <2> QED
      BY <2>1, LogFanOutAssumption, InjectiveIsOnto DEF Servers
  <1>2. CASE variant # "python"
    BY <1>2 DEF Orders, AsAsked
  <1> QED
    BY <1>1, <1>2

(* The merged logs before sorting. *)
LEMMA CollectedLogs ==
  ASSUME FetchInv, NEW order \in Orders
  PROVE  /\ Collected(order) \in Seq(Events) /\ Timed(Collected(order))
         /\ ToSet(Collected(order)) = UNION {ToSet(log[s]) : s \in Servers}
         /\ \E c \in 0..LogServerCount :
              /\ Len(Collected(order)) = c * EventCount
              /\ c = LogServerCount => \A s \in Servers : result[s] = "fetched"
         /\ variant # "python" => InOrder(LogServerCount, Collected(order))
  <1> DEFINE n == LogServerCount
             K == EventCount
             L == [i \in Servers |-> log[order[i]]]
             F == Collected(order)
  <1>1. n \in Nat \ {0} /\ K \in Nat \ {0} /\ Servers = 1..n
    BY LogFanOutAssumption DEF Servers
  <1>2. order \in [Servers -> Servers] /\ \A s \in Servers : \E i \in Servers : order[i] = s
    BY OrdersAreOnto
  <1>3. ASSUME NEW s \in Servers
        PROVE  /\ log[s] \in Seq(Events) /\ Len(log[s]) \in {0, K} /\ OfServer(log[s], s)
               /\ Len(log[s]) = K => result[s] = "fetched"
    <2>1. CASE result[s] = "fetched"
      <3>1. log[s] \in Logs(s)
        BY <2>1 DEF FetchInv
      <3> QED
        BY <2>1, <3>1, LogsAreSequences
    <2>2. CASE result[s] # "fetched"
      <3>1. log[s] = <<>>
        BY <2>2 DEF FetchInv
      <3> QED
        BY <1>1, <3>1 DEF OfServer
    <2> QED
      BY <2>1, <2>2
  <1>4. F = FlattenSeq(L)
    BY DEF Collected
  <1>5. L \in [1..n -> Seq(Events)] /\ \A i \in 1..n : Len(L[i]) \in {0, K}
    BY <1>1, <1>2, <1>3
  <1>6. \A i \in 1..n : L[i] = log[order[i]]
    BY <1>1
  <1>7. variant # "python" => LogsOfServers(L, n)
    <2> SUFFICES ASSUME variant # "python", NEW i \in 1..n PROVE OfServer(L[i], i)
      BY DEF LogsOfServers
    <2>1. order[i] = i
      BY <1>1 DEF Orders, AsAsked
    <2> QED
      BY <1>1, <1>3, <1>6, <2>1
  <1> HIDE DEF n, K, L, F
  <1>8. F \in Seq(Events) /\ FirstLogs(L, K, n, F)
    BY <1>1, <1>4, <1>5, FlattenedLogs
  <1>9. Timed(F)
    <2>1. \A k \in DOMAIN F : F[k] \in Events
      BY <1>8
    <2> QED
      BY <2>1, LogFanOutAssumption DEF Timed, Events
  <1>10. ToSet(F) = UNION {ToSet(log[s]) : s \in Servers}
    <2>1. ASSUME NEW x
          PROVE  x \in ToSet(F) <=> \E i \in 1..n : \E a \in 1..Len(L[i]) : L[i][a] = x
      <3>1. DOMAIN F = 1..Len(F)
        BY <1>8
      <3> QED
        BY <1>8, <3>1 DEF ToSet, FirstLogs
    <2>2. ASSUME NEW x
          PROVE  (\E i \in 1..n : \E a \in 1..Len(L[i]) : L[i][a] = x)
                   <=> (\E i \in 1..n : x \in ToSet(log[order[i]]))
      <3>1. \A i \in 1..n : DOMAIN log[order[i]] = 1..Len(L[i]) /\ L[i] = log[order[i]]
        BY <1>1, <1>5, <1>6
      <3> QED
        BY <3>1 DEF ToSet
    <2>3. ASSUME NEW x
          PROVE  (\E i \in 1..n : x \in ToSet(log[order[i]])) <=> (\E s \in Servers : x \in ToSet(log[s]))
      BY <1>1, <1>2
    <2>4. ASSUME NEW x
          PROVE  x \in UNION {ToSet(log[s]) : s \in Servers} <=> \E s \in Servers : x \in ToSet(log[s])
      OBVIOUS
    <2>5. ASSUME NEW x PROVE x \in ToSet(F) <=> x \in UNION {ToSet(log[s]) : s \in Servers}
      BY <2>1, <2>2, <2>3, <2>4, Zenon
    <2> QED
      BY <2>5
  <1>11. PICK c \in 0..n : Len(F) = c * K /\ (c = n => \A i \in 1..n : Len(L[i]) = K)
    BY <1>8 DEF FirstLogs
  <1>12. c = n => \A s \in Servers : result[s] = "fetched"
    <2> SUFFICES ASSUME c = n, NEW s \in Servers PROVE result[s] = "fetched"
      OBVIOUS
    <2>1. PICK i \in Servers : order[i] = s
      BY <1>2
    <2>2. Len(log[s]) = K
      BY <1>1, <1>6, <1>11, <2>1
    <2> QED
      BY <1>3, <2>2
  <1>13. variant # "python" => InOrder(n, F)
    BY <1>1, <1>4, <1>5, <1>7, FlattenedInOrder
  <1> QED
    BY <1>8, <1>9, <1>10, <1>11, <1>12, <1>13 DEF n, K, F

(* The page has the collected events, sorted.                               *)
LEMMA PageIsSorted ==
  ASSUME FetchInv, RenderedPage
  PROVE  /\ page \in Seq(Events)
         /\ ToSet(page) = UNION {ToSet(log[s]) : s \in Servers}
         /\ \E c \in 0..LogServerCount :
              /\ Len(page) = c * EventCount
              /\ c = LogServerCount => \A s \in Servers : result[s] = "fetched"
         /\ \A i, j \in DOMAIN page : i < j =>
              /\ page[i].time <= page[j].time
              /\ variant # "python" /\ page[i].time = page[j].time => Follows(page[i], page[j])
  <1>1. PICK order \in Orders : page = Sorted(Collected(order))
    BY DEF RenderedPage
  <1> DEFINE F == Collected(order)
  <1>2. /\ F \in Seq(Events) /\ Timed(F)
        /\ ToSet(F) = UNION {ToSet(log[s]) : s \in Servers}
        /\ variant # "python" => InOrder(LogServerCount, F)
    BY CollectedLogs
  <1>3. \E c \in 0..LogServerCount :
          /\ Len(F) = c * EventCount
          /\ c = LogServerCount => \A s \in Servers : result[s] = "fetched"
    BY CollectedLogs
  <1> HIDE DEF F
  <1>4. page = Sorted(F)
    BY <1>1 DEF F
  <1>5. /\ page \in Seq(Events) /\ Len(page) = Len(F)
        /\ \A i \in DOMAIN F : Place(F, i) \in DOMAIN F /\ page[i] = F[Place(F, i)]
        /\ \A j \in DOMAIN F : \E i \in DOMAIN F : Place(F, i) = j
        /\ \A i, j \in DOMAIN F : i < j => Before(F, Place(F, i), Place(F, j))
    BY <1>2, <1>4, SortedIsSorted
  <1>6. DOMAIN page = DOMAIN F /\ DOMAIN F = 1..Len(F)
    BY <1>2, <1>5
  <1>7. ToSet(page) = ToSet(F)
    <2>1. ASSUME NEW x \in ToSet(page) PROVE x \in ToSet(F)
      <3>1. PICK i \in DOMAIN page : x = page[i]
        BY DEF ToSet
      <3>2. Place(F, i) \in DOMAIN F /\ x = F[Place(F, i)]
        BY <1>5, <1>6, <3>1
      <3> QED
        BY <3>2 DEF ToSet
    <2>2. ASSUME NEW x \in ToSet(F) PROVE x \in ToSet(page)
      <3>1. PICK j \in DOMAIN F : x = F[j]
        BY DEF ToSet
      <3>2. PICK i \in DOMAIN F : Place(F, i) = j
        BY <1>5
      <3>3. i \in DOMAIN page /\ x = page[i]
        BY <1>5, <1>6, <3>1, <3>2
      <3> QED
        BY <3>3 DEF ToSet
    <2> QED
      BY <2>1, <2>2
  <1>8. ASSUME NEW i \in DOMAIN page, NEW j \in DOMAIN page, i < j
        PROVE  /\ page[i].time <= page[j].time
               /\ variant # "python" /\ page[i].time = page[j].time => Follows(page[i], page[j])
    <2> DEFINE k == Place(F, i)
               l == Place(F, j)
    <2>1. /\ k \in 1..Len(F) /\ l \in 1..Len(F) /\ Before(F, k, l)
          /\ page[i] = F[k] /\ page[j] = F[l]
      BY <1>5, <1>6, <1>8
    <2> HIDE DEF k, l
    <2>2. F[k].time \in Nat /\ F[l].time \in Nat
      BY <1>2, <1>6, <2>1 DEF Timed
    <2>3. F[k].time <= F[l].time /\ (F[k].time = F[l].time => k < l)
      BY <2>1, <2>2 DEF Before
    <2>4. variant # "python" /\ k < l => Follows(F[k], F[l])
      BY <1>2, <2>1 DEF InOrder
    <2> QED
      BY <2>1, <2>3, <2>4
  <1> QED
    BY <1>2, <1>3, <1>5, <1>7, <1>8

-------------------------------------------------------------------------------
(* The inductive invariant, and what it gives. *)
FanOutInv == FetchInv /\ PageInv

(* Every reachable state has the fetches and the page in step.              *)
THEOREM FanOutInvariant == Spec => []FanOutInv
  <1> QED
    BY FetchInit, FetchStep, PageInit, PageStep, PTL DEF Spec, FanOutInv

(* TypeOK: a page has only events of the logs, each fetch has its log when  *)
(* it has succeeded, and ends once.                                         *)
THEOREM FanOutTypes == Spec => []TypeOK
  <1>1. FanOutInv => TypeOK
    <2> SUFFICES ASSUME FanOutInv PROVE TypeOK
      OBVIOUS
    <2>1. \A i \in DOMAIN page : page[i] \in Events
      <3>1. CASE app = "rendered"
        BY <3>1, PageIsSorted, ElementOfSeq DEF FanOutInv, PageInv
      <3>2. CASE app # "rendered"
        BY <3>2 DEF FanOutInv, PageInv
      <3> QED
        BY <3>1, <3>2
    <2> QED
      BY <2>1 DEF FanOutInv, FetchInv, TypeOK
  <1> QED
    BY <1>1, FanOutInvariant, PTL

(* AcceptedPageIsComplete: a page that passes the client's count of lines   *)
(* has all events in order.  A page that lacks a log has EventCount events  *)
(* less, and a Python page passes with c of n logs if                       *)
(* EventCount * (6 * n - 7 * c) = 2: never for logs of more than two        *)
(* events (the code's have 20), but for five servers with one event each.   *)
THEOREM AcceptedPagesAreComplete ==
  ASSUME EventCount > 2
  PROVE  Spec => []AcceptedPageIsComplete
  <1>1. FanOutInv => AcceptedPageIsComplete
    <2> SUFFICES ASSUME FanOutInv, client = "accepted"
                 PROVE  /\ \A s \in Servers : result[s] = "fetched"
                        /\ ToSet(page) = UNION {ToSet(log[s]) : s \in Servers}
                        /\ Len(page) = LogServerCount * EventCount
                        /\ \A i, j \in DOMAIN page : i < j => page[i].time <= page[j].time
      BY DEF AcceptedPageIsComplete
    <2>1. FetchInv /\ RenderedPage /\ LinesOk(Lines(variant, Len(page)))
      BY DEF FanOutInv, PageInv
    <2>2. /\ ToSet(page) = UNION {ToSet(log[s]) : s \in Servers}
          /\ \A i, j \in DOMAIN page : i < j => page[i].time <= page[j].time
      BY <2>1, PageIsSorted
    <2>3. PICK c \in 0..LogServerCount :
            /\ Len(page) = c * EventCount
            /\ c = LogServerCount => \A s \in Servers : result[s] = "fetched"
      BY <2>1, PageIsSorted
    <2> DEFINE n == LogServerCount
               K == EventCount
    <2>4. n \in Nat /\ K \in Nat /\ K > 2 /\ c \in 0..n
      BY LogFanOutAssumption
    <2>5. Lines(variant, c * K) = 14 + n * K * 6 + 2
      BY <2>1, <2>3 DEF LinesOk, ExpectedLines
    <2> HIDE DEF n, K
    <2>6. c = n
      <3>1. CASE variant = "python"
        <4>1. 15 + 7 * (c * K) + 3 = 14 + (n * K) * 6 + 2
          BY <2>4, <2>5, <3>1 DEF Lines
        <4> DEFINE d == 6 * n - 7 * c
        <4>2. d \in Int /\ K * d = 6 * (n * K) - 7 * (c * K)
          BY <2>4
        <4>3. c * K \in Int /\ n * K \in Int
          BY <2>4
        <4>4. K * d = 2
          BY <4>1, <4>2, <4>3
        <4> HIDE DEF d
        <4>5. CASE d <= 0
          BY <2>4, <4>2, <4>4, <4>5
        <4>6. CASE d >= 1
          BY <2>4, <4>2, <4>4, <4>6
        <4> QED
          BY <4>2, <4>5, <4>6
      <3>2. CASE variant # "python"
        <4>1. 14 + 6 * (c * K) + 2 = 14 + (n * K) * 6 + 2
          BY <2>4, <2>5, <3>2 DEF Lines
        <4>2. c * K \in Int /\ n * K \in Int
          BY <2>4
        <4>3. c * K = n * K
          BY <4>1, <4>2
        <4> QED
          BY <2>4, <4>3
      <3> QED
        BY <3>1, <3>2
    <2> QED
      BY <2>2, <2>3, <2>6 DEF n
  <1> QED
    BY <1>1, FanOutInvariant, PTL

(* PageIgnoresTiming: events of one time stay in the order of their servers *)
(* and logs, whatever the order of arrival.                                 *)
THEOREM PagesIgnoreTiming == Spec => []PageIgnoresTiming
  <1>1. FanOutInv => PageIgnoresTiming
    BY PageIsSorted DEF FanOutInv, PageInv, PageIgnoresTiming, Follows
  <1> QED
    BY <1>1, FanOutInvariant, PTL
===============================================================================
