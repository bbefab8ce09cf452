--------------------------- MODULE RequestMixProofs ---------------------------
(* Theorems about RequestMix, for every word size, share and interleaving. *)
EXTENDS RequestMix, FiniteSetTheorems, TLAPS

LEMMA RateRange ==
  ASSUME setting \in Settings
  PROVE  HotRate \in 0..(W - 1)
  <1>0. HotNum \in 0..HotDen
    BY MixAssumption DEF HotNum
  <1>1. CASE HotNum >= HotDen \/ HotNum = 0
    BY <1>0, <1>1, MixAssumption DEF HotRate
  <1>2. CASE HotNum < HotDen /\ HotNum > 0
    <2> DEFINE a == (W - 1) * HotNum
    <2>1. a \in Nat /\ a <= (W - 1) * HotDen
      BY <1>0, <1>2, MixAssumption
    <2>2. a \div HotDen \in 0..(W - 1)
      BY <2>1, MixAssumption
    <2> QED
      BY <1>0, <1>2, <2>2, MixAssumption DEF HotRate
  <1> QED
    BY <1>0, <1>1, <1>2, MixAssumption

LEMMA CarryIsExact ==
  ASSUME NEW a \in 0..(W - 1), NEW b \in 0..(W - 1)
  PROVE  /\ Carry(a, b) \in 0..(W - 1)
         /\ Carry(a, b) = IF Overflows(a, b) THEN a + b - W ELSE a + b
  BY MixAssumption DEF Carry, Overflows

LEMMA TypeInit == Init => TypeOK
  BY MixAssumption DEF Init, TypeOK

LEMMA TypeStep == TypeOK /\ [Next]_vars => TypeOK'
  <1> SUFFICES ASSUME TypeOK, [Next]_vars PROVE TypeOK'
    OBVIOUS
  <1> USE DEF TypeOK, Copies, ColdMax
  <1>1. CASE UNCHANGED vars
    BY <1>1 DEF vars
  <1>2. ASSUME NEW c \in Callers, Draw(c) PROVE TypeOK'
    <2>1. request_counter' \in 0..(W - 1)
      BY <1>2, RateRange, CarryIsExact DEF Draw
    <2> QED
      BY <1>2, <2>1 DEF Draw
  <1>3. ASSUME NEW c \in Callers, NameHot(c) PROVE TypeOK'
    BY <1>3 DEF NameHot
  <1>4. ASSUME NEW c \in Callers, NameCold(c) \/ NameColdPanics(c) PROVE TypeOK'
    <2>1. cold_counter' \in 0..(W - 1)
      BY <1>4, MixAssumption, CarryIsExact DEF NameCold, NameColdPanics
    <2>2. uses' \in [Copies -> Nat]
      BY <1>4 DEF NameCold, NameColdPanics
    <2> QED
      BY <1>4, <2>1, <2>2 DEF NameCold, NameColdPanics
  <1> QED
    BY <1>1, <1>2, <1>3, <1>4 DEF Next

(* Every variable stays in its range; in particular the counters wrap.      *)
THEOREM TypeCorrect == Spec => []TypeOK
  BY TypeInit, TypeStep, PTL DEF Spec

(* The overflow bits account exactly for what was added to the counter.     *)
THEOREM MixIsExact == Spec => []MixExact
  <1>1. Init => MixExact
    BY MixAssumption, RateRange DEF Init, MixExact
  <1>2. TypeOK /\ MixExact /\ [Next]_vars => MixExact'
    <2> SUFFICES ASSUME TypeOK, MixExact, [Next]_vars PROVE MixExact'
      OBVIOUS
    <2>0. setting' = setting /\ HotRate' = HotRate
      <3>1. setting' = setting
        BY DEF Next, vars, Draw, NameHot, NameCold, NameColdPanics
      <3> QED
        BY <3>1 DEF HotRate, HotNum
    <2>1. ASSUME NEW c \in Callers, Draw(c) PROVE MixExact'
      <3>1. /\ W \in Nat /\ HotRate \in Nat /\ hots \in Nat /\ drawn \in Nat
            /\ request_counter \in Nat /\ first \in Nat
        BY MixAssumption, RateRange DEF TypeOK
      <3>2. (drawn + 1) * HotRate = drawn * HotRate + HotRate /\ (hots + 1) * W = hots * W + W
        BY <3>1
      <3>3. CASE Overflows(request_counter, HotRate)
        <4>1. request_counter' = request_counter + HotRate - W /\ hots' = hots + 1
          BY <2>1, <3>3, RateRange, CarryIsExact DEF Draw, TypeOK
        <4> QED
          BY <2>0, <2>1, <3>1, <3>2, <4>1 DEF Draw, MixExact
      <3>4. CASE ~Overflows(request_counter, HotRate)
        <4>1. request_counter' = request_counter + HotRate /\ hots' = hots
          BY <2>1, <3>4, RateRange, CarryIsExact DEF Draw, TypeOK
        <4> QED
          BY <2>0, <2>1, <3>1, <3>2, <4>1 DEF Draw, MixExact
      <3> QED
        BY <3>3, <3>4
    <2>2. CASE UNCHANGED <<request_counter, first, drawn, hots>>
      BY <2>0, <2>2 DEF MixExact
    <2> QED
      BY <2>1, <2>2 DEF Next, vars, NameHot, NameCold, NameColdPanics
  <1> QED
    BY <1>1, <1>2, TypeCorrect, PTL DEF Spec

-------------------------------------------------------------------------------
(* Remainders.                                                              *)

LEMMA RemainderOf ==
  ASSUME NEW d \in Nat, NEW q \in Nat, NEW r \in Nat, r < d
  PROVE  (q * d + r) % d = r
  OBVIOUS

LEMMA RemainderUp ==
  ASSUME NEW a \in Nat, NEW d \in Nat, d > 0
  PROVE  /\ a % d \in 0..(d - 1)
         /\ (a % d) + 1 < d => (a + 1) % d = (a % d) + 1
         /\ (a % d) + 1 = d => (a + 1) % d = 0
  <1> DEFINE q == a \div d
             r == a % d
  <1>1. q \in Nat /\ r \in 0..(d - 1) /\ a = q * d + r
    OBVIOUS
  <1> HIDE DEF q, r
  <1>2. CASE r + 1 < d
    <2>1. (q * d + (r + 1)) % d = r + 1
      BY <1>1, <1>2, RemainderOf
    <2>2. a + 1 = q * d + (r + 1)
      BY <1>1
    <2> QED
      BY <1>1, <1>2, <2>1, <2>2 DEF r
  <1>3. CASE r + 1 = d
    <2>1. ((q + 1) * d + 0) % d = 0
      BY <1>1, RemainderOf
    <2>2. a + 1 = (q + 1) * d + 0
      BY <1>1, <1>3
    <2> QED
      BY <1>1, <1>3, <2>1, <2>2 DEF r
  <1> QED
    BY <1>1, <1>2, <1>3 DEF r

(* A counter that wraps at a multiple of d keeps its remainder going.       *)
LEMMA RemainderWraps ==
  ASSUME NEW d \in Nat, d > 0, NEW a \in 0..(W - 1), W % d = 0
  PROVE  Carry(a, 1) % d = IF (a % d) + 1 < d THEN (a % d) + 1 ELSE 0
  <1>1. W \in Nat /\ W > 1 /\ a \in Nat
    BY MixAssumption
  <1>2. a % d \in 0..(d - 1)
    BY <1>1, RemainderUp
  <1>3. CASE a + 1 < W
    <2>1. Carry(a, 1) = a + 1
      BY <1>3 DEF Carry
    <2>2. CASE (a % d) + 1 < d
      <3>1. (a + 1) % d = (a % d) + 1
        BY <1>1, <2>2, RemainderUp
      <3> QED
        BY <2>1, <2>2, <3>1
    <2>3. CASE ~((a % d) + 1 < d)
      <3>1. (a % d) + 1 = d
        BY <1>2, <2>3
      <3>2. (a + 1) % d = 0
        BY <1>1, <3>1, RemainderUp
      <3> QED
        BY <2>1, <2>3, <3>2
    <2> QED
      BY <2>2, <2>3
  <1>4. CASE ~(a + 1 < W)
    <2>1. a + 1 = W /\ Carry(a, 1) = 0
      BY <1>1, <1>4 DEF Carry
    <2>2. (a % d) + 1 = d
      <3>1. CASE (a % d) + 1 < d
        <4>1. (a + 1) % d = (a % d) + 1
          BY <1>1, <3>1, RemainderUp
        <4> QED
          BY <1>2, <2>1, <4>1
      <3> QED
        BY <1>2, <3>1
    <2>3. 0 % d = 0
      OBVIOUS
    <2> QED
      BY <2>1, <2>2, <2>3
  <1> QED
    BY <1>3, <1>4

-------------------------------------------------------------------------------
(* Cold copies.  Of the n cold names taken, in whatever order the callers   *)
(* came, copy i has the shares of a division: q of them, and one more if it *)
(* is among the first r.  Callers that have drawn "cold" and not yet named  *)
(* keep n below the cold requests drawn.                                    *)
Pending == {c \in Callers : decision[c] = "cold"}
Shares(u, cc, d, n, q, r) ==
  /\ r < d /\ n = q * d + r
  /\ n <= W \/ W % d = 0 => \A i \in 0..(d - 1) : u[i] = IF i < r THEN q + 1 ELSE q
  /\ W % d = 0 => cc % d = r
Taken(n, q, r) ==
  /\ n + Cardinality(Pending) <= drawn - hots
  /\ n < W => cold_counter = n
  /\ ColdMax > 0 => Shares(uses, cold_counter, ColdMax, n, q, r)
ColdInv == IsFiniteSet(Pending) /\ \E n, q, r \in Nat : Taken(n, q, r)

LEMMA OneColdMore ==
  ASSUME NEW d \in Nat, d > 0, NEW cc \in 0..(W - 1), NEW u \in [0..(d - 1) -> Nat],
         NEW n \in Nat, NEW q \in Nat, NEW r \in Nat, Shares(u, cc, d, n, q, r),
         n < W => cc = n
  PROVE  \E q2, r2 \in Nat :
           Shares([u EXCEPT ![cc % d] = u[cc % d] + 1], Carry(cc, 1), d, n + 1, q2, r2)
  <1> DEFINE i0 == cc % d
             v == [u EXCEPT ![i0] = u[i0] + 1]
  <1>1. W \in Nat /\ W > 1
    BY MixAssumption
  <1>3. /\ r < d /\ n = q * d + r
        /\ n <= W \/ W % d = 0 => \A i \in 0..(d - 1) : u[i] = IF i < r THEN q + 1 ELSE q
        /\ W % d = 0 => i0 = r
    BY DEF Shares
  <1>4. n < W => i0 = r
    <2>1. (q * d + r) % d = r
      BY <1>3, RemainderOf
    <2>2. n < W => i0 = n % d
      OBVIOUS
    <2> HIDE DEF i0
    <2> QED
      BY <1>3, <2>1, <2>2
  <1> DEFINE r2 == IF r + 1 < d THEN r + 1 ELSE 0
             q2 == IF r + 1 < d THEN q ELSE q + 1
  <1>5. q2 \in Nat /\ r2 \in Nat /\ r2 < d /\ n + 1 = q2 * d + r2
    <2>1. CASE r + 1 < d
      BY <1>1, <1>3, <2>1
    <2>2. CASE ~(r + 1 < d)
      <3>1. r + 1 = d
        BY <1>1, <1>3, <2>2
      <3>2. (q + 1) * d = q * d + d
        BY <1>1
      <3> QED
        BY <1>1, <1>3, <2>2, <3>1, <3>2
    <2> QED
      BY <2>1, <2>2
  <1>6. W % d = 0 => Carry(cc, 1) % d = r2
    <2> SUFFICES ASSUME W % d = 0 PROVE Carry(cc, 1) % d = r2
      OBVIOUS
    <2>1. Carry(cc, 1) % d = IF i0 + 1 < d THEN i0 + 1 ELSE 0
      BY RemainderWraps
    <2> HIDE DEF i0
    <2> QED
      BY <1>3, <2>1
  <1> HIDE DEF i0
  <1>7. ASSUME n + 1 <= W \/ W % d = 0
        PROVE  \A i \in 0..(d - 1) : v[i] = IF i < r2 THEN q2 + 1 ELSE q2
    <2>1. i0 = r /\ r \in 0..(d - 1)
      BY <1>1, <1>3, <1>4, <1>7
    <2>2. \A i \in 0..(d - 1) : u[i] = IF i < r THEN q + 1 ELSE q
      BY <1>1, <1>3, <1>7
    <2>3. \A i \in 0..(d - 1) : v[i] = IF i = r THEN u[i] + 1 ELSE u[i]
      BY <2>1
    <2>4. \A i \in 0..(d - 1) : v[i] = IF i < r + 1 THEN q + 1 ELSE q
      BY <1>1, <2>1, <2>2, <2>3
    <2>5. CASE r + 1 < d
      BY <2>4, <2>5
    <2>6. CASE ~(r + 1 < d)
      <3>1. r + 1 = d /\ r2 = 0 /\ q2 = q + 1
        BY <1>1, <1>3, <2>6
      <3>2. \A i \in 0..(d - 1) : i < r + 1 /\ ~(i < 0)
        BY <1>1, <3>1
      <3> QED
        BY <2>4, <3>1, <3>2
    <2> QED
      BY <2>5, <2>6
  <1> HIDE DEF r2, q2
  <1> HIDE DEF v
  <1>8. Shares(v, Carry(cc, 1), d, n + 1, q2, r2)
    BY <1>5, <1>6, <1>7 DEF Shares
  <1> QED
    BY <1>5, <1>8 DEF v, i0

LEMMA ColdStep == TypeOK /\ ColdInv /\ [Next]_vars => ColdInv'
  <1> SUFFICES ASSUME TypeOK, ColdInv, [Next]_vars PROVE ColdInv'
    OBVIOUS
  <1>1. PICK n \in Nat, q \in Nat, r \in Nat : Taken(n, q, r)
    BY DEF ColdInv
  <1>t. /\ IsFiniteSet(Pending) /\ Cardinality(Pending) \in Nat /\ hots \in Nat /\ drawn \in Nat
        /\ decision \in [Callers -> {"none", "hot", "cold"}]
        /\ cold_counter \in 0..(W - 1) /\ W \in Nat /\ W > 1
        /\ n + Cardinality(Pending) <= drawn - hots
    BY <1>1, FS_CardinalityType, MixAssumption DEF ColdInv, TypeOK, Taken
  <1>s. setting \in Settings /\ uses \in [Copies -> Nat]
    BY DEF TypeOK
  <1>2. CASE UNCHANGED <<setting, cold_counter, uses>> /\ IsFiniteSet(Pending')
             /\ n + Cardinality(Pending') <= drawn' - hots'
    <2>1. Taken(n, q, r)'
      BY <1>1, <1>2 DEF Taken, Shares, ColdMax, Copies
    <2> QED
      BY <1>2, <2>1 DEF ColdInv
  <1>3. CASE UNCHANGED vars
    BY <1>2, <1>3, <1>t DEF vars, Pending
  <1>4. ASSUME NEW c \in Callers, Draw(c) PROVE ColdInv'
    <2>1. CASE Overflows(request_counter, HotRate)
      <3>1. Pending' = Pending /\ hots' = hots + 1 /\ drawn' = drawn + 1
        BY <1>4, <1>t, <2>1 DEF Draw, Pending
      <3>2. UNCHANGED <<setting, cold_counter, uses>>
        BY <1>4 DEF Draw
      <3> QED
        BY <1>2, <1>t, <3>1, <3>2
    <2>2. CASE ~Overflows(request_counter, HotRate)
      <3>1. /\ Pending' = Pending \cup {c} /\ c \notin Pending
            /\ hots' = hots /\ drawn' = drawn + 1
        BY <1>4, <1>t, <2>2 DEF Draw, Pending
      <3>2. IsFiniteSet(Pending') /\ Cardinality(Pending') = Cardinality(Pending) + 1
        BY <1>t, <3>1, FS_AddElement
      <3>3. UNCHANGED <<setting, cold_counter, uses>>
        BY <1>4 DEF Draw
      <3> QED
        BY <1>2, <1>t, <3>1, <3>2, <3>3
    <2> QED
      BY <2>1, <2>2
  <1>5. ASSUME NEW c \in Callers, NameHot(c) PROVE ColdInv'
    <2>1. Pending' = Pending
      BY <1>5, <1>t DEF NameHot, Pending
    <2> QED
      BY <1>2, <1>5, <1>t, <2>1 DEF NameHot
  <1>6. ASSUME NEW c \in Callers, NameCold(c) \/ NameColdPanics(c) PROVE ColdInv'
    <2>1. Pending' = Pending \ {c} /\ c \in Pending
      BY <1>6, <1>t DEF NameCold, NameColdPanics, Pending
    <2>2. IsFiniteSet(Pending') /\ Cardinality(Pending') = Cardinality(Pending) - 1
      BY <1>t, <2>1, FS_RemoveElement
    <2>3. (n + 1) + Cardinality(Pending') <= drawn' - hots'
      BY <1>6, <1>t, <2>2 DEF NameCold, NameColdPanics
    <2>4. n + 1 < W => cold_counter' = n + 1
      <3> SUFFICES ASSUME n + 1 < W PROVE cold_counter' = n + 1
        OBVIOUS
      <3>1. cold_counter = n
        BY <1>1, <1>t DEF Taken
      <3> QED
        BY <1>6, <3>1 DEF NameCold, NameColdPanics, Carry
    <2>5. CASE NameCold(c)
      <3> DEFINE d == ColdMax
      <3>1. d \in Nat /\ d > 0 /\ uses \in [0..(d - 1) -> Nat] /\ d' = d
        BY <1>s, <2>5, MixAssumption DEF NameCold, ColdMax, Copies
      <3>2. Shares(uses, cold_counter, d, n, q, r) /\ (n < W => cold_counter = n)
        BY <1>1, <3>1 DEF Taken
      <3>3. /\ uses' = [uses EXCEPT ![cold_counter % d] = uses[cold_counter % d] + 1]
            /\ cold_counter' = Carry(cold_counter, 1)
        BY <2>5 DEF NameCold, ColdIndex
      <3> HIDE DEF d
      <3>4. PICK q2 \in Nat, r2 \in Nat : Shares(uses', cold_counter', d', n + 1, q2, r2)
        BY <1>t, <3>1, <3>2, <3>3, OneColdMore
      <3>5. Taken(n + 1, q2, r2)'
        BY <2>3, <2>4, <3>4 DEF Taken, d
      <3> QED
        BY <2>2, <3>5 DEF ColdInv
    <2>6. CASE NameColdPanics(c)
      <3>1. ~(ColdMax' > 0)
        BY <2>6 DEF NameColdPanics, ColdMax
      <3>2. Taken(n + 1, q, r)'
        BY <2>3, <2>4, <3>1 DEF Taken
      <3> QED
        BY <2>2, <3>2 DEF ColdInv
    <2> QED
      BY <1>6, <2>5, <2>6
  <1> QED
    BY <1>3, <1>4, <1>5, <1>6 DEF Next

LEMMA ColdInit == Init => ColdInv
  <1> SUFFICES ASSUME Init PROVE ColdInv
    OBVIOUS
  <1>1. Pending = {}
    BY DEF Init, Pending
  <1>2. IsFiniteSet(Pending) /\ Cardinality(Pending) = 0
    BY <1>1, FS_EmptySet
  <1>3. drawn = 0 /\ hots = 0 /\ cold_counter = 0
    BY DEF Init
  <1>4. ColdMax > 0 => Shares(uses, cold_counter, ColdMax, 0, 0, 0)
    <2> SUFFICES ASSUME ColdMax > 0 PROVE Shares(uses, cold_counter, ColdMax, 0, 0, 0)
      OBVIOUS
    <2>1. ColdMax \in Nat
      BY MixAssumption DEF Init, ColdMax
    <2>2. 0 = 0 * ColdMax + 0 /\ 0 % ColdMax = 0
      BY <2>1
    <2>3. \A i \in Copies : uses[i] = 0 /\ ~(i < 0)
      BY <2>1 DEF Init, Copies
    <2> QED
      BY <1>3, <2>2, <2>3 DEF Shares, Copies
  <1>5. Taken(0, 0, 0)
    BY <1>2, <1>3, <1>4 DEF Taken
  <1> QED
    BY <1>2, <1>5 DEF ColdInv

(* ColdTakesTurns: whichever caller comes first, the cold copies are named  *)
(* in turn, until the counter wraps at a number they do not divide.         *)
THEOREM ColdCopiesTakeTurns == Spec => []ColdTakesTurns
  <1>1. TypeOK /\ ColdInv => ColdTakesTurns
    <2> SUFFICES ASSUME TypeOK, ColdInv, NEW i \in Copies, NEW j \in Copies,
                        drawn - hots <= W \/ (ColdMax > 0 /\ W % ColdMax = 0)
                 PROVE  uses[i] <= uses[j] + 1
      BY DEF ColdTakesTurns
    <2>1. PICK n \in Nat, q \in Nat, r \in Nat : Taken(n, q, r)
      BY DEF ColdInv
    <2>2. ColdMax > 0
      BY MixAssumption DEF TypeOK, Copies, ColdMax
    <2>3. n <= W \/ W % ColdMax = 0
      <3>1. Cardinality(Pending) \in Nat /\ W \in Nat /\ drawn \in Nat /\ hots \in Nat
        BY FS_CardinalityType, MixAssumption DEF ColdInv, TypeOK
      <3>2. n + Cardinality(Pending) <= drawn - hots
        BY <2>1 DEF Taken
      <3> QED
        BY <3>1, <3>2
    <2>4. \A k \in Copies : uses[k] = q \/ uses[k] = q + 1
      BY <2>1, <2>2, <2>3 DEF Taken, Shares, Copies
    <2> QED
      BY <2>4
  <1>2. TypeOK /\ [Next]_vars => TypeOK'
    BY TypeStep
  <1>3. Init => TypeOK
    BY TypeInit
  <1> QED
    BY <1>1, <1>2, <1>3, ColdInit, ColdStep, PTL DEF Spec
===============================================================================
