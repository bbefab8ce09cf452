---------------------------- MODULE ClientMainProofs ----------------------------
(***************************************************************************)
(* Theorems about ClientMain: the set-up, the closed loop (with the lemmas *)
(* of ClosedLoopProofs) and the search for a rate, for every set of        *)
(* command lines, number of requests, step of the rate and capacity of the *)
(* server.                                                                 *)
(***************************************************************************)
EXTENDS ClientMain, ClosedLoopProofs

-------------------------------------------------------------------------------
(* Rates measured.                                                          *)

Measured == \A m \in measured : m.rate \in Nat /\ m.verdict \in Verdicts

LEMMA OneRateMore ==
    ASSUME NEW v, Record(v)
    PROVE  /\ Rates' = Rates \cup {rps}
           /\ With("good")' = With("good") \cup (IF v = "good" THEN {rps} ELSE {})
           /\ With("bad")' = With("bad") \cup (IF v = "bad" THEN {rps} ELSE {})
           /\ With("err")' = With("err") \cup (IF v = "err" THEN {rps} ELSE {})
  <1> DEFINE new == [rate |-> rps, verdict |-> v]
  <1>1. measured' = measured \cup {new} /\ new.rate = rps /\ new.verdict = v
    BY DEF Record
  <1> HIDE DEF new
  <1>2. Rates' = Rates \cup {rps}
    BY <1>1 DEF Rates
  <1>3. ASSUME NEW w PROVE {m.rate : m \in {m \in measured' : m.verdict = w}}
                            = {m.rate : m \in {m \in measured : m.verdict = w}}
                                \cup (IF v = w THEN {rps} ELSE {})
    BY <1>1
  <1> QED
    BY <1>2, <1>3 DEF With

LEMMA RatesAreNat == Measured => Rates \subseteq Nat
  BY DEF Measured, Rates

LEMMA RecordKeeps ==
    ASSUME Measured, rps \in Nat, NEW v \in Verdicts, Record(v)
    PROVE  Measured'
  <1>1. ASSUME NEW m \in measured' PROVE m.rate \in Nat /\ m.verdict \in Verdicts
    BY <1>1 DEF Record, Measured
  <1> QED
    BY <1>1 DEF Measured

-------------------------------------------------------------------------------
(* The sweep.  Coarse steps have measured nothing above the last good rate; *)
(* fine ones nothing between the rate they are at and the coarse rate that  *)
(* was bad.  The median is reset at the first rate of either, when no lower *)
(* one has been measured.                                                   *)
Based == baseline \in Rates /\ baseline <= rps
CoarseInv ==
    phase = "coarse" =>
        /\ rps = last_good_rps + StepCoarse /\ last_good_rps <= Capacity
        /\ \A r \in Rates : StepCoarse <= r /\ r <= last_good_rps
        /\ last_good_rps = 0 \/ (last_good_rps >= StepCoarse /\ Based)
FineInv ==
    phase = "fine" =>
        /\ FirstFine <= rps /\ rps < EndFine /\ last_good_rps <= Capacity
        /\ \A r \in Rates : r < rps \/ r = EndFine
        /\ (last_good_rps = 0 /\ rps = StepFine) \/ Based
        /\ last_good_rps = 0 /\ rps = StepFine => \A r \in Rates : r = EndFine
Lowest == \A m \in measured : m.verdict # "err" => baseline <= m.rate /\ baseline \in Rates

(* The adaptive search.  While it doubles, the last good rate is the        *)
(* highest measured; while it bisects, nothing is measured between the last *)
(* good rate and the last bad one.                                          *)
DoubleInv ==
    phase = "double" =>
        \/ rps = StepFine /\ last_good_rps = StepFine /\ Rates = {}
        \/ /\ rps = 2 * last_good_rps /\ last_good_rps <= Capacity
           /\ last_good_rps \in With("good") /\ last_good_rps >= 1
           /\ \A r \in Rates : r <= last_good_rps
BisectInv ==
    phase = "bisect" =>
        /\ last_good_rps \in With("good") /\ last_good_rps <= Capacity
        /\ last_good_rps < rps /\ rps < last_bad_rps
        /\ last_bad_rps <= 2 * Capacity + StepCoarse + StepFine
        /\ last_bad_rps \in With("bad") \cup With("err")
        /\ \A r \in Rates : r <= last_good_rps \/ r >= last_bad_rps
Bracket ==
    last_bad_rps # 0 =>
        /\ last_bad_rps \in With("bad") \cup With("err")
        /\ \/ last_good_rps = StepFine /\ last_bad_rps = StepFine
           \/ last_good_rps \in With("good") /\ last_good_rps < last_bad_rps
        /\ phase = "ok" => last_bad_rps <= last_good_rps + StepFine

Untried ==
    phase = "idle" => rps = StepFine /\ last_good_rps = 0 /\ measured = {}
NoneBad == phase \in {"idle", "coarse", "fine", "double"} => last_bad_rps = 0
OwnModel ==
    /\ phase \in {"coarse", "fine"} => args.experiment_model = "OpenSweep"
    /\ phase \in {"double", "bisect"} => args.experiment_model # "OpenSweep"
SweepInv == args.experiment_model = "OpenSweep" => Lowest
SearchInv ==
    /\ SearchTypeOK
    /\ Untried /\ NoneBad /\ OwnModel
    /\ CoarseInv /\ FineInv /\ SweepInv
    /\ DoubleInv /\ BisectInv /\ Bracket

LEMMA SearchConstants ==
    /\ StepCoarse \in Nat /\ StepCoarse > 0 /\ StepFine \in Nat /\ StepFine > 0
    /\ Capacity \in Nat /\ Medians \subseteq Nat
  BY RateSearchAssumption

LEMMA SearchNumbers ==
    ASSUME SearchTypeOK
    PROVE  /\ rps \in Nat /\ rps >= 1 /\ rps <= 2 * Capacity + StepCoarse + StepFine
           /\ last_good_rps \in Nat /\ last_good_rps <= Capacity + StepFine
           /\ last_bad_rps \in Nat /\ baseline \in Nat
           /\ Measured /\ Rates \subseteq Nat
  <1>1. Measured
    BY DEF SearchTypeOK, Measured
  <1> QED
    BY <1>1, RatesAreNat, SearchConstants DEF SearchTypeOK

(* The rate after the next.                                                 *)
LEMMA Halfway ==
    ASSUME NEW good \in Nat, NEW bad \in Nat, Wide(good, bad)
    PROVE  Middle(good, bad) \in Nat /\ good < Middle(good, bad) /\ Middle(good, bad) < bad
  <1> DEFINE half == (bad - good) \div 2
  <1>1. half \in Nat /\ half < bad - good
    BY SearchConstants DEF Wide
  <1>2. Middle(good, bad) = good + (IF StepFine > half THEN StepFine ELSE half)
    BY DEF Middle
  <1> HIDE DEF half
  <1> QED
    BY <1>1, <1>2, SearchConstants DEF Wide

(* Taking the median for that of an unloaded server, or not, keeps the      *)
(* baseline lowest.                                                         *)
LEMMA LowestKept ==
    ASSUME SearchTypeOK, Lowest, NEW median, NEW v \in {"good", "bad"}, Record(v),
           KeepMedian(median),
           ResetsMedian => \A r \in Rates : rps <= r,
           ~ResetsMedian => Based
    PROVE  Lowest' /\ baseline' \in Rates' /\ baseline' <= rps
  <1>1. Rates' = Rates \cup {rps} /\ measured' = measured \cup {[rate |-> rps, verdict |-> v]}
    BY OneRateMore DEF Record
  <1>2. rps \in Nat /\ Rates \subseteq Nat
    BY SearchNumbers
  <1>3. baseline' = IF ResetsMedian THEN rps ELSE baseline
    BY DEF KeepMedian
  <1>4. baseline' \in Rates' /\ baseline' <= rps
    BY <1>1, <1>2, <1>3 DEF Based
  <1>5. ASSUME NEW m \in measured', m.verdict # "err" PROVE baseline' <= m.rate
    <2>1. CASE m \in measured
      <3>1. m.rate \in Rates
        BY <2>1 DEF Rates
      <3>2. CASE ResetsMedian
        BY <1>3, <3>1, <3>2
      <3>3. CASE ~ResetsMedian
        BY <1>3, <1>5, <2>1, <3>3 DEF Lowest
      <3> QED
        BY <3>2, <3>3
    <2>2. CASE m \notin measured
      <3>1. m.rate = rps
        BY <1>1, <1>5, <2>2
      <3> QED
        BY <1>4, <3>1
    <2> QED
      BY <2>1, <2>2
  <1> QED
    BY <1>4, <1>5 DEF Lowest

LEMMA GoodCoarseKeeps ==
    ASSUME SearchInv, NEW median \in Medians, GoodCoarse(median), UNCHANGED args
    PROVE  SearchInv'
  <1> USE SearchConstants
  <1>n. /\ rps \in Nat /\ rps >= 1 /\ last_good_rps \in Nat /\ baseline \in Nat
        /\ Measured /\ Rates \subseteq Nat /\ SearchTypeOK
    BY SearchNumbers DEF SearchInv
  <1>1. /\ phase = "coarse" /\ phase' = "coarse" /\ rps <= Capacity /\ Record("good")
        /\ KeepMedian(median) /\ last_good_rps' = rps /\ rps' = rps + StepCoarse
        /\ last_bad_rps' = last_bad_rps
    BY DEF GoodCoarse, Sustained
  <1>2. /\ rps = last_good_rps + StepCoarse
        /\ \A r \in Rates : StepCoarse <= r /\ r <= last_good_rps
        /\ last_good_rps = 0 \/ (last_good_rps >= StepCoarse /\ Based)
        /\ args.experiment_model = "OpenSweep" /\ Lowest /\ last_bad_rps = 0
    BY <1>1 DEF SearchInv, CoarseInv, OwnModel, SweepInv, NoneBad
  <1>3. Rates' = Rates \cup {rps}
    BY <1>1, OneRateMore
  <1>4. ResetsMedian <=> rps = StepCoarse
    BY <1>1 DEF ResetsMedian
  <1>5. Lowest' /\ baseline' \in Rates' /\ baseline' <= rps
    <2>1. ResetsMedian => \A r \in Rates : rps <= r
      BY <1>n, <1>2, <1>4
    <2>2. ~ResetsMedian => Based
      BY <1>n, <1>2, <1>4
    <2> QED
      BY <1>n, <1>1, <1>2, <2>1, <2>2, LowestKept
  <1>6. Measured'
    BY <1>n, <1>1, RecordKeeps DEF Verdicts
  <1>7. SearchTypeOK'
    <2>1. rps' \in 1..(2 * Capacity + StepCoarse + StepFine) /\ last_good_rps' \in 0..(Capacity + StepFine)
      BY <1>n, <1>1
    <2>2. baseline' \in Nat /\ median_latency' \in Medians \cup {0}
      BY <1>n, <1>1 DEF KeepMedian, SearchTypeOK
    <2> QED
      BY <1>n, <1>1, <1>6, <2>1, <2>2 DEF SearchTypeOK, Measured
  <1>8. CoarseInv'
    <2>1. \A r \in Rates' : StepCoarse <= r /\ r <= rps
      BY <1>n, <1>2, <1>3
    <2>2. baseline' <= rps'
      BY <1>n, <1>1, <1>5, <1>7, SearchNumbers DEF SearchTypeOK
    <2> QED
      BY <1>n, <1>1, <1>2, <1>5, <2>1, <2>2 DEF CoarseInv, Based
  <1> QED
    BY <1>1, <1>2, <1>5, <1>7, <1>8
    DEF SearchInv, Untried, NoneBad, OwnModel, FineInv, SweepInv, DoubleInv, BisectInv, Bracket

LEMMA BadCoarseKeeps ==
    ASSUME SearchInv, NEW median \in Medians, BadCoarse(median), UNCHANGED args
    PROVE  SearchInv'
  <1> USE SearchConstants
  <1>n. /\ rps \in Nat /\ rps >= 1 /\ last_good_rps \in Nat /\ baseline \in Nat
        /\ Measured /\ Rates \subseteq Nat /\ SearchTypeOK
    BY SearchNumbers DEF SearchInv
  <1>1. /\ phase = "coarse" /\ Record("bad") /\ KeepMedian(median)
        /\ rps' = FirstFine /\ phase' = IF FirstFine < EndFine THEN "fine" ELSE "ok"
        /\ last_good_rps' = last_good_rps /\ last_bad_rps' = last_bad_rps
    BY DEF BadCoarse
  <1>2. /\ rps = last_good_rps + StepCoarse /\ last_good_rps <= Capacity
        /\ \A r \in Rates : StepCoarse <= r /\ r <= last_good_rps
        /\ last_good_rps = 0 \/ (last_good_rps >= StepCoarse /\ Based)
        /\ args.experiment_model = "OpenSweep" /\ Lowest /\ last_bad_rps = 0
    BY <1>1 DEF SearchInv, CoarseInv, OwnModel, SweepInv, NoneBad
  <1>3. Rates' = Rates \cup {rps}
    BY <1>1, OneRateMore
  <1>4. ResetsMedian <=> rps = StepCoarse
    BY <1>1 DEF ResetsMedian
  <1>5. Lowest' /\ baseline' \in Rates'
    <2>1. ResetsMedian => \A r \in Rates : rps <= r
      BY <1>n, <1>2, <1>4
    <2>2. ~ResetsMedian => Based
      BY <1>n, <1>2, <1>4
    <2> QED
      BY <1>n, <1>1, <1>2, <2>1, <2>2, LowestKept
  <1>6. Measured'
    BY <1>n, <1>1, RecordKeeps DEF Verdicts
  <1>7. SearchTypeOK'
    <2>1. rps' \in 1..(2 * Capacity + StepCoarse + StepFine) /\ last_good_rps' \in 0..(Capacity + StepFine)
      BY <1>n, <1>1, <1>2 DEF FirstFine
    <2>2. baseline' \in Nat /\ median_latency' \in Medians \cup {0}
      BY <1>n, <1>1 DEF KeepMedian, SearchTypeOK
    <2> QED
      BY <1>n, <1>1, <1>6, <2>1, <2>2 DEF SearchTypeOK, Measured
  <1>8. FineInv'
    <2> SUFFICES ASSUME FirstFine < EndFine
                 PROVE  /\ FirstFine <= FirstFine /\ FirstFine < EndFine /\ last_good_rps <= Capacity
                        /\ \A r \in Rates' : r < FirstFine \/ r = EndFine
                        /\ \/ last_good_rps = 0 /\ FirstFine = StepFine
                           \/ baseline' \in Rates' /\ baseline' <= FirstFine
                        /\ last_good_rps = 0 /\ FirstFine = StepFine => \A r \in Rates' : r = EndFine
      BY <1>1 DEF FineInv, FirstFine, EndFine, Based
    <2>1. EndFine = rps /\ FirstFine = last_good_rps + StepFine
      BY <1>2 DEF EndFine, FirstFine
    <2>2. \A r \in Rates' : r < FirstFine \/ r = EndFine
      BY <1>n, <1>2, <1>3, <2>1
    <2>3. last_good_rps = 0 => \A r \in Rates' : r = EndFine
      BY <1>n, <1>2, <1>3, <2>1
    <2>4. last_good_rps # 0 => baseline' <= FirstFine
      <3> SUFFICES ASSUME last_good_rps # 0 PROVE baseline' <= FirstFine
        OBVIOUS
      <3>1. Based /\ ~ResetsMedian
        BY <1>n, <1>2, <1>4
      <3>2. baseline' = baseline /\ baseline \in Rates
        BY <1>1, <3>1 DEF KeepMedian, Based
      <3> QED
        BY <1>n, <1>2, <2>1, <3>2
    <2> QED
      BY <1>n, <1>2, <1>5, <2>1, <2>2, <2>3, <2>4
  <1>9. phase' \in {"fine", "ok"}
    BY <1>1
  <1> QED
    BY <1>1, <1>2, <1>5, <1>7, <1>8, <1>9
    DEF SearchInv, Untried, NoneBad, OwnModel, CoarseInv, SweepInv, DoubleInv, BisectInv, Bracket

LEMMA GoodFineKeeps ==
    ASSUME SearchInv, NEW median \in Medians, GoodFine(median), UNCHANGED args
    PROVE  SearchInv'
  <1> USE SearchConstants
  <1>n. /\ rps \in Nat /\ rps >= 1 /\ last_good_rps \in Nat /\ baseline \in Nat
        /\ Measured /\ Rates \subseteq Nat /\ SearchTypeOK
    BY SearchNumbers DEF SearchInv
  <1>1. /\ phase = "fine" /\ Record("good") /\ KeepMedian(median)
        /\ rps' = rps + StepFine
        /\ phase' = IF rps + StepFine < EndFine THEN "fine" ELSE "ok"
        /\ last_good_rps' = last_good_rps /\ last_bad_rps' = last_bad_rps
    BY DEF GoodFine
  <1>2. /\ FirstFine <= rps /\ rps < EndFine /\ last_good_rps <= Capacity
        /\ \A r \in Rates : r < rps \/ r = EndFine
        /\ (last_good_rps = 0 /\ rps = StepFine) \/ Based
        /\ last_good_rps = 0 /\ rps = StepFine => \A r \in Rates : r = EndFine
        /\ args.experiment_model = "OpenSweep" /\ Lowest /\ last_bad_rps = 0
    BY <1>1 DEF SearchInv, FineInv, OwnModel, SweepInv, NoneBad
  <1>d. FirstFine = last_good_rps + StepFine /\ EndFine = last_good_rps + StepCoarse
    BY DEF FirstFine, EndFine
  <1>3. Rates' = Rates \cup {rps}
    BY <1>1, OneRateMore
  <1>4. ResetsMedian <=> rps = StepFine
    BY <1>1 DEF ResetsMedian
  <1>5. Lowest' /\ baseline' \in Rates' /\ baseline' <= rps
    <2>1. rps = StepFine => last_good_rps = 0
      BY <1>n, <1>2, <1>d
    <2>2. ResetsMedian => \A r \in Rates : rps <= r
      BY <1>n, <1>2, <1>4, <1>d, <2>1
    <2>3. ~ResetsMedian => Based
      BY <1>2, <1>4
    <2> QED
      BY <1>n, <1>1, <1>2, <2>2, <2>3, LowestKept
  <1>6. Measured'
    BY <1>n, <1>1, RecordKeeps DEF Verdicts
  <1>7. SearchTypeOK'
    <2>1. rps' \in 1..(2 * Capacity + StepCoarse + StepFine) /\ last_good_rps' \in 0..(Capacity + StepFine)
      BY <1>n, <1>1, <1>2, <1>d
    <2>2. baseline' \in Nat /\ median_latency' \in Medians \cup {0}
      BY <1>n, <1>1 DEF KeepMedian, SearchTypeOK
    <2> QED
      BY <1>n, <1>1, <1>6, <2>1, <2>2 DEF SearchTypeOK, Measured
  <1>8. FineInv'
    <2> SUFFICES ASSUME rps + StepFine < EndFine
                 PROVE  /\ FirstFine <= rps' /\ rps' < EndFine /\ last_good_rps <= Capacity
                        /\ \A r \in Rates' : r < rps' \/ r = EndFine
                        /\ baseline' \in Rates' /\ baseline' <= rps'
                        /\ rps' # StepFine
      BY <1>1, <1>2 DEF FineInv, FirstFine, EndFine, Based
    <2>1. \A r \in Rates' : r < rps' \/ r = EndFine
      BY <1>n, <1>1, <1>2, <1>3
    <2>2. baseline' \in Nat
      BY <1>7, SearchNumbers DEF SearchTypeOK
    <2>3. baseline' <= rps'
      BY <1>n, <1>1, <1>5, <2>2
    <2> QED
      BY <1>n, <1>1, <1>2, <1>5, <1>d, <2>1, <2>3
  <1>9. phase' \in {"fine", "ok"}
    BY <1>1
  <1> QED
    BY <1>1, <1>2, <1>5, <1>7, <1>8, <1>9
    DEF SearchInv, Untried, NoneBad, OwnModel, CoarseInv, SweepInv, DoubleInv, BisectInv, Bracket

LEMMA BadFineKeeps ==
    ASSUME SearchInv, NEW median \in Medians, BadFine(median), UNCHANGED args
    PROVE  SearchInv'
  <1> USE SearchConstants
  <1>n. /\ rps \in Nat /\ rps >= 1 /\ last_good_rps \in Nat /\ baseline \in Nat
        /\ Measured /\ Rates \subseteq Nat /\ SearchTypeOK
    BY SearchNumbers DEF SearchInv
  <1>1. /\ phase = "fine" /\ Record("bad") /\ KeepMedian(median) /\ phase' = "ok"
        /\ UNCHANGED <<rps, last_good_rps, last_bad_rps>>
    BY DEF BadFine
  <1>2. /\ FirstFine <= rps /\ rps < EndFine
        /\ (last_good_rps = 0 /\ rps = StepFine) \/ Based
        /\ last_good_rps = 0 /\ rps = StepFine => \A r \in Rates : r = EndFine
        /\ args.experiment_model = "OpenSweep" /\ Lowest /\ last_bad_rps = 0
    BY <1>1 DEF SearchInv, FineInv, OwnModel, SweepInv, NoneBad
  <1>d. FirstFine = last_good_rps + StepFine /\ EndFine = last_good_rps + StepCoarse
    BY DEF FirstFine, EndFine
  <1>4. ResetsMedian <=> rps = StepFine
    BY <1>1 DEF ResetsMedian
  <1>5. Lowest'
    <2>1. rps = StepFine => last_good_rps = 0
      BY <1>n, <1>2, <1>d
    <2>2. ResetsMedian => \A r \in Rates : rps <= r
      BY <1>n, <1>2, <1>4, <1>d, <2>1
    <2>3. ~ResetsMedian => Based
      BY <1>2, <1>4
    <2> QED
      BY <1>n, <1>1, <1>2, <2>2, <2>3, LowestKept
  <1>6. Measured'
    BY <1>n, <1>1, RecordKeeps DEF Verdicts
  <1>7. SearchTypeOK'
    <2>1. baseline' \in Nat /\ median_latency' \in Medians \cup {0}
      BY <1>n, <1>1 DEF KeepMedian, SearchTypeOK
    <2> QED
      BY <1>n, <1>1, <1>6, <2>1 DEF SearchTypeOK, Measured
  <1> QED
    BY <1>1, <1>2, <1>5, <1>7
    DEF SearchInv, Untried, NoneBad, OwnModel, CoarseInv, FineInv, SweepInv, DoubleInv,
        BisectInv, Bracket

LEMMA GoodDoubleKeeps ==
    ASSUME SearchInv, GoodDouble, UNCHANGED args
    PROVE  SearchInv'
  <1> USE SearchConstants
  <1>n. /\ rps \in Nat /\ rps >= 1 /\ last_good_rps \in Nat
        /\ Measured /\ Rates \subseteq Nat /\ SearchTypeOK
    BY SearchNumbers DEF SearchInv
  <1>1. /\ phase = "double" /\ rps <= Capacity /\ Record("good") /\ last_good_rps' = rps
        /\ rps' = 2 * rps /\ UNCHANGED <<phase, last_bad_rps, median_latency, baseline>>
    BY DEF GoodDouble, Sustained
  <1>2. Rates' = Rates \cup {rps} /\ rps \in With("good")'
    BY <1>1, OneRateMore
  <1>3. \A r \in Rates' : r <= rps
    BY <1>n, <1>1, <1>2 DEF SearchInv, DoubleInv
  <1>4. Measured'
    BY <1>n, <1>1, RecordKeeps DEF Verdicts
  <1>5. SearchTypeOK'
    <2>1. rps' \in 1..(2 * Capacity + StepCoarse + StepFine) /\ last_good_rps' \in 0..(Capacity + StepFine)
      BY <1>n, <1>1
    <2> QED
      BY <1>n, <1>1, <1>4, <2>1 DEF SearchTypeOK, Measured
  <1>6. DoubleInv'
    BY <1>n, <1>1, <1>2, <1>3 DEF DoubleInv
  <1>7. last_bad_rps = 0 /\ args.experiment_model # "OpenSweep"
    BY <1>1 DEF SearchInv, NoneBad, OwnModel
  <1> QED
    BY <1>1, <1>5, <1>6, <1>7
    DEF SearchInv, Untried, NoneBad, OwnModel, CoarseInv, FineInv, SweepInv, BisectInv, Bracket

(* Narrowing: good was good, bad was bad, and nothing between was measured. *)
LEMMA BisectKeeps ==
    ASSUME SearchInv, NEW v \in Verdicts, Record(v), UNCHANGED args,
           phase \in {"double", "bisect"},
           NEW good \in Nat, NEW bad \in Nat, Bisect(good, bad),
           good <= Capacity \/ good = StepFine, bad > 0, bad <= 2 * Capacity + StepCoarse + StepFine,
           bad \in With("bad")' \cup With("err")',
           \/ good = StepFine /\ bad = StepFine
           \/ good \in With("good")' /\ good <= Capacity /\ good < bad,
           \A r \in Rates' : r <= good \/ r >= bad
    PROVE  SearchInv'
  <1> USE SearchConstants
  <1>n. rps \in Nat /\ rps >= 1 /\ Measured /\ Rates \subseteq Nat /\ SearchTypeOK
    BY SearchNumbers DEF SearchInv
  <1>1. Measured'
    BY <1>n, RecordKeeps
  <1>2. /\ last_good_rps' = good /\ last_bad_rps' = bad
        /\ UNCHANGED <<median_latency, baseline>> /\ phase' \in {"bisect", "ok"}
    BY DEF Bisect
  <1>3. args.experiment_model # "OpenSweep"
    BY DEF SearchInv, OwnModel
  <1>4. CASE Wide(good, bad)
    <2>1. phase' = "bisect" /\ rps' = Middle(good, bad)
      BY <1>4 DEF Bisect
    <2>2. rps' \in Nat /\ good < rps' /\ rps' < bad
      BY <1>4, <2>1, Halfway
    <2>3. good + StepFine < bad
      BY <1>4 DEF Wide
    <2>4. good \in With("good")' /\ good <= Capacity
      BY <2>3
    <2>5. SearchTypeOK'
      <3>1. rps' \in 1..(2 * Capacity + StepCoarse + StepFine) /\ last_good_rps' \in 0..(Capacity + StepFine)
        BY <1>2, <2>2
      <3> QED
        BY <1>n, <1>1, <1>2, <2>1, <3>1 DEF SearchTypeOK, Measured
    <2>6. BisectInv' /\ Bracket'
      BY <1>2, <2>1, <2>2, <2>4 DEF BisectInv, Bracket
    <2> QED
      BY <1>2, <1>3, <2>1, <2>5, <2>6
      DEF SearchInv, Untried, NoneBad, OwnModel, CoarseInv, FineInv, SweepInv, DoubleInv
  <1>5. CASE ~Wide(good, bad)
    <2>1. phase' = "ok" /\ rps' = rps
      BY <1>5 DEF Bisect
    <2>2. bad <= good + StepFine
      BY <1>5 DEF Wide
    <2>3. SearchTypeOK'
      <3>1. last_good_rps' \in 0..(Capacity + StepFine)
        BY <1>2
      <3> QED
        BY <1>n, <1>1, <1>2, <2>1, <3>1 DEF SearchTypeOK, Measured
    <2>4. Bracket'
      BY <1>2, <2>1, <2>2 DEF Bracket
    <2> QED
      BY <1>2, <1>3, <2>1, <2>3, <2>4
      DEF SearchInv, Untried, NoneBad, OwnModel, CoarseInv, FineInv, SweepInv, DoubleInv,
          BisectInv
  <1> QED
    BY <1>4, <1>5

LEMMA AdaptiveKeeps ==
    ASSUME SearchInv, UNCHANGED args, BadDouble \/ GoodBisect \/ \E v \in {"bad", "err"} : BadBisect(v)
    PROVE  SearchInv'
  <1> USE SearchConstants
  <1>n. /\ rps \in Nat /\ rps >= 1 /\ rps <= 2 * Capacity + StepCoarse + StepFine
        /\ last_good_rps \in Nat /\ last_bad_rps \in Nat
        /\ Measured /\ Rates \subseteq Nat /\ SearchTypeOK
    BY SearchNumbers DEF SearchInv
  <1>1. CASE BadDouble
    <2>1. phase = "double" /\ Record("bad") /\ Bisect(last_good_rps, rps)
      BY <1>1 DEF BadDouble
    <2>2. Rates' = Rates \cup {rps} /\ rps \in With("bad")' /\ With("good")' = With("good")
      BY <2>1, OneRateMore
    <2>3. CASE rps = StepFine /\ last_good_rps = StepFine /\ Rates = {}
      <3>1. \A r \in Rates' : r <= last_good_rps \/ r >= rps
        BY <1>n, <2>2, <2>3
      <3> QED
        BY <1>n, <2>1, <2>2, <2>3, <3>1, BisectKeeps DEF Verdicts
    <2>4. CASE /\ rps = 2 * last_good_rps /\ last_good_rps <= Capacity
               /\ last_good_rps \in With("good") /\ last_good_rps >= 1
               /\ \A r \in Rates : r <= last_good_rps
      <3>1. \A r \in Rates' : r <= last_good_rps \/ r >= rps
        BY <1>n, <2>2, <2>4
      <3>2. last_good_rps < rps
        BY <1>n, <2>4
      <3> QED
        BY <1>n, <2>1, <2>2, <2>4, <3>1, <3>2, BisectKeeps DEF Verdicts
    <2> QED
      BY <2>1, <2>3, <2>4 DEF SearchInv, DoubleInv
  <1>2. CASE phase = "bisect"
    <2>1. /\ last_good_rps \in With("good") /\ last_good_rps <= Capacity
          /\ last_good_rps < rps /\ rps < last_bad_rps
          /\ last_bad_rps <= 2 * Capacity + StepCoarse + StepFine
          /\ last_bad_rps \in With("bad") \cup With("err")
          /\ \A r \in Rates : r <= last_good_rps \/ r >= last_bad_rps
      BY <1>2 DEF SearchInv, BisectInv
    <2>2. CASE GoodBisect
      <3>1. Record("good") /\ Bisect(rps, last_bad_rps) /\ rps <= Capacity
        BY <2>2 DEF GoodBisect, Sustained
      <3>2. /\ Rates' = Rates \cup {rps} /\ rps \in With("good")'
            /\ With("bad")' = With("bad") /\ With("err")' = With("err")
        BY <3>1, OneRateMore
      <3>3. \A r \in Rates' : r <= rps \/ r >= last_bad_rps
        BY <1>n, <2>1, <3>2
      <3>4. last_bad_rps > 0
        BY <1>n, <2>1
      <3> QED
        BY <1>n, <1>2, <2>1, <3>1, <3>2, <3>3, <3>4, BisectKeeps DEF Verdicts
    <2>3. ASSUME NEW v \in {"bad", "err"}, BadBisect(v) PROVE SearchInv'
      <3>1. Record(v) /\ Bisect(last_good_rps, rps)
        BY <2>3 DEF BadBisect
      <3>2. /\ Rates' = Rates \cup {rps} /\ rps \in With("bad")' \cup With("err")'
            /\ With("good")' = With("good")
        BY <3>1, OneRateMore
      <3>3. \A r \in Rates' : r <= last_good_rps \/ r >= rps
        BY <1>n, <2>1, <3>2
      <3> QED
        BY <1>n, <1>2, <2>1, <3>1, <3>2, <3>3, BisectKeeps DEF Verdicts
    <2> QED
      BY <1>2, <2>2, <2>3 DEF BadDouble
  <1> QED
    BY <1>1, <1>2 DEF GoodBisect, BadBisect

LEMMA RunFailsKeeps ==
    ASSUME SearchInv, RunFails, UNCHANGED args
    PROVE  SearchInv'
  <1>n. rps \in Nat /\ Measured /\ SearchTypeOK
    BY SearchNumbers DEF SearchInv
  <1>1. /\ phase \in {"coarse", "fine", "double"} /\ phase' = "err" /\ Record("err")
        /\ UNCHANGED <<rps, last_good_rps, last_bad_rps, median_latency, baseline>>
    BY DEF RunFails
  <1>2. Measured'
    BY <1>n, <1>1, RecordKeeps DEF Verdicts
  <1>3. SearchTypeOK'
    BY <1>n, <1>1, <1>2 DEF SearchTypeOK, Measured
  <1>4. last_bad_rps = 0
    BY <1>1 DEF SearchInv, NoneBad
  <1>5. SweepInv'
    <2> SUFFICES ASSUME args.experiment_model = "OpenSweep", NEW m \in measured',
                        m.verdict # "err"
                 PROVE  baseline <= m.rate /\ baseline \in Rates'
      BY <1>1 DEF SweepInv, Lowest
    <2>1. m \in measured
      BY <1>1 DEF Record
    <2>2. baseline <= m.rate /\ baseline \in Rates
      BY <2>1 DEF SearchInv, SweepInv, Lowest
    <2> QED
      BY <1>1, <2>2, OneRateMore
  <1> QED
    BY <1>1, <1>3, <1>4, <1>5
    DEF SearchInv, Untried, NoneBad, OwnModel, CoarseInv, FineInv, DoubleInv, BisectInv, Bracket

LEMMA RunPanicsKeeps ==
    ASSUME SearchInv, RunPanics, UNCHANGED args
    PROVE  SearchInv'
  <1>1. /\ phase' = "panicked"
        /\ UNCHANGED <<rps, last_good_rps, last_bad_rps, median_latency, baseline, measured>>
    BY DEF RunPanics
  <1>2. Rates' = Rates /\ With("good")' = With("good") /\ With("bad")' = With("bad")
        /\ With("err")' = With("err")
    BY <1>1 DEF Rates, With
  <1>3. SearchTypeOK'
    BY <1>1 DEF SearchInv, SearchTypeOK
  <1>4. SweepInv' /\ Bracket'
    BY <1>1, <1>2 DEF SearchInv, SweepInv, Lowest, Bracket
  <1> QED
    BY <1>1, <1>3, <1>4
    DEF SearchInv, Untried, NoneBad, OwnModel, CoarseInv, FineInv, DoubleInv, BisectInv

LEMMA SearchStepKeeps ==
    ASSUME SearchInv, SearchStep, UNCHANGED args
    PROVE  SearchInv'
  BY GoodCoarseKeeps, BadCoarseKeeps, GoodFineKeeps, BadFineKeeps, GoodDoubleKeeps,
     AdaptiveKeeps, RunFailsKeeps, RunPanicsKeeps
  DEF SearchStep, AdaptiveStep, SweepStep

LEMMA SearchStays ==
    ASSUME SearchInv, UNCHANGED <<args, searchVars>>
    PROVE  SearchInv'
  <1> USE DEF searchVars
  <1>1. SearchTypeOK' /\ Untried' /\ NoneBad' /\ OwnModel'
    BY DEF SearchInv, SearchTypeOK, Untried, NoneBad, OwnModel
  <1>2. Rates' = Rates /\ With("good")' = With("good") /\ With("bad")' = With("bad")
        /\ With("err")' = With("err")
    BY DEF Rates, With
  <1>3. CoarseInv' /\ FineInv'
    BY <1>2 DEF SearchInv, CoarseInv, FineInv, Based, FirstFine, EndFine
  <1>4. SweepInv' /\ DoubleInv' /\ BisectInv' /\ Bracket'
    BY <1>2 DEF SearchInv, SweepInv, Lowest, DoubleInv, BisectInv, Bracket
  <1> QED
    BY <1>1, <1>3, <1>4 DEF SearchInv

LEMMA SearchInitially == SearchInit => SearchInv
  <1> SUFFICES ASSUME SearchInit PROVE SearchInv
    OBVIOUS
  <1>1. SearchTypeOK
    BY SearchConstants DEF SearchInit, SearchTypeOK
  <1>2. measured = {} /\ phase = "idle" /\ last_bad_rps = 0
    BY DEF SearchInit
  <1>3. Untried
    BY DEF SearchInit, Untried
  <1> QED
    BY <1>1, <1>2, <1>3
    DEF SearchInv, NoneBad, OwnModel, CoarseInv, FineInv, SweepInv, Lowest, DoubleInv,
        BisectInv, Bracket

LEMMA SweepBegins ==
    ASSUME SearchInv, phase = "idle", BeginSweep, UNCHANGED args,
           args.experiment_model = "OpenSweep"
    PROVE  SearchInv'
  <1> USE SearchConstants
  <1>1. /\ phase' = "coarse" /\ rps' = StepCoarse
        /\ UNCHANGED <<last_good_rps, last_bad_rps, median_latency, baseline, measured>>
        /\ last_good_rps = 0 /\ measured = {} /\ last_bad_rps = 0 /\ SearchTypeOK
    BY DEF BeginSweep, SearchInv, Untried, NoneBad
  <1>2. SearchTypeOK'
    BY <1>1 DEF SearchTypeOK
  <1>3. Rates' = {}
    BY <1>1 DEF Rates
  <1> QED
    BY <1>1, <1>2, <1>3
    DEF SearchInv, Untried, NoneBad, OwnModel, CoarseInv, FineInv, SweepInv, Lowest,
        DoubleInv, BisectInv, Bracket

LEMMA AdaptiveBegins ==
    ASSUME SearchInv, phase = "idle", BeginAdaptive, UNCHANGED args,
           args.experiment_model = "OpenAdaptive"
    PROVE  SearchInv'
  <1> USE SearchConstants
  <1>1. /\ phase' = "double" /\ rps' = StepFine /\ last_good_rps' = StepFine
        /\ UNCHANGED <<last_bad_rps, median_latency, baseline, measured>>
        /\ measured = {} /\ last_bad_rps = 0 /\ SearchTypeOK
    BY DEF BeginAdaptive, SearchInv, Untried, NoneBad
  <1>2. SearchTypeOK'
    BY <1>1 DEF SearchTypeOK
  <1>3. Rates' = {}
    BY <1>1 DEF Rates
  <1> QED
    BY <1>1, <1>2, <1>3
    DEF SearchInv, Untried, NoneBad, OwnModel, CoarseInv, FineInv, SweepInv, Lowest,
        DoubleInv, BisectInv, Bracket

(* What follows.                                                            *)
LEMMA SearchMeans == SearchInv => EachRateOnce /\ Bracketed /\ BaselineIsLowest
  <1> SUFFICES ASSUME SearchInv PROVE EachRateOnce /\ Bracketed /\ BaselineIsLowest
    OBVIOUS
  <1> USE SearchConstants
  <1>n. /\ rps \in Nat /\ rps >= 1 /\ last_good_rps \in Nat /\ last_bad_rps \in Nat
        /\ Rates \subseteq Nat
    BY SearchNumbers DEF SearchInv
  <1>1. EachRateOnce
    <2>1. phase = "coarse" => rps \notin Rates
      BY <1>n DEF SearchInv, CoarseInv
    <2>2. phase = "fine" => rps \notin Rates
      BY <1>n DEF SearchInv, FineInv, FirstFine, EndFine
    <2>3. phase = "double" => rps \notin Rates
      BY <1>n DEF SearchInv, DoubleInv
    <2>4. phase = "bisect" => rps \notin Rates
      BY <1>n DEF SearchInv, BisectInv
    <2> QED
      BY <2>1, <2>2, <2>3, <2>4 DEF EachRateOnce
  <1>2. Bracketed
    BY DEF SearchInv, Bracket, Bracketed
  <1>3. BaselineIsLowest
    <2> SUFFICES ASSUME args.experiment_model = "OpenSweep", NEW r \in Rates \ With("err")
                 PROVE  baseline <= r /\ baseline \in Rates
      BY DEF BaselineIsLowest
    <2>1. PICK m \in measured : m.rate = r
      BY DEF Rates
    <2>2. m.verdict # "err"
      BY <2>1 DEF With
    <2> QED
      BY <2>1, <2>2 DEF SearchInv, SweepInv, Lowest
  <1> QED
    BY <1>1, <1>2, <1>3

-------------------------------------------------------------------------------
(* Registrations.                                                           *)

LEMMA FlattenOne ==
    ASSUME NEW f, Len(f) = 1
    PROVE  FlattenSeq(f) = f[1]
  <1> DEFINE step(g) == [i \in 1..1 |-> IF i = 1 THEN f[i] ELSE g[i - 1] \o f[i]]
             h == [i \in 1..1 |-> f[1]]
  <1>1. h = step(h)
    OBVIOUS
  <1>2. \A g : g = step(g) => g[1] = f[1]
    OBVIOUS
  <1>3. FlattenSeq(f) = (CHOOSE g : g = step(g))[1]
    BY DEF FlattenSeq
  <1> HIDE DEF step, h
  <1> QED
    BY <1>1, <1>2, <1>3

LEMMA FlattenThree ==
    ASSUME NEW f, Len(f) = 3
    PROVE  FlattenSeq(f) = (f[1] \o f[2]) \o f[3]
  <1> DEFINE step(g) == [i \in 1..3 |-> IF i = 1 THEN f[i] ELSE g[i - 1] \o f[i]]
             two == f[1] \o f[2]
             h == [i \in 1..3 |-> IF i = 1 THEN f[1] ELSE IF i = 2 THEN two ELSE two \o f[3]]
  <1>1. h = step(h)
    <2>1. h[1] = f[1] /\ h[2] = two /\ h[3] = two \o f[3]
      OBVIOUS
    <2>2. step(h)[1] = f[1] /\ step(h)[2] = h[1] \o f[2] /\ step(h)[3] = h[2] \o f[3]
      OBVIOUS
    <2>3. \A i \in 1..3 : h[i] = step(h)[i]
      <3>1. \A i \in 1..3 : i = 1 \/ i = 2 \/ i = 3
        OBVIOUS
      <3> HIDE DEF h, step
      <3> QED
        BY <2>1, <2>2, <3>1
    <2> QED
      BY <2>3
  <1>2. ASSUME NEW g, g = step(g) PROVE g[3] = (f[1] \o f[2]) \o f[3]
    <2>1. step(g)[1] = f[1] /\ step(g)[2] = g[1] \o f[2] /\ step(g)[3] = g[2] \o f[3]
      OBVIOUS
    <2> HIDE DEF step
    <2> QED
      BY <1>2, <2>1
  <1>3. FlattenSeq(f) = (CHOOSE g : g = step(g))[3]
    BY DEF FlattenSeq
  <1> HIDE DEF step, h
  <1> QED
    BY <1>1, <1>2, <1>3

Bases == RequestTypes \cup {"handle", "fan_out", "render"}
Names == [kind : {"function", "composition"}, base : Bases, copy : Int]
CopyNumbers == -1..(args.cold_instances - 1)

LEMMA RangeOfConcat ==
    ASSUME NEW S, NEW s \in Seq(S), NEW t \in Seq(S)
    PROVE  /\ s \o t \in Seq(S) /\ Range(s \o t) = Range(s) \cup Range(t)
           /\ Len(s) \in Nat /\ Len(t) \in Nat /\ Len(s \o t) = Len(s) + Len(t)
           /\ \A i \in 1..Len(s) : (s \o t)[i] = s[i]
           /\ \A i \in 1..Len(s \o t) : i > Len(s) => (s \o t)[i] \in Range(t)
  <1>1. /\ s \o t \in Seq(S) /\ Len(s) \in Nat /\ Len(t) \in Nat
        /\ Len(s \o t) = Len(s) + Len(t)
        /\ DOMAIN s = 1..Len(s) /\ DOMAIN t = 1..Len(t)
        /\ DOMAIN (s \o t) = 1..(Len(s) + Len(t))
        /\ \A i \in 1..Len(s) : (s \o t)[i] = s[i]
        /\ \A i \in 1..(Len(s) + Len(t)) : i > Len(s) => (s \o t)[i] = t[i - Len(s)]
    BY ConcatProperties, LenProperties
  <1>2. \A i \in 1..(Len(s) + Len(t)) : i > Len(s) => i - Len(s) \in 1..Len(t)
    BY <1>1
  <1>3. \A i \in 1..Len(s \o t) : i > Len(s) => (s \o t)[i] \in Range(t)
    BY <1>1, <1>2 DEF Range
  <1>4. Range(s \o t) \subseteq Range(s) \cup Range(t)
    <2> SUFFICES ASSUME NEW i \in 1..(Len(s) + Len(t))
                 PROVE  (s \o t)[i] \in Range(s) \cup Range(t)
      BY <1>1 DEF Range
    <2>1. CASE i > Len(s)
      BY <1>1, <1>3, <2>1
    <2>2. CASE i \in 1..Len(s)
      BY <1>1, <2>2 DEF Range
    <2> QED
      BY <1>1, <2>1, <2>2
  <1>5. Range(s) \subseteq Range(s \o t)
    <2>1. \A i \in 1..Len(s) : i \in 1..(Len(s) + Len(t))
      BY <1>1
    <2> QED
      BY <1>1, <2>1 DEF Range
  <1>6. Range(t) \subseteq Range(s \o t)
    <2> SUFFICES ASSUME NEW i \in 1..Len(t) PROVE t[i] \in Range(s \o t)
      BY <1>1 DEF Range
    <2> DEFINE k == Len(s) + i
    <2>1. k \in 1..(Len(s) + Len(t)) /\ k > Len(s) /\ k - Len(s) = i
      BY <1>1
    <2> HIDE DEF k
    <2>2. (s \o t)[k] = t[i]
      BY <1>1, <2>1
    <2> QED
      BY <1>1, <2>1, <2>2 DEF Range
  <1> QED
    BY <1>1, <1>3, <1>4, <1>5, <1>6

(* format_name yields the hot copy and as many cold ones as there are       *)
(* instances, numbered from 0.                                              *)
LEMMA CopiesAre ==
    ASSUME args.cold_instances \in Nat, NEW kind \in {"function", "composition"},
           NEW base \in Bases
    PROVE  /\ Copies(kind, base) \in Seq(Names)
           /\ Range(Copies(kind, base)) = {Name(kind, base, c) : c \in CopyNumbers}
  <1> DEFINE n == args.cold_instances
             hot == <<Name(kind, base, Hot)>>
             cold == [i \in 1..n |-> Name(kind, base, i - 1)]
  <1>1. \A c \in Int : Name(kind, base, c) \in Names
    BY DEF Name, Names
  <1>2. Hot \in Int /\ Hot = -1
    BY DEF Hot
  <1>3. hot \in Seq(Names)
    <2>1. Name(kind, base, Hot) \in Names
      BY <1>1, <1>2
    <2> QED
      BY <2>1
  <1>4. Range(hot) = {Name(kind, base, Hot)}
    BY DEF Range
  <1>5. cold \in Seq(Names)
    BY <1>1
  <1>6. Range(cold) = {Name(kind, base, c) : c \in 0..(n - 1)}
    <2>1. Range(cold) = {Name(kind, base, i - 1) : i \in 1..n}
      BY DEF Range
    <2>2. \A i \in 1..n : i - 1 \in 0..(n - 1)
      OBVIOUS
    <2>3. \A c \in 0..(n - 1) : c + 1 \in 1..n /\ (c + 1) - 1 = c
      OBVIOUS
    <2> HIDE DEF cold, n
    <2>4. {Name(kind, base, i - 1) : i \in 1..n} \subseteq {Name(kind, base, c) : c \in 0..(n - 1)}
      BY <2>2
    <2>5. ASSUME NEW c \in 0..(n - 1)
          PROVE  Name(kind, base, c) \in {Name(kind, base, i - 1) : i \in 1..n}
      <3>1. PICK i \in 1..n : i - 1 = c
        BY <2>3
      <3> QED
        BY <3>1
    <2> QED
      BY <2>1, <2>4, <2>5
  <1>7. Copies(kind, base) = hot \o cold
    BY DEF Copies
  <1>8. CopyNumbers = {Hot} \cup 0..(n - 1)
    BY <1>2 DEF CopyNumbers
  <1> HIDE DEF hot, cold, n
  <1>9. Copies(kind, base) \in Seq(Names) /\ Range(Copies(kind, base)) = Range(hot) \cup Range(cold)
    BY <1>3, <1>5, <1>7, RangeOfConcat
  <1> QED
    BY <1>4, <1>6, <1>8, <1>9

LEMMA FunctionNamesAre ==
    ASSUME args.cold_instances \in Nat
    PROVE  /\ FunctionNames \in Seq(Names)
           /\ Range(FunctionNames)
                = {Name("function", b, c) : b \in Range(Functions), c \in CopyNumbers}
  <1> DEFINE C(b) == Copies("function", b)
             all == [i \in 1..Len(Functions) |-> C(Functions[i])]
  <1>1. \A b \in Bases : /\ C(b) \in Seq(Names)
                        /\ Range(C(b)) = {Name("function", b, c) : c \in CopyNumbers}
    BY CopiesAre
  <1>2. FunctionNames = FlattenSeq(all)
    BY DEF FunctionNames
  <1>3. CASE Functions = <<"Matmul">>
    <2>1. Len(Functions) = 1 /\ Functions[1] = "Matmul" /\ Range(Functions) = {"Matmul"}
      BY <1>3 DEF Range
    <2>2. Len(all) = 1 /\ all[1] = C("Matmul") /\ "Matmul" \in Bases
      BY <2>1 DEF Bases, RequestTypes
    <2> HIDE DEF all, C
    <2>3. FunctionNames = C("Matmul")
      BY <1>2, <2>2, FlattenOne
    <2> QED
      BY <1>1, <2>1, <2>2, <2>3
  <1>4. CASE Functions = <<"handle", "fan_out", "render">>
    <2>1. /\ Len(Functions) = 3 /\ Functions[1] = "handle" /\ Functions[2] = "fan_out"
          /\ Functions[3] = "render"
      BY <1>4
    <2>2. Range(Functions) = {"handle", "fan_out", "render"}
      <3>1. DOMAIN Functions = 1..3
        BY <1>4
      <3>2. \A i \in 1..3 : i = 1 \/ i = 2 \/ i = 3
        OBVIOUS
      <3> QED
        BY <2>1, <3>1, <3>2 DEF Range
    <2>3. /\ Len(all) = 3 /\ all[1] = C("handle") /\ all[2] = C("fan_out")
          /\ all[3] = C("render")
      BY <2>1
    <2>4. {"handle", "fan_out", "render"} \subseteq Bases
      BY DEF Bases
    <2> HIDE DEF all, C
    <2>5. FunctionNames = (C("handle") \o C("fan_out")) \o C("render")
      BY <1>2, <2>3, FlattenThree
    <2>6. /\ C("handle") \o C("fan_out") \in Seq(Names)
          /\ Range(C("handle") \o C("fan_out")) = Range(C("handle")) \cup Range(C("fan_out"))
      BY <1>1, <2>4, RangeOfConcat
    <2>7. /\ FunctionNames \in Seq(Names)
          /\ Range(FunctionNames)
               = (Range(C("handle")) \cup Range(C("fan_out"))) \cup Range(C("render"))
      <3> DEFINE two == C("handle") \o C("fan_out")
                 last == C("render")
      <3>1. two \in Seq(Names) /\ last \in Seq(Names)
        BY <1>1, <2>4, <2>6
      <3>2. FunctionNames = two \o last
        BY <2>5
      <3>3. Range(two) = Range(C("handle")) \cup Range(C("fan_out")) /\ Range(last) = Range(C("render"))
        BY <2>6
      <3> HIDE DEF two, last
      <3>4. two \o last \in Seq(Names) /\ Range(two \o last) = Range(two) \cup Range(last)
        BY <3>1, RangeOfConcat
      <3> QED
        BY <3>2, <3>3, <3>4
    <2> QED
      BY <1>1, <2>2, <2>4, <2>7
  <1> QED
    BY <1>3, <1>4 DEF Functions

(* What tokio_main registers, and in which order.                           *)
LEMMA RegistrationsAre ==
    ASSUME args \in AllArgs
    PROVE  /\ Len(Registrations) \in Nat
           /\ Registers =>
                /\ FunctionNames \in Seq(Names) /\ Len(FunctionNames) \in Nat
                /\ Registrations = FunctionNames \o Copies("composition", args.request_type)
                /\ Range(Registrations)
                     = Range(FunctionNames)
                         \cup {Name("composition", args.request_type, c) : c \in CopyNumbers}
                /\ DOMAIN Registrations = 1..Len(Registrations)
                /\ \A i \in 1..Len(FunctionNames) :
                     Registrations[i] = FunctionNames[i] /\ i <= Len(Registrations)
                /\ \A i \in 1..Len(Registrations) :
                     i > Len(FunctionNames) =>
                       \E c \in CopyNumbers :
                         Registrations[i] = Name("composition", args.request_type, c)
  <1>1. args.cold_instances \in Nat /\ args.request_type \in Bases
    BY DEF AllArgs, Bases
  <1>2. CASE ~Registers
    <2>1. Len(Registrations) = 0
      BY <1>2 DEF Registrations
    <2> QED
      BY <1>2, <2>1
  <1>3. CASE Registers
    <2> DEFINE F == FunctionNames
               C == Copies("composition", args.request_type)
               R == Registrations
    <2>1. R = F \o C
      BY <1>3 DEF Registrations
    <2>2. F \in Seq(Names)
      BY <1>1, FunctionNamesAre
    <2>3. /\ C \in Seq(Names)
          /\ Range(C) = {Name("composition", args.request_type, c) : c \in CopyNumbers}
      BY <1>1, CopiesAre
    <2> HIDE DEF F, C, R
    <2>4. /\ R \in Seq(Names) /\ Range(R) = Range(F) \cup Range(C)
          /\ Len(F) \in Nat /\ Len(C) \in Nat /\ Len(R) = Len(F) + Len(C)
          /\ \A i \in 1..Len(F) : R[i] = F[i]
          /\ \A i \in 1..Len(R) : i > Len(F) => R[i] \in Range(C)
      <3>1. /\ F \o C \in Seq(Names) /\ Range(F \o C) = Range(F) \cup Range(C)
            /\ Len(F) \in Nat /\ Len(C) \in Nat /\ Len(F \o C) = Len(F) + Len(C)
            /\ \A i \in 1..Len(F) : (F \o C)[i] = F[i]
            /\ \A i \in 1..Len(F \o C) : i > Len(F) => (F \o C)[i] \in Range(C)
        BY <2>2, <2>3, RangeOfConcat
      <3> QED
        BY <2>1, <3>1
    <2>5. Len(R) \in Nat /\ DOMAIN R = 1..Len(R)
      BY <2>4, LenProperties
    <2>6. \A i \in 1..Len(F) : i <= Len(R)
      BY <2>4
    <2>7. \A i \in 1..Len(R) : i > Len(F) =>
             \E c \in CopyNumbers : R[i] = Name("composition", args.request_type, c)
      BY <2>3, <2>4
    <2> QED
      BY <2>1, <2>2, <2>3, <2>4, <2>5, <2>6, <2>7 DEF F, C, R
  <1> QED
    BY <1>2, <1>3

LEMMA RegistrationsStay ==
    ASSUME UNCHANGED args
    PROVE  /\ Registrations' = Registrations /\ Registers' = Registers
           /\ Drawable' = Drawable /\ Enough' = Enough
  BY DEF Registrations, Registers, FunctionNames, Copies, Functions, Drawable, Enough

-------------------------------------------------------------------------------
(* The whole client.  No load before the set-up is done: the closed loop    *)
(* starts from its first state, whether for the pretest or the experiment,  *)
(* and the search from its own.                                             *)
SetUpTypes ==
    /\ args \in Commands
    /\ stage \in Stages
    /\ posted \in 0..Len(Registrations)
    /\ refused \subseteq 1..posted
NoLoadYet ==
    /\ stage \in {"service", "storage", "register"} => loop = "idle" /\ client_number = 1
    /\ stage \in {"service", "storage", "register", "pretest"} => phase = "idle"
    /\ stage = "pretest" => args.experiment_model = "OpenAdaptive"
SetUpFirst ==
    /\ stage \in {"pretest", "experiment"} => Registered
    /\ stage # "panicked" => Enough
MainInv == SetUpTypes /\ NoLoadYet /\ SetUpFirst /\ LoopInv /\ SearchInv

LEMMA MainInit == Init => MainInv
  <1> SUFFICES ASSUME Init PROVE MainInv
    OBVIOUS
  <1>1. args \in AllArgs
    BY ArgsAssumption DEF Init
  <1>2. Len(Registrations) \in Nat
    BY <1>1, RegistrationsAre
  <1>3. SetUpTypes
    BY <1>2 DEF Init, SetUpTypes, Stages
  <1>4. LoopInv /\ SearchInv
    BY LoopInitially, SearchInitially DEF Init
  <1>5. NoLoadYet /\ SetUpFirst
    BY DEF Init, LoopInit, SearchInit, NoLoadYet, SetUpFirst
  <1> QED
    BY <1>3, <1>4, <1>5 DEF MainInv

(* A step of the set-up that starts no load.                                *)
LEMMA SetUpSteps ==
    ASSUME MainInv, UNCHANGED <<args, loopVars, searchVars>>, SetUpTypes', SetUpFirst',
           stage' \in {"service", "storage", "register"} =>
             stage \in {"service", "storage", "register"},
           stage' # "pretest"
    PROVE  MainInv'
  <1>1. LoopInv' /\ SearchInv'
    BY LoopStays, SearchStays DEF MainInv
  <1>2. NoLoadYet'
    BY DEF MainInv, NoLoadYet, loopVars, peakVars, searchVars
  <1> QED
    BY <1>1, <1>2 DEF MainInv

(* A step of the load.                                                      *)
LEMMA LoadSteps ==
    ASSUME MainInv, UNCHANGED <<args, setupVars>>,
           stage \in {"pretest", "experiment"}, LoopInv', SearchInv',
           stage = "pretest" => phase' = phase
    PROVE  MainInv'
  <1>1. Registrations' = Registrations /\ Enough' = Enough
    BY RegistrationsStay
  <1>2. SetUpTypes' /\ SetUpFirst'
    BY <1>1 DEF MainInv, SetUpTypes, SetUpFirst, Registered, setupVars
  <1>3. NoLoadYet'
    BY DEF MainInv, NoLoadYet, setupVars
  <1> QED
    BY <1>2, <1>3 DEF MainInv

LEMMA SetUpKeeps ==
    ASSUME MainInv, SetUp
    PROVE  MainInv'
  <1>r. /\ args \in AllArgs /\ Len(Registrations) \in Nat
    BY ArgsAssumption, RegistrationsAre DEF MainInv, SetUpTypes
  <1>t. /\ args \in Commands /\ posted \in 0..Len(Registrations) /\ refused \subseteq 1..posted
        /\ stage \in Stages /\ (stage # "panicked" => Enough)
    BY DEF MainInv, SetUpTypes, SetUpFirst
  <1>a. args' = args
    BY DEF SetUp, ServiceReady, StorageReady, NotReady, Panic, Register, RegisterPanics, SetUpDone
  <1>s. Registrations' = Registrations /\ Enough' = Enough
    BY <1>a, RegistrationsStay
  <1>1. CASE ServiceReady \/ StorageReady
    <2>1. /\ stage \in {"service", "storage"} /\ stage' \in {"storage", "register"}
          /\ UNCHANGED <<args, posted, refused, loopVars, searchVars>>
      BY <1>1 DEF ServiceReady, StorageReady
    <2>2. SetUpTypes' /\ SetUpFirst'
      BY <1>t, <1>s, <2>1 DEF SetUpTypes, SetUpFirst, Stages
    <2> QED
      BY <2>1, <2>2, SetUpSteps
  <1>2. CASE NotReady \/ RegisterPanics
    <2>1. stage' = "panicked" /\ UNCHANGED <<args, posted, refused, loopVars, searchVars>>
      BY <1>2 DEF NotReady, RegisterPanics, Panic
    <2>2. SetUpTypes' /\ SetUpFirst'
      BY <1>t, <1>s, <2>1 DEF SetUpTypes, SetUpFirst, Stages
    <2> QED
      BY <2>1, <2>2, SetUpSteps
  <1>3. ASSUME NEW ok \in BOOLEAN, Register(ok) PROVE MainInv'
    <2>1. /\ stage = "register" /\ posted < Len(Registrations) /\ posted' = posted + 1
          /\ refused' \in {refused, refused \cup {posted + 1}}
          /\ UNCHANGED <<args, stage, loopVars, searchVars>>
      BY <1>3 DEF Register
    <2>2. posted' \in 0..Len(Registrations) /\ refused' \subseteq 1..posted'
      BY <1>r, <1>t, <2>1
    <2>3. SetUpTypes' /\ SetUpFirst'
      BY <1>t, <1>s, <2>1, <2>2 DEF SetUpTypes, SetUpFirst
    <2> QED
      BY <2>1, <2>3, SetUpSteps
  <1>4. CASE SetUpDone
    <2>1. stage = "register" /\ Registered /\ UNCHANGED <<args, posted, refused>>
      BY <1>4 DEF SetUpDone
    <2>2. LoopInv /\ SearchInv /\ loop = "idle" /\ client_number = 1 /\ phase = "idle"
      BY <2>1 DEF MainInv, NoLoadYet
    <2>3. stage' \in {"pretest", "experiment"}
      BY <1>4 DEF SetUpDone
    <2>4. SetUpTypes' /\ SetUpFirst'
      BY <1>t, <1>s, <2>1, <2>3 DEF SetUpTypes, SetUpFirst, Stages, Registered
    <2>5. CASE /\ args.experiment_model = "OpenAdaptive" /\ stage' = "pretest"
               /\ StartMeasurement(1)
               /\ UNCHANGED <<last_throughput, repetition, files, searchVars>>
      <3>1. LoopInv' /\ SearchInv'
        BY <2>1, <2>2, <2>5, FirstMeasurement, SearchStays
      <3>2. NoLoadYet'
        BY <2>1, <2>2, <2>5 DEF NoLoadYet, searchVars
      <3> QED
        BY <2>4, <3>1, <3>2 DEF MainInv
    <2>6. CASE args.experiment_model # "OpenAdaptive" /\ stage' = "experiment" /\ Begin
      <3>1. LoopInv' /\ SearchInv'
        <4>1. CASE BeginSweep /\ UNCHANGED loopVars /\ args.experiment_model = "OpenSweep"
          BY <2>1, <2>2, <4>1, LoopStays, SweepBegins
        <4>2. CASE UNCHANGED <<loopVars, searchVars>>
          BY <2>1, <2>2, <4>2, LoopStays, SearchStays
        <4>3. CASE /\ StartMeasurement(1)
                   /\ UNCHANGED <<last_throughput, repetition, files, searchVars>>
          BY <2>1, <2>2, <4>3, FirstMeasurement, SearchStays
        <4> QED
          BY <2>6, <4>1, <4>2, <4>3 DEF Begin
      <3>2. NoLoadYet'
        BY <2>6 DEF NoLoadYet
      <3> QED
        BY <2>4, <3>1, <3>2 DEF MainInv
    <2> QED
      BY <1>4, <2>5, <2>6 DEF SetUpDone
  <1> QED
    BY <1>1, <1>2, <1>3, <1>4 DEF SetUp

LEMMA PretestKeeps ==
    ASSUME MainInv, Pretest \/ PretestDone \/ PretestFails
    PROVE  MainInv'
  <1>t. /\ args \in Commands /\ posted \in 0..Len(Registrations) /\ refused \subseteq 1..posted
        /\ stage \in Stages /\ (stage # "panicked" => Enough) /\ LoopInv /\ SearchInv
    BY DEF MainInv, SetUpTypes, SetUpFirst
  <1>1. CASE Pretest
    <2>1. stage = "pretest" /\ UNCHANGED <<args, setupVars, searchVars>> /\ PeakStep
      BY <1>1 DEF Pretest, PeakStep
    <2>2. LoopInv' /\ SearchInv' /\ phase' = phase
      BY <1>t, <2>1, PeakStepKeeps, SearchStays DEF searchVars
    <2> QED
      BY <2>1, <2>2, LoadSteps
  <1>2. CASE PretestDone
    <2>1. /\ stage = "pretest" /\ stage' = "experiment" /\ Begin
          /\ UNCHANGED <<args, posted, refused>>
      BY <1>2 DEF PretestDone
    <2>2. args.experiment_model = "OpenAdaptive" /\ phase = "idle" /\ Registered
      BY <2>1 DEF MainInv, NoLoadYet, SetUpFirst
    <2>3. BeginAdaptive /\ UNCHANGED loopVars
      BY <2>1, <2>2 DEF Begin
    <2>4. LoopInv' /\ SearchInv'
      BY <1>t, <2>1, <2>2, <2>3, LoopStays, AdaptiveBegins
    <2>5. Registrations' = Registrations /\ Enough' = Enough
      BY <2>1, RegistrationsStay
    <2>6. SetUpTypes' /\ SetUpFirst' /\ NoLoadYet'
      BY <1>t, <2>1, <2>2, <2>5 DEF SetUpTypes, SetUpFirst, NoLoadYet, Stages, Registered
    <2> QED
      BY <2>4, <2>6 DEF MainInv
  <1>3. CASE PretestFails
    <2>1. stage' = "panicked" /\ UNCHANGED <<args, posted, refused, loopVars, searchVars>>
      BY <1>3 DEF PretestFails, Panic
    <2>2. Registrations' = Registrations
      BY <2>1, RegistrationsStay
    <2>3. SetUpTypes' /\ SetUpFirst'
      BY <1>t, <2>1, <2>2 DEF SetUpTypes, SetUpFirst, Stages
    <2> QED
      BY <2>1, <2>3, SetUpSteps
  <1> QED
    BY <1>1, <1>2, <1>3

LEMMA ExperimentKeeps ==
    ASSUME MainInv,
           \/ ClosedLoopStep \/ RateSearchStep
           \/ (\E c \in Clients : ClientTask(c))
           \/ \E result \in {"ok", "err", "panicked"} : Return(result)
    PROVE  MainInv'
  <1>t. /\ args \in Commands /\ posted \in 0..Len(Registrations) /\ refused \subseteq 1..posted
        /\ stage \in Stages /\ (stage # "panicked" => Enough) /\ LoopInv /\ SearchInv
    BY DEF MainInv, SetUpTypes, SetUpFirst
  <1>1. CASE ClosedLoopStep
    <2>1. stage = "experiment" /\ UNCHANGED <<args, setupVars, searchVars>> /\ PeakStep
      BY <1>1 DEF ClosedLoopStep
    <2>2. LoopInv' /\ SearchInv'
      BY <1>t, <2>1, PeakStepKeeps, SearchStays
    <2> QED
      BY <2>1, <2>2, LoadSteps
  <1>2. CASE RateSearchStep
    <2>1. stage = "experiment" /\ UNCHANGED <<args, setupVars, loopVars>> /\ SearchStep
      BY <1>2 DEF RateSearchStep
    <2>2. LoopInv' /\ SearchInv'
      BY <1>t, <2>1, SearchStepKeeps, LoopStays
    <2> QED
      BY <2>1, <2>2, LoadSteps
  <1>3. ASSUME NEW c \in Clients, ClientTask(c) PROVE MainInv'
    <2>1. /\ stage \in {"pretest", "experiment"} /\ ClientStep(c)
          /\ UNCHANGED <<args, setupVars, searchVars>>
      BY <1>3 DEF ClientTask
    <2>2. LoopInv' /\ SearchInv' /\ phase' = phase
      BY <1>t, <2>1, ClientStepKeeps, SearchStays DEF searchVars
    <2> QED
      BY <2>1, <2>2, LoadSteps
  <1>4. ASSUME NEW result \in {"ok", "err", "panicked"}, Return(result) PROVE MainInv'
    <2>1. /\ stage = "experiment" /\ stage' = result
          /\ UNCHANGED <<args, posted, refused, loopVars, searchVars>>
      BY <1>4 DEF Return
    <2>2. Registrations' = Registrations /\ Enough' = Enough
      BY <2>1, RegistrationsStay
    <2>3. SetUpTypes' /\ SetUpFirst'
      BY <1>t, <2>1, <2>2 DEF SetUpTypes, SetUpFirst, Stages
    <2> QED
      BY <2>1, <2>3, SetUpSteps
  <1> QED
    BY <1>1, <1>2, <1>3, <1>4

LEMMA MainStep == MainInv /\ [Next]_vars => MainInv'
  <1> SUFFICES ASSUME MainInv, [Next]_vars PROVE MainInv'
    OBVIOUS
  <1>1. CASE UNCHANGED vars
    <2>1. UNCHANGED <<args, loopVars, searchVars>> /\ UNCHANGED <<stage, posted, refused>>
      BY <1>1 DEF vars, setupVars
    <2>2. Registrations' = Registrations /\ Enough' = Enough
      BY <2>1, RegistrationsStay
    <2>3. SetUpTypes' /\ SetUpFirst'
      BY <2>1, <2>2 DEF MainInv, SetUpTypes, SetUpFirst, Registered
    <2>4. LoopInv' /\ SearchInv'
      BY <2>1, LoopStays, SearchStays DEF MainInv
    <2>5. NoLoadYet'
      BY <2>1 DEF MainInv, NoLoadYet, loopVars, peakVars, searchVars
    <2> QED
      BY <2>3, <2>4, <2>5 DEF MainInv
  <1>2. CASE SetUp
    BY <1>2, SetUpKeeps
  <1>3. CASE Pretest \/ PretestDone \/ PretestFails
    BY <1>3, PretestKeeps
  <1>4. CASE \/ ClosedLoopStep \/ RateSearchStep
             \/ (\E c \in Clients : ClientTask(c))
             \/ \E result \in {"ok", "err", "panicked"} : Return(result)
    BY <1>4, ExperimentKeeps
  <1> QED
    BY <1>1, <1>2, <1>3, <1>4 DEF Next, Main, Exited

(* The inductive invariant of the client.                                   *)
THEOREM ClientInvariant == Spec => []MainInv
  BY MainInit, MainStep, PTL DEF Spec

(* TypeOK: no measurement claims, records or collects more requests than    *)
(* measurement_number, and neither search leaves its bounds.                *)
THEOREM ClientTypes == Spec => []TypeOK
  <1>1. MainInv => TypeOK
    BY LoopTypes DEF MainInv, SetUpTypes, SearchInv, TypeOK
  <1> QED
    BY ClientInvariant, <1>1, PTL

(* ClaimsAccounted: every request claimed from the shared counter is with   *)
(* one client, in the channel, collected, or died with its client, however  *)
(* many clients race.                                                       *)
THEOREM NoClaimIsLost == Spec => []ClaimsAccounted
  <1>1. MainInv => ClaimsAccounted
    BY DEF MainInv, LoopInv, MeasureInv
  <1> QED
    BY ClientInvariant, <1>1, PTL

(* MeasurementComplete: a measurement is judged with exactly                *)
(* measurement_number records, and after the last of its clients has ended. *)
THEOREM MeasurementsAreComplete == Spec => []MeasurementComplete
  <1>1. MainInv => MeasurementComplete
    BY DEF MainInv, LoopInv, MeasureInv
  <1> QED
    BY ClientInvariant, <1>1, PTL

(* FilesClimb: run_closed_loop writes no latencies file twice, and the      *)
(* throughput grows along them.                                             *)
THEOREM ThroughputClimbs == Spec => []FilesClimb
  <1>1. MainInv => FilesClimb
    BY DEF MainInv, LoopInv, PeakInv
  <1> QED
    BY ClientInvariant, <1>1, PTL

(* EachRateOnce: neither search measures a rate it has measured before.     *)
THEOREM NoRateTwice == Spec => []EachRateOnce
  <1>1. MainInv => EachRateOnce
    BY SearchMeans DEF MainInv
  <1> QED
    BY ClientInvariant, <1>1, PTL

(* Bracketed: the adaptive search keeps a good rate below a bad one and     *)
(* ends when no fine step fits between them.                                *)
THEOREM SearchIsBracketed == Spec => []Bracketed
  <1>1. MainInv => Bracketed
    BY SearchMeans DEF MainInv
  <1> QED
    BY ClientInvariant, <1>1, PTL

(* BaselineIsLowest: the sweep compares with the median of the lowest rate  *)
(* it has measured.                                                         *)
THEOREM SweepBaselineIsLowest == Spec => []BaselineIsLowest
  <1>1. MainInv => BaselineIsLowest
    BY SearchMeans DEF MainInv
  <1> QED
    BY ClientInvariant, <1>1, PTL

(* RegisteredBeforeUse: a composition is posted after the functions it      *)
(* calls, and the experiment draws no name that was not posted.             *)
THEOREM NamesAreRegistered == Spec => []RegisteredBeforeUse
  <1>1. MainInv => RegisteredBeforeUse
    <2> SUFFICES ASSUME MainInv PROVE RegisteredBeforeUse
      OBVIOUS
    <2> DEFINE Sent == [i \in 1..posted |-> Registrations[i]]
               R == Registrations
               F == FunctionNames
    <2>r. /\ args \in AllArgs /\ Len(R) \in Nat /\ posted \in 0..Len(R)
      BY ArgsAssumption, RegistrationsAre DEF MainInv, SetUpTypes
    <2>s. \A i \in 1..posted : Sent[i] = R[i]
      OBVIOUS
    <2>m. args.cold_instances \in Nat
      BY <2>r DEF AllArgs
    <2>1. CASE Registers
      <3>1. /\ Len(F) \in Nat
            /\ Range(R) = Range(F) \cup {Name("composition", args.request_type, c) : c \in CopyNumbers}
            /\ DOMAIN R = 1..Len(R)
            /\ \A i \in 1..Len(F) : R[i] = F[i] /\ i <= Len(R)
            /\ \A i \in 1..Len(R) : i > Len(F) =>
                 \E c \in CopyNumbers : R[i] = Name("composition", args.request_type, c)
        BY <2>1, <2>r, RegistrationsAre
      <3>2. /\ DOMAIN F = 1..Len(F)
            /\ Range(F) = {Name("function", b, c) : b \in Range(Functions), c \in CopyNumbers}
        <4>1. F \in Seq(Names)
          BY <2>m, FunctionNamesAre
        <4> QED
          BY <2>m, <4>1, FunctionNamesAre, LenProperties
      <3>3. ASSUME NEW i \in 1..posted, Sent[i].kind = "composition", NEW f \in Calls(Sent[i])
            PROVE  \E j \in 1..(i - 1) : Sent[j] = f
        <4>1. i \in 1..Len(R) /\ R[i].kind = "composition" /\ i \in Nat
          BY <2>r, <2>s, <3>3
        <4>2. ~(i <= Len(F))
          <5> SUFFICES ASSUME i <= Len(F) PROVE FALSE
            OBVIOUS
          <5>1. R[i] \in Range(F)
            BY <3>1, <3>2, <4>1 DEF Range
          <5>2. PICK b \in Range(Functions), c \in CopyNumbers : R[i] = Name("function", b, c)
            BY <3>2, <5>1
          <5> QED
            BY <4>1, <5>2 DEF Name
        <4>3. PICK c \in CopyNumbers : R[i] = Name("composition", args.request_type, c)
          BY <3>1, <4>1, <4>2
        <4>4. Sent[i].copy = c
          BY <2>s, <4>3 DEF Name
        <4>5. f \in Range(F)
          BY <3>2, <3>3, <4>4 DEF Calls
        <4>6. PICK j \in 1..Len(F) : F[j] = f
          BY <3>2, <4>5 DEF Range
        <4>7. j \in 1..(i - 1) /\ j \in 1..posted
          BY <2>r, <3>1, <4>1, <4>2, <4>6
        <4> QED
          BY <2>s, <3>1, <4>6, <4>7
      <3>4. ASSUME stage = "experiment" PROVE Drawable \subseteq Range(Sent)
        <4>1. posted = Len(R)
          BY <3>4 DEF MainInv, SetUpFirst, Registered
        <4>2. Range(Sent) = Range(R)
          BY <2>s, <3>1, <4>1 DEF Range
        <4>3. Hot \in CopyNumbers /\ 0..(args.cold_instances - 1) \subseteq CopyNumbers
          BY <2>m DEF Hot, CopyNumbers
        <4>4. Drawable \subseteq {Name("composition", args.request_type, c) : c \in CopyNumbers}
          BY <4>3 DEF Drawable
        <4> QED
          BY <3>1, <4>2, <4>4
      <3> QED
        BY <3>3, <3>4 DEF RegisteredBeforeUse, MainInv, SetUpFirst, Enough
    <2>2. CASE ~Registers
      <3>1. posted = 0
        BY <2>2, <2>r DEF Registrations
      <3> QED
        BY <2>2, <3>1 DEF RegisteredBeforeUse, MainInv, SetUpFirst, Enough
    <2> QED
      BY <2>1, <2>2
  <1> QED
    BY ClientInvariant, <1>1, PTL
===============================================================================
