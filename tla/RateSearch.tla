------------------------------ MODULE RateSearch ------------------------------
(***************************************************************************)
(* How tokio_main (client/src/main.rs) looks for the highest rate a server *)
(* sustains: the sweep steps up coarsely to the first bad rate and then    *)
(* finely from the last good one; the adaptive search doubles the rate to  *)
(* the first bad one and then bisects.  A measurement is one run of        *)
(* run_open_loop (see OpenLoop): it fails, or yields the share of failed   *)
(* requests and a median latency, and writes the latencies file of its     *)
(* rate.                                                                   *)
(***************************************************************************)
EXTENDS Integers, Args

CONSTANTS StepCoarse,  \* Args::step_coarse
          StepFine,    \* Args::step_fine
          Medians,     \* median latencies a measurement can have
          Capacity     \* bound: no server sustains a higher rate than this

VARIABLES
    phase,           \* where the search is
    rps,             \* the rate measured next
    last_good_rps,
    last_bad_rps,    \* 0 before the first
    median_latency,  \* the median "unloaded"
    baseline,        \* the rate it was measured at
    measured         \* the measurements made, and what came of them

searchVars == <<phase, rps, last_good_rps, last_bad_rps, median_latency, baseline, measured>>

ASSUME RateSearchAssumption ==
    /\ StepCoarse \in Nat \ {0} /\ StepFine \in Nat \ {0} /\ Capacity \in Nat
    /\ Medians \subseteq Nat

Verdicts == {"good", "bad", "err"}
Rates == {m.rate : m \in measured}
With(v) == {m.rate : m \in {m \in measured : m.verdict = v}}
Record(verdict) == measured' = measured \cup {[rate |-> rps, verdict |-> verdict]}

SearchInit ==
    /\ phase = "idle"
    /\ rps = StepFine
    /\ last_good_rps = 0
    /\ last_bad_rps = 0
    /\ median_latency = 0
    /\ baseline = 0
    /\ measured = {}

BeginSweep ==
    /\ phase' = "coarse"
    /\ rps' = StepCoarse
    /\ UNCHANGED <<last_good_rps, last_bad_rps, median_latency, baseline, measured>>

BeginAdaptive ==
    /\ phase' = "double"
    /\ rps' = StepFine
    /\ last_good_rps' = StepFine
    /\ UNCHANGED <<last_bad_rps, median_latency, baseline, measured>>

(* The share of failed requests is up to the server, within its capacity.   *)
Sustained(verdict) == verdict = "good" => rps <= Capacity

-------------------------------------------------------------------------------
(* ExperimentModel::OpenSweep *)

(* The mutant of ResetsMedian compares a fine sweep with its own start.     *)
ResetsAtStart == rps = last_good_rps + StepFine \/ rps = StepCoarse
ResetsMedian == rps = IF phase = "coarse" THEN StepCoarse ELSE StepFine
Queuing(median) == ~ResetsMedian /\ median_latency * 10 < median

KeepMedian(median) ==
    /\ median_latency' = IF ResetsMedian THEN median ELSE median_latency
    /\ baseline' = IF ResetsMedian THEN rps ELSE baseline

(* The first fine step; its mutant measures the last good rate again.       *)
LastGood == last_good_rps
FirstFine == last_good_rps + StepFine
EndFine == last_good_rps + StepCoarse

GoodCoarse(median) ==
    /\ phase = "coarse" /\ ~Queuing(median) /\ Sustained("good")
    /\ Record("good")
    /\ KeepMedian(median)
    /\ last_good_rps' = rps
    /\ rps' = rps + StepCoarse
    /\ UNCHANGED <<phase, last_bad_rps>>

(* The median is looked at first, but either way the coarse steps end here. *)
BadCoarse(median) ==
    /\ phase = "coarse"
    /\ Record("bad")
    /\ KeepMedian(median)
    /\ rps' = FirstFine
    /\ phase' = IF FirstFine < EndFine THEN "fine" ELSE "ok"
    /\ UNCHANGED <<last_good_rps, last_bad_rps>>

(* The fine steps are over at the next coarse rate or at the first bad one. *)
GoodFine(median) ==
    /\ phase = "fine" /\ ~Queuing(median) /\ Sustained("good")
    /\ Record("good")
    /\ KeepMedian(median)
    /\ rps' = rps + StepFine
    /\ phase' = IF rps + StepFine < EndFine THEN "fine" ELSE "ok"
    /\ UNCHANGED <<last_good_rps, last_bad_rps>>

BadFine(median) ==
    /\ phase = "fine"
    /\ Record("bad")
    /\ KeepMedian(median)
    /\ phase' = "ok"
    /\ UNCHANGED <<rps, last_good_rps, last_bad_rps>>

-------------------------------------------------------------------------------
(* ExperimentModel::OpenAdaptive *)

GoodDouble ==
    /\ phase = "double" /\ Sustained("good")
    /\ Record("good")
    /\ last_good_rps' = rps
    /\ rps' = 2 * rps
    /\ UNCHANGED <<phase, last_bad_rps, median_latency, baseline>>

(* Halfway, but a fine step at least.                                       *)
Middle(good, bad) ==
    good + (IF StepFine > (bad - good) \div 2 THEN StepFine ELSE (bad - good) \div 2)

(* The mutant of Wide stops only when the two rates are next to each other. *)
NotNext(good, bad) == good < bad
Wide(good, bad) == good + StepFine < bad

Bisect(good, bad) ==
    /\ last_good_rps' = good
    /\ last_bad_rps' = bad
    /\ IF Wide(good, bad)
         THEN phase' = "bisect" /\ rps' = Middle(good, bad)
         ELSE phase' = "ok" /\ UNCHANGED rps
    /\ UNCHANGED <<median_latency, baseline>>

BadDouble ==
    /\ phase = "double"
    /\ Record("bad")
    /\ Bisect(last_good_rps, rps)

GoodBisect ==
    /\ phase = "bisect" /\ Sustained("good")
    /\ Record("good")
    /\ Bisect(rps, last_bad_rps)

(* Here, and only here, a run that returns an Err counts as bad.            *)
BadBisect(verdict) ==
    /\ phase = "bisect"
    /\ Record(verdict)
    /\ Bisect(last_good_rps, rps)

-------------------------------------------------------------------------------
(* run_open_loop(..).await? everywhere else.                                *)
RunFails ==
    /\ phase \in {"coarse", "fine", "double"}
    /\ Record("err")
    /\ phase' = "err"
    /\ UNCHANGED <<rps, last_good_rps, last_bad_rps, median_latency, baseline>>

(* A run may also end the client: the summary of an empty log underflows,   *)
(* and reading the trace is unwrapped.  No search catches that.             *)
RunPanics ==
    /\ phase \in {"coarse", "fine", "double", "bisect"}
    /\ phase' = "panicked"
    /\ UNCHANGED <<rps, last_good_rps, last_bad_rps, median_latency, baseline, measured>>

SweepStep(median) ==
    GoodCoarse(median) \/ BadCoarse(median) \/ GoodFine(median) \/ BadFine(median)
AdaptiveStep ==
    GoodDouble \/ BadDouble \/ GoodBisect \/ \E verdict \in {"bad", "err"} : BadBisect(verdict)
SearchStep ==
    AdaptiveStep \/ RunFails \/ RunPanics \/ \E median \in Medians : SweepStep(median)

-------------------------------------------------------------------------------
(* Every variable stays in its range.                                       *)
SearchTypeOK ==
    /\ phase \in {"idle", "coarse", "fine", "double", "bisect", "ok", "err", "panicked"}
    /\ rps \in 1..(2 * Capacity + StepCoarse + StepFine)
    /\ last_good_rps \in 0..(Capacity + StepFine)
    /\ last_bad_rps \in Nat
    /\ median_latency \in Medians \cup {0}
    /\ baseline \in Nat
    /\ \A m \in measured : m.rate \in Nat /\ m.verdict \in Verdicts

(* No rate is measured twice, by the steps of one kind or across the two:   *)
(* File::create of the second run would truncate the latencies file of the  *)
(* first, and write_timestamps append to its timestamps.                    *)
EachRateOnce == phase \in {"coarse", "fine", "double", "bisect"} => rps \notin Rates

(* While the adaptive search narrows, a measured good rate is below a       *)
(* measured bad one; when it ends no fine step fits between them.  Only if  *)
(* the very first rate is bad are the two the same.                         *)
Bracketed ==
    args.experiment_model = "OpenAdaptive" /\ last_bad_rps # 0 =>
        /\ last_bad_rps \in With("bad") \cup With("err")
        /\ \/ last_good_rps = StepFine /\ last_bad_rps = StepFine
           \/ last_good_rps \in With("good") /\ last_good_rps < last_bad_rps
        /\ phase = "ok" => last_bad_rps <= last_good_rps + StepFine

(* "exceeds order of magnitude more than unloaded": the median taken for    *)
(* unloaded is of the lowest rate measured, also when the fine steps start  *)
(* below the first coarse one.                                              *)
BaselineIsLowest ==
    args.experiment_model = "OpenSweep" /\ (Rates \ With("err")) # {} =>
        \A r \in Rates \ With("err") : baseline <= r /\ baseline \in Rates

===============================================================================
