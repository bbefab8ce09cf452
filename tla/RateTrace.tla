------------------------------ MODULE RateTrace ------------------------------
(***************************************************************************)
(* When the open loop issues requests: a CSV trace of rate changes         *)
(* (client/src/rate_change.rs) becomes one rate per second, and ConstGen   *)
(* (client/src/generator.rs) draws start times from these.  A rate without *)
(* a trace is the trace with that one entry.                               *)
(***************************************************************************)
EXTENDS Integers, Sequences

CONSTANTS Duration,        \* Args::duration, in seconds
          TicksPerSec,     \* ticks of Duration's nanoseconds
          InitialChanges   \* the traces: sequences of records of time and rate

ASSUME RateTraceAssumption ==
    /\ Duration \in Nat /\ TicksPerSec \in Nat \ {0}
    /\ \A changes \in InitialChanges :
         changes \in Seq([time : Nat, rate : Nat])

(* load_rate_changes_from_csv returns Err otherwise.                        *)
WellFormed(changes) ==
    /\ changes # <<>>
    /\ changes[1].time = 0
    /\ \A i \in 2..Len(changes) : changes[i].time > changes[i - 1].time

(* The seconds entry i of the trace fills.  Its mutant does not end where   *)
(* the next entry begins.                                                   *)
ToTheEnd(changes, i) == {t \in 0..(Duration - 1) : changes[i].time <= t}
Fills(changes, i) ==
    {t \in 0..(Duration - 1) :
        /\ changes[i].time <= t
        /\ i < Len(changes) => t < changes[i + 1].time}

(* generate_rate_per_sec: seconds that no entry fills keep the 0.           *)
RatePerSec(changes) ==
    [t \in 0..(Duration - 1) |->
        IF \E i \in DOMAIN changes : t \in Fills(changes, i)
          THEN changes[CHOOSE i \in DOMAIN changes : t \in Fills(changes, i)].rate
          ELSE 0]

(* ConstGen::next: the rate of the second the last start fell into, which   *)
(* may be one before the second of the start it yields.                     *)
Second(now) == now \div TicksPerSec
Exhausted(now) == Second(now) >= Duration
RateAt(changes, now) == RatePerSec(changes)[Second(now)]

(* Duration::from_secs_f64(1.0 / rate) rounds to a tick.                    *)
Interarrival(rate) == (2 * TicksPerSec + rate) \div (2 * rate)
===============================================================================
