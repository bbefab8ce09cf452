------------------------------ MODULE ClosedLoop ------------------------------
(***************************************************************************)
(* The closed-loop load generator (client/src/closed_loop.rs).  One        *)
(* measurement (run_closed_loop_n_clients) spawns clients that claim       *)
(* requests from a shared counter until measurement_number are claimed and *)
(* send a record of each into a channel with room for as many; the caller  *)
(* joins them in order and then collects the records.  run_closed_loop     *)
(* measures with one client, writes that as the baseline, and looks for    *)
(* the peak by adding clients while the throughput grows.                  *)
(***************************************************************************)
EXTENDS Integers, Sequences, FiniteSets, Args

CONSTANTS Measurements,   \* measurement_number
          Rate,           \* Args::rate, the first number of clients of the search
          MaxThroughput,  \* bound: measured throughputs are 1..MaxThroughput
          Kept,           \* percentage 1.0 - Args::significant_degradation
          MayFail         \* a task may panic, the server may refuse its stats

VARIABLES
    loop,             \* where run_closed_loop is
    client_number,    \* clients of the current measurement
    request_counter,  \* LoopArc::request_counter
    client,           \* where each client task is
    channel,          \* records in the channel
    failed,           \* records of the measurement with an error or a timeout
    joined,           \* clients joined
    received,         \* total_received
    last_throughput,  \* of the last measurement accepted; 0 before the baseline
    repetition,       \* measurements repeated in a row
    files             \* latencies files written: clients and throughput

loadVars == <<request_counter, client, channel, failed>>
peakVars == <<client_number, last_throughput, repetition, files>>
loopVars == <<loop, loadVars, joined, received, peakVars>>

ASSUME ClosedLoopAssumption ==
    /\ Measurements \in Nat \ {0} /\ Rate \in Nat /\ MaxThroughput \in Nat \ {0}
    /\ Kept \in 0..100 /\ MayFail \in BOOLEAN

(* The baseline has file 1 for itself; its mutant takes the rate as it is.  *)
RateAsGiven == Rate
FirstClients == IF Rate > 2 THEN Rate ELSE 2

(* Each accepted measurement raises the throughput, so that the search      *)
(* ends with fewer clients than these.                                      *)
Clients == 1..(FirstClients + MaxThroughput)
Active == 1..client_number

(* A measurement starts: tasks are spawned on a fresh counter and channel.  *)
Spawned(n) == [c \in Clients |-> IF c <= n THEN "loop" ELSE "none"]
StartMeasurement(n) ==
    /\ loop' = "joining"
    /\ client_number' = n
    /\ request_counter' = 0
    /\ client' = Spawned(n)
    /\ channel' = 0
    /\ failed' = 0
    /\ joined' = 0
    /\ received' = 0

LoopInit ==
    /\ loop = "idle"
    /\ client_number = 1
    /\ request_counter = 0
    /\ client = Spawned(0)
    /\ channel = 0
    /\ failed = 0
    /\ joined = 0
    /\ received = 0
    /\ last_throughput = 0
    /\ repetition = 0
    /\ files = <<>>

-------------------------------------------------------------------------------
(* request_loop *)

Goto(c, l) == client' = [client EXCEPT ![c] = l]

(* The mutant of Claimed is `<=`, off by one.                               *)
ClaimedOneMore == request_counter <= Measurements
Claimed == request_counter < Measurements

(* fetch_add: the counter goes up for the client that finds no work, too.   *)
Claim(c) ==
    /\ client[c] = "loop"
    /\ request_counter' = request_counter + 1
    /\ Goto(c, IF Claimed THEN "request" ELSE "ended")
    /\ UNCHANGED <<loop, channel, failed, joined, received, peakVars>>

(* The answer, an error or the timeout; try_send fails on a full channel,   *)
(* which ends the client.                                                   *)

Finish(c, error) ==
    /\ client[c] = "request"
    /\ IF channel < Measurements
         THEN channel' = channel + 1 /\ Goto(c, "loop")
         ELSE channel' = channel /\ Goto(c, "err")
    /\ failed' = failed + error
    /\ UNCHANGED <<loop, request_counter, joined, received, peakVars>>

(* bytes().unwrap(), check_body, or a remainder by zero in get_name.        *)
ClientPanics(c) ==
    /\ MayFail /\ client[c] = "request"
    /\ Goto(c, "panicked")
    /\ UNCHANGED <<loop, request_counter, channel, failed, joined, received, peakVars>>

-------------------------------------------------------------------------------
(* run_closed_loop_n_clients *)

(* join_handle.await??, in the order of spawning.                           *)
Join ==
    /\ loop = "joining" /\ joined < client_number
    /\ client[joined + 1] \in {"ended", "err", "panicked"}
    /\ IF client[joined + 1] = "ended"
         THEN joined' = joined + 1 /\ UNCHANGED loop
         ELSE loop' = "err" /\ UNCHANGED joined
    /\ UNCHANGED <<loadVars, received, peakVars>>

(* The mutant of AllJoined goes on when the first client has ended.            *)
SomeJoined == joined > 0
AllJoined == joined = client_number

(* The caller keeps record_tx, so recv_many never sees the channel close:   *)
(* the loop ends by its count or not at all.                                *)
Collect ==
    /\ loop = "joining" /\ AllJoined /\ channel > 0
    /\ channel' = 0
    /\ received' = received + channel
    /\ loop' = IF received + channel >= Measurements THEN "measured" ELSE loop
    /\ UNCHANGED <<request_counter, client, failed, joined, peakVars>>

-------------------------------------------------------------------------------
(* run_closed_loop *)

(* A baseline that is not the peak's start is all there is.                 *)
Continue(n) ==
    IF n = 1 /\ args.experiment_model = "ClosedUnloaded"
      THEN /\ loop' = "ok"
           /\ UNCHANGED <<loadVars, joined, received, client_number>>
      ELSE StartMeasurement(IF n = 1 THEN FirstClients ELSE n + 1)

(* write_latencies, and the statistics if they are asked for.               *)
Write(throughput) ==
    /\ last_throughput' = throughput
    /\ files' = Append(files, [clients |-> client_number, throughput |-> throughput])
    /\ IF args.stats
         THEN /\ loop' = "stats"
              /\ UNCHANGED <<loadVars, joined, received, client_number>>
         ELSE Continue(client_number)

Stop ==
    /\ loop' = "ok"
    /\ UNCHANGED <<loadVars, joined, received, client_number,
                   last_throughput, files, repetition>>

TooManyErrors == failed * 100 >= received

Baseline(throughput) ==
    /\ client_number = 1
    /\ Write(throughput)
    /\ UNCHANGED repetition

Better(throughput) == throughput > last_throughput

Improve(throughput) ==
    /\ client_number > 1 /\ Better(throughput) /\ ~TooManyErrors
    /\ Write(throughput)
    /\ repetition' = 0

(* Its mutant does not count.                                               *)
SameRepetition == repetition
NextRepetition == repetition + 1

WorthRepeating(throughput) ==
    throughput * 100 > last_throughput * Kept /\ repetition < 2

Repeat(throughput) ==
    /\ client_number > 1 /\ ~Better(throughput) /\ WorthRepeating(throughput)
    /\ repetition' = NextRepetition
    /\ StartMeasurement(client_number)
    /\ UNCHANGED <<last_throughput, files>>

GiveUp(throughput) ==
    /\ client_number > 1
    /\ IF Better(throughput) THEN TooManyErrors ELSE ~WorthRepeating(throughput)
    /\ Stop

(* The throughput is what the clock says.                                   *)
Judge(throughput) ==
    /\ loop = "measured"
    /\ \/ Baseline(throughput) \/ Improve(throughput)
       \/ Repeat(throughput) \/ GiveUp(throughput)

WriteStats ==
    /\ loop = "stats"
    /\ Continue(client_number)
    /\ UNCHANGED <<last_throughput, repetition, files>>

StatsFail ==
    /\ MayFail /\ loop = "stats"
    /\ loop' = "err"
    /\ UNCHANGED <<loadVars, joined, received, peakVars>>

LoopReturned == loop \in {"ok", "err"}

ClientStep(c) == Claim(c) \/ ClientPanics(c) \/ \E error \in {0, 1} : Finish(c, error)
MeasurementStep == Join \/ Collect
PeakStep ==
    \/ MeasurementStep \/ WriteStats \/ StatsFail
    \/ \E throughput \in 1..MaxThroughput : Judge(throughput)

-------------------------------------------------------------------------------
(* Every variable stays in its range.                                       *)
LoopTypeOK ==
    /\ loop \in {"idle", "joining", "measured", "stats", "ok", "err"}
    /\ client_number \in Clients
    /\ request_counter \in 0..(Measurements + client_number)
    /\ client \in [Clients -> {"none", "loop", "request", "ended", "err", "panicked"}]
    /\ channel \in 0..Measurements
    /\ failed \in 0..Measurements
    /\ joined \in 0..client_number
    /\ received \in 0..Measurements
    /\ last_throughput \in 0..MaxThroughput
    /\ repetition \in 0..2
    /\ files \in Seq([clients : Clients, throughput : 1..MaxThroughput])

In(s) == {c \in Clients : client[c] = s}
Claims == IF request_counter < Measurements THEN request_counter ELSE Measurements

(* Every claimed request is with one client, is a record, or died with its  *)
(* client; none ends because the channel is full.  However many clients     *)
(* race on the counter, measurement_number requests are issued.             *)
ClaimsAccounted ==
    Claims = Cardinality(In("request") \cup In("panicked")) + channel + received

(* A measurement is judged by measurement_number records, no more ("only    *)
(* expected") and no fewer ("Did not reach specified measurement number"),  *)
(* and with all its clients ended, so that none of them sends into the      *)
(* next one.                                                                *)
MeasurementComplete ==
    loop \in {"measured", "stats"} =>
        /\ received = Measurements
        /\ \A c \in Active : client[c] = "ended"

(* Each latencies file is written once (File::create would truncate it):    *)
(* with one client for the baseline, then with ever more, and the           *)
(* throughput grows strictly along them, so that the last is the peak.      *)
FilesClimb ==
    \A i, j \in 1..Len(files) : i < j =>
        /\ files[i].clients < files[j].clients
        /\ files[i].throughput < files[j].throughput
===============================================================================
