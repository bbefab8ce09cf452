--------------------------- MODULE ServerStatistics ---------------------------
(***************************************************************************)
(* How the client's runs meet the dedicated server's timestamp archive.    *)
(* A run posts requests and, if statistics are asked for, downloads what   *)
(* the archive holds and appends it to a file named by the rate.  The      *)
(* closed loop does so after a measurement it accepts; the dispatcher of   *)
(* the open loop when the last tick is taken, with requests on their way,  *)
(* and when it panics there nobody notices.                                *)
(***************************************************************************)
EXTENDS DedicatedServer

CONSTANTS PerRun,          \* requests of one measurement or open-loop run
          Runs             \* bound: measurements or runs of an experiment

ASSUME ServerStatisticsAssumption ==
    /\ PerRun \in Nat \ {0} /\ Runs \in Nat \ {0}
    /\ Requests = 1..(PerRun * Runs)

VARIABLES
    loop,        \* closed or open
    run,         \* the current measurement or run
    file,        \* the rate or number of clients its file is named by
    phase,       \* of the run, or of write_timestamps
    client,      \* what the client knows of a request
    transit,     \* rows of the response not yet written
    files,       \* the timestamps files
    lost,        \* rows of a response that broke off
    covered      \* requests answered well when the last statistics were asked for

clientVars == <<loop, run, file, phase, client>>
fileVars == <<transit, files, lost, covered>>
vars == <<serverVars, clientVars, fileVars>>

Init ==
    /\ ServerInit
    /\ loop \in {"closed", "open"}
    /\ run = 1
    /\ file = 1
    /\ phase = "posting"
    /\ client = [r \in Requests |-> "none"]
    /\ transit = NoRows
    /\ files = [f \in 1..Runs |-> NoRows]
    /\ lost = NoRows
    /\ covered = {}

In(s) == {r \in Requests : client[r] = s}
Posted == Requests \ In("none")
OfRuns(n) == 1..(n * PerRun)
Sent == OfRuns(run) \subseteq Posted
Learns(r, what) == client' = [client EXCEPT ![r] = what]

-------------------------------------------------------------------------------
(* Requests: posted, lost on the way, answered, or given up.                *)

Post(r, h) ==
    /\ phase = "posting" /\ client[r] = "none"
    /\ r \in OfRuns(run) /\ \A q \in Requests : q < r => q \in Posted
    /\ heat' = [heat EXCEPT ![r] = h]
    /\ \/ Handle(r, "received") /\ Learns(r, "waiting")
       \/ handler' = handler /\ Learns(r, "error")
    /\ UNCHANGED <<build, request_type, archive, loop, run, file, phase, fileVars>>

(* check_body; its mutant is content with the status.                       *)
StatusOk(r) == Answered(r) \/ handler[r] = "greeted"
BodyOk(r) == Answered(r)

GetAnswer(r) ==
    /\ client[r] = "waiting"
    /\ \/ BodyOk(r) /\ Learns(r, "ok")
       \/ ~BodyOk(r) /\ handler[r] = "greeted" /\ Learns(r, "wrong")
       \/ handler[r] = "panicked" /\ Learns(r, "error")
    /\ UNCHANGED <<serverVars, loop, run, file, phase, fileVars>>

(* The timeout: the handler goes on, and its row is archived all the same.  *)
GiveUp(r) ==
    /\ client[r] = "waiting"
    /\ Learns(r, "error")
    /\ UNCHANGED <<serverVars, loop, run, file, phase, fileVars>>

-------------------------------------------------------------------------------
(* Runs. *)

(* The mutant of GoesOn is off by one.                                      *)
GoesOnTooLong == run <= Runs
GoesOn == run < Runs
NextRun(named) ==
    IF GoesOn THEN run' = run + 1 /\ file' = named /\ phase' = "posting"
              ELSE phase' = "ended" /\ UNCHANGED <<run, file>>

(* A client of the closed loop that got a wrong answer fails the            *)
(* experiment; else the measurement is accepted, repeated under the same    *)
(* name, or the last.                                                       *)
JudgeMeasurement ==
    /\ loop = "closed" /\ phase = "posting" /\ Sent /\ In("waiting") = {}
    /\ IF In("wrong") # {} THEN phase' = "ended" /\ UNCHANGED <<run, file>>
       ELSE \/ phase' = "asking" /\ UNCHANGED <<run, file>>
            \/ NextRun(file)
            \/ phase' = "ended" /\ UNCHANGED <<run, file>>
    /\ UNCHANGED <<serverVars, loop, client, fileVars>>

LastTickTaken ==
    /\ loop = "open" /\ phase = "posting" /\ Sent
    /\ phase' = "asking"
    /\ UNCHANGED <<serverVars, loop, run, file, client, fileVars>>

(* The open loop's caller waits for every request of the run.               *)
RunOver ==
    /\ loop = "open" /\ phase = "answers" /\ In("waiting") = {}
    /\ NextRun(run + 1)
    /\ UNCHANGED <<serverVars, loop, client, fileVars>>

-------------------------------------------------------------------------------
(* write_timestamps *)

GetStats ==
    /\ phase = "asking"
    /\ transit' = archive
    /\ archive' = Drained
    /\ covered' = In("ok")
    /\ phase' = "writing"
    /\ UNCHANGED <<build, request_type, heat, handler, loop, run, file, client, files, lost>>

(* write_all of a chunk to the file, which is only ever appended to.        *)
WriteChunk(r) ==
    /\ phase = "writing" /\ transit[r] > 0
    /\ files' = [files EXCEPT ![file] = Added(@, r)]
    /\ transit' = Removed(transit, r)
    /\ UNCHANGED <<serverVars, clientVars, lost, covered>>

StatsWritten ==
    /\ phase = "writing" /\ transit = NoRows
    /\ IF loop = "closed" THEN NextRun(file + 1)
                          ELSE phase' = "answers" /\ UNCHANGED <<run, file>>
    /\ UNCHANGED <<serverVars, loop, client, fileVars>>

(* send, chunk or write_all fails: the closed loop returns the error, the   *)
(* open loop's dispatcher panics, and the run goes on without it.           *)
StatsFail ==
    /\ phase \in {"asking", "writing"}
    /\ lost' = [r \in Requests |-> lost[r] + transit[r]]
    /\ transit' = NoRows
    /\ phase' = IF loop = "closed" THEN "ended" ELSE "answers"
    /\ UNCHANGED <<serverVars, loop, run, file, client, files, covered>>

Ended == phase = "ended" /\ UNCHANGED vars

ClientStep(r) == GetAnswer(r) \/ GiveUp(r) \/ \E h \in {"hot", "cold"} : Post(r, h)
RunStep == JudgeMeasurement \/ LastTickTaken \/ RunOver
StatsStep == GetStats \/ (\E r \in Requests : WriteChunk(r)) \/ StatsWritten \/ StatsFail
ServerStep(r) == HandlerStep(r) /\ UNCHANGED <<clientVars, fileVars>>

Next ==
    \/ \E r \in Requests : ServerStep(r) \/ ClientStep(r)
    \/ RunStep \/ StatsStep \/ Ended

Spec == Init /\ [][Next]_vars

-------------------------------------------------------------------------------
(* Every variable stays in its range.                                       *)
TypeOK ==
    /\ ServerTypeOK
    /\ loop \in {"closed", "open"}
    /\ run \in 1..Runs /\ file \in 1..run
    /\ phase \in {"posting", "asking", "writing", "answers", "ended"}
    /\ client \in [Requests -> {"none", "waiting", "ok", "wrong", "error"}]
    /\ transit \in Rows /\ lost \in Rows
    /\ files \in [1..Runs -> Rows]
    /\ covered \subseteq Requests

(* Every row the matmul handler archives is in exactly one place and once:  *)
(* in the archive, in a response, in one file, or gone with a response that *)
(* broke off; whatever handlers, downloads and runs overlap.                *)
Archived(r) == handler[r] = "served" /\ build = "timestamp" /\ request_type = "matmul"
OnFile(r) == \E f \in 1..Runs : files[f][r] > 0
InOnePlace(r) ==
    /\ archive[r] + transit[r] + lost[r] + (IF OnFile(r) THEN 1 ELSE 0)
         = IF Archived(r) THEN 1 ELSE 0
    /\ \A f \in 1..Runs : files[f][r] <= 1
    /\ \A f, g \in 1..Runs : files[f][r] > 0 /\ files[g][r] > 0 => f = g
RowsInOnePlace == \A r \in Requests : InOnePlace(r)

(* Once its statistics are written, every request the client counted as     *)
(* successful when it asked for them was served by the matmul handler and   *)
(* has its row in the file of this run or, if it was posted earlier, of one *)
(* before, unless an earlier download broke off: none waits in the archive  *)
(* for the next file, and no greeting passed for an answer.                 *)
MeasurementHasItsRows ==
    build = "timestamp" /\ request_type = "matmul" /\ phase = "writing" /\ transit = NoRows =>
        \A r \in covered : lost[r] > 0 \/ \E f \in 1..file : files[f][r] > 0
===============================================================================
