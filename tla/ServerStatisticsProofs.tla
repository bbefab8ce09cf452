------------------------ MODULE ServerStatisticsProofs ------------------------
(***************************************************************************)
(* Theorems about ServerStatistics, for every number of runs and of        *)
(* requests in a run.                                                      *)
(***************************************************************************)
EXTENDS ServerStatistics, TLAPS

(* Counting one row more or fewer.                                          *)
LEMMA RowAdded ==
    ASSUME NEW rows \in Rows, NEW r \in Requests
    PROVE  Added(rows, r) \in Rows
  BY DEF Rows, Added

LEMMA RowTaken ==
    ASSUME NEW rows \in Rows, NEW r \in Requests, rows[r] > 0
    PROVE  Removed(rows, r) \in Rows
  <1>1. rows[r] \in Nat /\ rows[r] - 1 \in Nat
    BY DEF Rows
  <1> QED
    BY <1>1 DEF Rows, Removed

LEMMA RowsLost ==
    ASSUME NEW rows \in Rows, NEW more \in Rows
    PROVE  [r \in Requests |-> rows[r] + more[r]] \in Rows
  <1>1. \A r \in Requests : rows[r] + more[r] \in Nat
    BY DEF Rows
  <1> QED
    BY <1>1 DEF Rows

(* Names for the ways a step can end a run.                                 *)
LEMMA NextRunKeeps ==
    ASSUME run \in 1..Runs, file \in 1..run, NEW named \in 1..(run + 1), NextRun(named)
    PROVE  /\ run' \in 1..Runs /\ file' \in 1..run'
           /\ phase' \in {"posting", "ended"}
  BY ServerStatisticsAssumption DEF NextRun, GoesOn

LEMMA TypeInit == Init => TypeOK
  BY ServerStatisticsAssumption
  DEF TypeOK, ServerTypeOK, Init, ServerInit, Builds, RequestTypes, NoRows, Rows

LEMMA TypeStep == TypeOK /\ [Next]_vars => TypeOK'
  <1> USE ServerStatisticsAssumption DEF TypeOK, ServerTypeOK
  <1> SUFFICES ASSUME TypeOK, [Next]_vars PROVE TypeOK'
    OBVIOUS
  <1> USE DEF serverVars, clientVars, fileVars
  <1>1. CASE UNCHANGED vars
    BY <1>1 DEF vars
  <1>2. ASSUME NEW r \in Requests, ServerStep(r) PROVE TypeOK'
    <2> USE DEF Handle
    <2>1. CASE Greet(r)
      BY <1>2, <2>1 DEF ServerStep, Greet
    <2>2. CASE Compute(r)
      BY <1>2, <2>2 DEF ServerStep, Compute
    <2>3. CASE HandlerPanics(r)
      BY <1>2, <2>3 DEF ServerStep, HandlerPanics
    <2>4. CASE Push(r)
      <3>1. archive' \in Rows
        BY <2>4, RowAdded DEF Push
      <3> QED
        BY <1>2, <2>4, <3>1 DEF ServerStep, Push
    <2> QED
      BY <1>2, <2>1, <2>2, <2>3, <2>4 DEF ServerStep, HandlerStep
  <1>3. ASSUME NEW r \in Requests, ClientStep(r) PROVE TypeOK'
    <2> USE DEF Learns, Handle
    <2>1. CASE GetAnswer(r)
      BY <2>1 DEF GetAnswer
    <2>2. CASE GiveUp(r)
      BY <2>2 DEF GiveUp
    <2>3. ASSUME NEW h \in {"hot", "cold"}, Post(r, h) PROVE TypeOK'
      BY <2>3 DEF Post
    <2> QED
      BY <1>3, <2>1, <2>2, <2>3 DEF ClientStep
  <1>a. ASSUME NEW named \in {file, file + 1, run + 1}, NextRun(named)
        PROVE  /\ run' \in 1..Runs /\ file' \in 1..run'
               /\ phase' \in {"posting", "ended"}
    <2>1. named \in 1..(run + 1)
      OBVIOUS
    <2> QED
      BY <1>a, <2>1, NextRunKeeps
  <1>4. CASE JudgeMeasurement
    <2>1. CASE NextRun(file)
      BY <1>4, <2>1, <1>a DEF JudgeMeasurement
    <2>2. CASE UNCHANGED <<run, file>> /\ phase' \in {"ended", "asking"}
      BY <1>4, <2>2 DEF JudgeMeasurement
    <2> QED
      BY <1>4, <2>1, <2>2 DEF JudgeMeasurement
  <1>5. CASE LastTickTaken
    BY <1>5 DEF LastTickTaken
  <1>6. CASE RunOver
    BY <1>6, <1>a DEF RunOver
  <1>7. CASE GetStats
    BY <1>7 DEF GetStats, Drained, NoRows, Rows, In
  <1>8. ASSUME NEW r \in Requests, WriteChunk(r) PROVE TypeOK'
    <2>1. transit' \in Rows
      BY <1>8, RowTaken DEF WriteChunk
    <2>2. file \in 1..Runs /\ files[file] \in Rows
      BY DEF TypeOK
    <2>3. files' = [files EXCEPT ![file] = Added(files[file], r)]
      BY <1>8 DEF WriteChunk
    <2>4. files' \in [1..Runs -> Rows]
      <3>1. Added(files[file], r) \in Rows
        BY <2>2, RowAdded
      <3> QED
        BY <2>2, <2>3, <3>1
    <2> QED
      BY <1>8, <2>1, <2>4 DEF WriteChunk
  <1>9. CASE StatsWritten
    <2>1. CASE loop = "closed"
      BY <1>9, <2>1, <1>a DEF StatsWritten
    <2> QED
      BY <1>9, <2>1 DEF StatsWritten
  <1>10. CASE StatsFail
    <2>1. transit' \in Rows
      BY <1>10 DEF StatsFail, NoRows, Rows
    <2>2. lost' \in Rows
      BY <1>10, RowsLost DEF StatsFail
    <2> QED
      BY <1>10, <2>1, <2>2 DEF StatsFail
  <1> QED
    BY <1>1, <1>2, <1>3, <1>4, <1>5, <1>6, <1>7, <1>8, <1>9, <1>10
    DEF Next, RunStep, StatsStep, Ended

(* Every step of the server, of the clients and of the runs keeps types.    *)
THEOREM TypeCorrect == Spec => []TypeOK
  BY TypeInit, TypeStep, PTL DEF Spec

-------------------------------------------------------------------------------
(* Rows.  A handler starts from nothing only for a request never posted, so *)
(* that no row is archived for it before, and a response is asked for only  *)
(* when none is being written: this is what RowsInOnePlace lacks to be      *)
(* inductive.                                                               *)
Unhandled == \A r \in Requests : client[r] = "none" => handler[r] = "none"
Idle == phase # "writing" => transit = NoRows
RowInv == TypeOK /\ Unhandled /\ Idle /\ RowsInOnePlace

LEMMA AddedCounts ==
    ASSUME NEW rows \in Rows, NEW q \in Requests, NEW r \in Requests
    PROVE  Added(rows, q)[r] = IF r = q THEN rows[r] + 1 ELSE rows[r]
  BY DEF Rows, Added

LEMMA RemovedCounts ==
    ASSUME NEW rows \in Rows, NEW q \in Requests, NEW r \in Requests
    PROVE  Removed(rows, q)[r] = IF r = q THEN rows[r] - 1 ELSE rows[r]
  BY DEF Rows, Removed

(* What counts a row does not change, nor does where it is.                 *)
LEMMA RowStays ==
    ASSUME NEW r \in Requests, InOnePlace(r),
           archive'[r] = archive[r], transit'[r] = transit[r], lost'[r] = lost[r],
           files' = files, Archived(r)' = Archived(r)
    PROVE  InOnePlace(r)'
  BY DEF InOnePlace, OnFile

LEMMA UnhandledStep == RowInv /\ [Next]_vars => Unhandled'
  <1> SUFFICES ASSUME RowInv, [Next]_vars PROVE Unhandled'
    OBVIOUS
  <1> USE DEF RowInv, TypeOK, ServerTypeOK, Unhandled
  <1>1. CASE UNCHANGED <<client, handler>>
    BY <1>1
  <1>2. ASSUME NEW r \in Requests, ServerStep(r) PROVE Unhandled'
    <2>1. handler[r] # "none" /\ client' = client
      BY <1>2 DEF ServerStep, HandlerStep, Greet, Compute, HandlerPanics, Push, clientVars
    <2>2. \A q \in Requests : q # r => handler'[q] = handler[q]
      BY <1>2 DEF ServerStep, HandlerStep, Greet, Compute, HandlerPanics, Push, Handle
    <2> QED
      BY <2>1, <2>2
  <1>3. ASSUME NEW r \in Requests, ClientStep(r) PROVE Unhandled'
    <2>1. CASE GetAnswer(r) \/ GiveUp(r)
      BY <2>1 DEF GetAnswer, GiveUp, Learns, serverVars
    <2>2. ASSUME NEW h \in {"hot", "cold"}, Post(r, h) PROVE Unhandled'
      BY <2>2 DEF Post, Learns, Handle
    <2> QED
      BY <1>3, <2>1, <2>2 DEF ClientStep
  <1> QED
    BY <1>1, <1>2, <1>3
    DEF Next, RunStep, StatsStep, JudgeMeasurement, LastTickTaken, RunOver, GetStats,
        WriteChunk, StatsWritten, StatsFail, Ended, vars, serverVars, clientVars

LEMMA IdleStep == RowInv /\ [Next]_vars => Idle'
  <1> SUFFICES ASSUME RowInv, [Next]_vars PROVE Idle'
    OBVIOUS
  <1> USE DEF RowInv, Idle
  <1>1. CASE transit' = transit /\ phase' = phase
    BY <1>1 DEF NoRows
  <1>2. CASE transit' = transit /\ phase # "writing" /\ phase' # "writing"
    BY <1>2 DEF NoRows
  <1>3. CASE RunStep
    BY <1>2, <1>3
    DEF RunStep, JudgeMeasurement, LastTickTaken, RunOver, NextRun, fileVars
  <1>4. CASE StatsWritten
    <2>1. transit' = transit /\ transit = NoRows
      BY <1>4 DEF StatsWritten, fileVars
    <2> QED
      BY <2>1 DEF NoRows
  <1>5. CASE GetStats \/ StatsFail
    BY <1>5 DEF GetStats, StatsFail, NoRows
  <1>6. ASSUME NEW r \in Requests, WriteChunk(r) PROVE Idle'
    BY <1>6 DEF WriteChunk, clientVars
  <1>7. ASSUME NEW r \in Requests, ServerStep(r) \/ ClientStep(r) PROVE Idle'
    BY <1>1, <1>7 DEF ServerStep, ClientStep, GetAnswer, GiveUp, Post, clientVars, fileVars
  <1> QED
    BY <1>1, <1>3, <1>4, <1>5, <1>6, <1>7
    DEF Next, StatsStep, Ended, vars, clientVars, fileVars

LEMMA RowsStep == RowInv /\ [Next]_vars => RowsInOnePlace'
  <1> SUFFICES ASSUME RowInv, [Next]_vars, NEW r \in Requests PROVE InOnePlace(r)'
    BY DEF RowsInOnePlace
  <1>d. /\ archive \in Rows /\ transit \in Rows /\ lost \in Rows
        /\ files \in [1..Runs -> Rows] /\ run \in 1..Runs /\ file \in 1..run
    BY DEF RowInv, TypeOK, ServerTypeOK
  <1>e. Runs \in Nat
    BY ServerStatisticsAssumption
  <1>a. /\ archive \in Rows /\ transit \in Rows /\ lost \in Rows
        /\ files \in [1..Runs -> Rows] /\ file \in 1..Runs
        /\ archive[r] \in Nat /\ transit[r] \in Nat /\ lost[r] \in Nat
        /\ handler \in [Requests -> {"none", "received", "greeted", "computed",
                                      "panicked", "served"}]
    BY <1>d, <1>e DEF RowInv, TypeOK, ServerTypeOK, Rows
  <1>b. \A f \in 1..Runs : files[f] \in Rows /\ files[f][r] \in Nat
    BY <1>a DEF Rows
  <1>c. InOnePlace(r)
    BY DEF RowInv, RowsInOnePlace
  <1>1. CASE UNCHANGED <<archive, transit, lost, files, handler, build, request_type>>
    BY <1>1, <1>c, RowStays DEF Archived
  <1>2. ASSUME NEW q \in Requests, ServerStep(q) PROVE InOnePlace(r)'
    <2>1. transit' = transit /\ lost' = lost /\ files' = files
      BY <1>2 DEF ServerStep, fileVars
    <2>2. CASE Greet(q) \/ Compute(q) \/ HandlerPanics(q)
      <3>1. Archived(r)' = Archived(r) /\ archive' = archive
        BY <2>2, <1>a DEF Greet, Compute, HandlerPanics, Handle, Archived
      <3> QED
        BY <2>1, <3>1, <1>c, RowStays
    <2>3. CASE Push(q)
      <3>1. CASE build = "timestamp" /\ request_type = "matmul" /\ r = q
        <4>1. archive'[r] = archive[r] + 1
          BY <2>3, <3>1, <1>a, AddedCounts DEF Push
        <4>2. ~Archived(r) /\ Archived(r)'
          BY <2>3, <3>1, <1>a DEF Push, Handle, Archived
        <4> QED
          BY <4>1, <4>2, <2>1, <1>a, <1>c DEF InOnePlace, OnFile
      <3>2. CASE ~(build = "timestamp" /\ request_type = "matmul" /\ r = q)
        <4>1. archive'[r] = archive[r]
          BY <2>3, <3>2, <1>a, AddedCounts DEF Push
        <4>2. Archived(r)' = Archived(r)
          BY <2>3, <3>2, <1>a DEF Push, Handle, Archived
        <4> QED
          BY <4>1, <4>2, <2>1, <1>c, RowStays
      <3> QED
        BY <3>1, <3>2
    <2> QED
      BY <1>2, <2>2, <2>3 DEF ServerStep, HandlerStep
  <1>3. ASSUME NEW q \in Requests, ClientStep(q) PROVE InOnePlace(r)'
    <2>1. CASE GetAnswer(q) \/ GiveUp(q)
      BY <2>1, <1>1 DEF GetAnswer, GiveUp, serverVars, fileVars
    <2>2. ASSUME NEW h \in {"hot", "cold"}, Post(q, h) PROVE InOnePlace(r)'
      <3>1. UNCHANGED <<archive, transit, lost, files, build, request_type>>
        BY <2>2 DEF Post, fileVars
      <3>2. handler[q] = "none"
        BY <2>2 DEF Post, RowInv, Unhandled
      <3>3. Archived(r)' = Archived(r)
        BY <2>2, <3>1, <3>2, <1>a DEF Post, Handle, Archived
      <3> QED
        BY <3>1, <3>3, <1>c, RowStays
    <2> QED
      BY <1>3, <2>1, <2>2 DEF ClientStep
  <1>4. CASE RunStep \/ StatsWritten
    BY <1>1, <1>4
    DEF RunStep, JudgeMeasurement, LastTickTaken, RunOver, StatsWritten, serverVars, fileVars
  <1>5. CASE GetStats
    <2>1. transit[r] = 0
      BY <1>5 DEF GetStats, RowInv, Idle, NoRows
    <2>2. transit'[r] = archive[r] /\ archive'[r] = 0
      BY <1>5 DEF GetStats, Drained, NoRows
    <2>3. lost' = lost /\ files' = files /\ Archived(r)' = Archived(r)
      BY <1>5 DEF GetStats, Archived
    <2> QED
      BY <2>1, <2>2, <2>3, <1>a, <1>c DEF InOnePlace, OnFile
  <1>6. ASSUME NEW q \in Requests, WriteChunk(q) PROVE InOnePlace(r)'
    <2>1. archive' = archive /\ lost' = lost /\ Archived(r)' = Archived(r)
      BY <1>6 DEF WriteChunk, serverVars, Archived
    <2>2. transit'[r] = IF r = q THEN transit[r] - 1 ELSE transit[r]
      BY <1>6, <1>a, RemovedCounts DEF WriteChunk
    <2>3. \A f \in 1..Runs :
             files'[f][r] = IF r = q /\ f = file THEN files[f][r] + 1 ELSE files[f][r]
      <3>1. files' = [files EXCEPT ![file] = Added(files[file], q)]
        BY <1>6 DEF WriteChunk
      <3>2. Added(files[file], q)[r] = IF r = q THEN files[file][r] + 1 ELSE files[file][r]
        BY <1>a, <1>b, AddedCounts
      <3> QED
        BY <3>1, <3>2, <1>a
    <2>4. CASE r = q
      <3>1. transit[r] > 0
        BY <1>6, <2>4 DEF WriteChunk
      <3>2. archive[r] = 0 /\ lost[r] = 0 /\ transit[r] = 1 /\ ~OnFile(r) /\ Archived(r)
        BY <3>1, <1>a, <1>c DEF InOnePlace
      <3>3. \A f \in 1..Runs : files[f][r] = 0
        BY <3>2, <1>b DEF OnFile
      <3>4. \A f \in 1..Runs : files'[f][r] = IF f = file THEN 1 ELSE 0
        BY <2>3, <2>4, <3>3
      <3>5. OnFile(r)'
        BY <3>4, <1>a DEF OnFile
      <3> QED
        BY <2>1, <2>2, <2>4, <3>2, <3>4, <3>5 DEF InOnePlace
    <2>5. CASE r # q
      <3>1. \A f \in 1..Runs : files'[f][r] = files[f][r]
        BY <2>3, <2>5
      <3>2. OnFile(r)' = OnFile(r)
        BY <3>1 DEF OnFile
      <3> QED
        BY <2>1, <2>2, <2>5, <3>1, <3>2, <1>c DEF InOnePlace
    <2> QED
      BY <2>4, <2>5
  <1>7. CASE StatsFail
    <2>1. lost'[r] = lost[r] + transit[r] /\ transit'[r] = 0
      BY <1>7 DEF StatsFail, NoRows
    <2>2. archive' = archive /\ files' = files /\ Archived(r)' = Archived(r)
      BY <1>7 DEF StatsFail, serverVars, Archived
    <2> QED
      BY <2>1, <2>2, <1>a, <1>c DEF InOnePlace, OnFile
  <1> QED
    BY <1>1, <1>2, <1>3, <1>4, <1>5, <1>6, <1>7
    DEF Next, StatsStep, Ended, vars, serverVars, fileVars

LEMMA RowInvInit == Init => RowInv
  <1>1. Init => Unhandled /\ Idle
    BY DEF Init, ServerInit, Unhandled, Idle
  <1>2. ASSUME Init, NEW r \in Requests PROVE InOnePlace(r)
    <2>1. archive[r] = 0 /\ transit[r] = 0 /\ lost[r] = 0 /\ ~Archived(r)
      BY <1>2 DEF Init, ServerInit, NoRows, Archived
    <2>2. \A f \in 1..Runs : files[f][r] = 0
      BY <1>2 DEF Init, NoRows
    <2> QED
      BY <2>1, <2>2 DEF InOnePlace, OnFile
  <1> QED
    BY <1>1, <1>2, TypeInit DEF RowInv, RowsInOnePlace

LEMMA RowInvStep == RowInv /\ [Next]_vars => RowInv'
  BY TypeStep, UnhandledStep, IdleStep, RowsStep DEF RowInv

(* RowsInOnePlace: no handler, download or run loses a row or writes it     *)
(* twice, except for the rows of a response that breaks off.                *)
THEOREM RowsAreConserved == Spec => []RowsInOnePlace
  <1>1. RowInv => RowsInOnePlace
    BY DEF RowInv
  <1> QED
    BY RowInvInit, RowInvStep, <1>1, PTL DEF Spec

-------------------------------------------------------------------------------
(* What a measurement finds in its file.  A client counts a request as      *)
(* successful only after its handler has pushed the row; a download takes   *)
(* all the rows there are, and while it is written no row of a request it   *)
(* is about can come back to the archive; and the files are written in      *)
(* their order, so that no row is in a file of a later name.                *)
OkIsServed == \A r \in Requests : client[r] = "ok" => handler[r] = "served"
CoveredIsTaken ==
    phase = "writing" => \A r \in covered : handler[r] = "served" /\ archive[r] = 0
NoLaterFile == \A f \in 1..Runs, r \in Requests : files[f][r] > 0 => f <= file
MeasureInv == RowInv /\ OkIsServed /\ CoveredIsTaken /\ NoLaterFile

(* A handler that has served stays so, and pushes no second row.            *)
LEMMA ServedStays ==
    ASSUME RowInv, [Next]_vars, NEW r \in Requests, handler[r] = "served"
    PROVE  handler'[r] = "served" /\ (archive[r] = 0 => archive'[r] = 0)
  <1> USE DEF RowInv, TypeOK, ServerTypeOK
  <1>1. CASE UNCHANGED serverVars
    BY <1>1 DEF serverVars
  <1>2. ASSUME NEW q \in Requests, ServerStep(q)
        PROVE  handler'[r] = "served" /\ (archive[r] = 0 => archive'[r] = 0)
    <2>1. handler[q] # "served" /\ q # r
      BY <1>2 DEF ServerStep, HandlerStep, Greet, Compute, HandlerPanics, Push
    <2>2. handler'[r] = handler[r]
      BY <1>2, <2>1 DEF ServerStep, HandlerStep, Greet, Compute, HandlerPanics, Push, Handle
    <2>3. archive' = archive \/ archive' = Added(archive, q)
      BY <1>2 DEF ServerStep, HandlerStep, Greet, Compute, HandlerPanics, Push
    <2>4. archive'[r] = archive[r]
      BY <2>1, <2>3, AddedCounts
    <2> QED
      BY <2>2, <2>4
  <1>3. ASSUME NEW q \in Requests, NEW h \in {"hot", "cold"}, Post(q, h)
        PROVE  handler'[r] = "served" /\ (archive[r] = 0 => archive'[r] = 0)
    <2>1. handler[q] = "none" /\ q # r
      BY <1>3 DEF Post, Unhandled
    <2> QED
      BY <1>3, <2>1 DEF Post, Handle
  <1>4. CASE GetStats
    BY <1>4 DEF GetStats, Drained, NoRows
  <1> QED
    BY <1>1, <1>2, <1>3, <1>4
    DEF Next, ClientStep, RunStep, StatsStep, JudgeMeasurement, LastTickTaken, RunOver,
        WriteChunk, StatsWritten, StatsFail, Ended, vars, GetAnswer, GiveUp

LEMMA OkStep == MeasureInv /\ [Next]_vars => OkIsServed'
  <1> SUFFICES ASSUME MeasureInv, [Next]_vars, NEW r \in Requests, client'[r] = "ok"
               PROVE  handler'[r] = "served"
    BY DEF OkIsServed
  <1>1. CASE client[r] = "ok"
    <2>1. RowInv /\ handler[r] = "served"
      BY <1>1 DEF MeasureInv, OkIsServed
    <2> QED
      BY <2>1, ServedStays
  <1>2. CASE client[r] # "ok"
    <2>0. client \in [Requests -> {"none", "waiting", "ok", "wrong", "error"}]
      BY DEF MeasureInv, RowInv, TypeOK
    <2>1. client' # client
      BY <1>2
    <2>2. PICK q \in Requests : ClientStep(q)
      BY <2>1
      DEF Next, ServerStep, RunStep, StatsStep, JudgeMeasurement, LastTickTaken, RunOver,
          GetStats, WriteChunk, StatsWritten, StatsFail, Ended, vars, clientVars
    <2>3. CASE GetAnswer(q)
      BY <1>2, <2>0, <2>3 DEF GetAnswer, BodyOk, Answered, Learns, serverVars
    <2>4. CASE GiveUp(q)
      BY <1>2, <2>0, <2>4 DEF GiveUp, Learns
    <2>5. ASSUME NEW h \in {"hot", "cold"}, Post(q, h) PROVE FALSE
      BY <1>2, <2>0, <2>5 DEF Post, Learns
    <2> QED
      BY <2>2, <2>3, <2>4, <2>5 DEF ClientStep
  <1> QED
    BY <1>1, <1>2

LEMMA CoveredStep == MeasureInv /\ [Next]_vars => CoveredIsTaken'
  <1> SUFFICES ASSUME MeasureInv, [Next]_vars, phase' = "writing",
                      NEW r \in covered'
               PROVE  handler'[r] = "served" /\ archive'[r] = 0
    BY DEF CoveredIsTaken
  <1>1. RowInv /\ covered \subseteq Requests /\ OkIsServed /\ CoveredIsTaken
    BY DEF MeasureInv, RowInv, TypeOK
  <1>2. CASE GetStats
    <2>1. r \in Requests /\ client[r] = "ok"
      BY <1>2 DEF GetStats, In
    <2> QED
      BY <1>1, <1>2, <2>1 DEF GetStats, OkIsServed, Drained, NoRows
  <1>3. CASE ~GetStats
    <2>1. phase = "writing" /\ covered' = covered
      BY <1>3
      DEF Next, ServerStep, ClientStep, RunStep, StatsStep, JudgeMeasurement, LastTickTaken,
          RunOver, WriteChunk, StatsWritten, StatsFail, Ended, vars, clientVars, fileVars,
          NextRun, GetAnswer, GiveUp, Post
    <2>2. r \in Requests /\ handler[r] = "served" /\ archive[r] = 0
      BY <1>1, <2>1 DEF CoveredIsTaken
    <2> QED
      BY <1>1, <2>2, ServedStays
  <1> QED
    BY <1>2, <1>3

(* The name of the file only grows.                                         *)
LEMMA FileGrows == TypeOK /\ [Next]_vars => file' >= file
  <1> SUFFICES ASSUME TypeOK, [Next]_vars PROVE file' >= file
    OBVIOUS
  <1>1. run \in Nat /\ file \in Nat /\ file <= run
    BY ServerStatisticsAssumption DEF TypeOK
  <1>2. CASE file' = file
    BY <1>1, <1>2
  <1>3. ASSUME NEW named \in {file, file + 1, run + 1}, NextRun(named)
        PROVE  file' >= file
    BY <1>1, <1>3 DEF NextRun
  <1> QED
    BY <1>2, <1>3
    DEF Next, ServerStep, ClientStep, RunStep, StatsStep, JudgeMeasurement, LastTickTaken,
        RunOver, GetStats, WriteChunk, StatsWritten, StatsFail, Ended, vars, clientVars,
        GetAnswer, GiveUp, Post

LEMMA LaterStep == MeasureInv /\ [Next]_vars => NoLaterFile'
  <1> SUFFICES ASSUME MeasureInv, [Next]_vars,
                      NEW f \in 1..Runs, NEW r \in Requests, files'[f][r] > 0
               PROVE  f <= file'
    BY DEF NoLaterFile
  <1>1. TypeOK /\ NoLaterFile
    BY DEF MeasureInv, RowInv
  <1>2. file' >= file /\ file \in Nat /\ run' \in 1..Runs /\ file' \in 1..run'
    BY <1>1, FileGrows, TypeStep, ServerStatisticsAssumption DEF TypeOK
  <1>3. file' \in Nat /\ f \in Nat
    BY <1>2, ServerStatisticsAssumption
  <1>4. CASE f <= file
    BY <1>2, <1>3, <1>4
  <1>5. CASE ~(f <= file)
    <2>1. files'[f] = files[f]
      <3>1. CASE files' = files
        BY <3>1
      <3>2. ASSUME NEW q \in Requests, WriteChunk(q) PROVE files'[f] = files[f]
        <4>1. f # file
          BY <1>2, <1>5
        <4>2. files \in [1..Runs -> Rows]
          BY <1>1 DEF TypeOK
        <4> QED
          BY <3>2, <4>1, <4>2 DEF WriteChunk
      <3> QED
        BY <3>1, <3>2
        DEF Next, ServerStep, ClientStep, RunStep, StatsStep, JudgeMeasurement,
            LastTickTaken, RunOver, GetStats, StatsWritten, StatsFail, Ended, vars,
            fileVars, GetAnswer, GiveUp, Post
    <2> QED
      BY <1>1, <1>5, <2>1 DEF NoLaterFile
  <1> QED
    BY <1>4, <1>5

(* MeasurementHasItsRows: when the statistics of a measurement are written, *)
(* every request it counted has its row in the file named after it or in an *)
(* earlier one, unless a download broke off.                                *)
THEOREM MeasurementsHaveTheirRows == Spec => []MeasurementHasItsRows
  <1>1. Init => MeasureInv
    <2>1. Init => OkIsServed /\ CoveredIsTaken
      BY DEF Init, OkIsServed, CoveredIsTaken
    <2>2. Init => NoLaterFile
      BY DEF Init, NoRows, NoLaterFile
    <2> QED
      BY <2>1, <2>2, RowInvInit DEF MeasureInv
  <1>2. MeasureInv /\ [Next]_vars => MeasureInv'
    BY RowInvStep, OkStep, CoveredStep, LaterStep DEF MeasureInv
  <1>3. MeasureInv => MeasurementHasItsRows
    <2> SUFFICES ASSUME MeasureInv, build = "timestamp", request_type = "matmul",
                        phase = "writing", transit = NoRows, NEW r \in covered
                 PROVE  lost[r] > 0 \/ \E f \in 1..file : files[f][r] > 0
      BY DEF MeasurementHasItsRows
    <2>1. r \in Requests /\ lost \in Rows /\ file \in Nat
      BY ServerStatisticsAssumption DEF MeasureInv, RowInv, TypeOK
    <2>2. lost[r] \in Nat
      BY <2>1 DEF Rows
    <2>3. Archived(r) /\ archive[r] = 0 /\ transit[r] = 0
      BY <2>1 DEF MeasureInv, CoveredIsTaken, Archived, NoRows
    <2>4. InOnePlace(r)
      BY <2>1 DEF MeasureInv, RowInv, RowsInOnePlace
    <2>5. lost[r] + (IF OnFile(r) THEN 1 ELSE 0) = 1
      BY <2>2, <2>3, <2>4 DEF InOnePlace
    <2>6. CASE OnFile(r)
      <3>1. PICK f \in 1..Runs : files[f][r] > 0
        BY <2>6 DEF OnFile
      <3>2. f <= file
        BY <2>1, <3>1 DEF MeasureInv, NoLaterFile
      <3>3. f \in 1..file
        BY <2>1, <3>2, ServerStatisticsAssumption
      <3> QED
        BY <3>1, <3>3
    <2>7. CASE ~OnFile(r)
      BY <2>2, <2>5, <2>7
    <2> QED
      BY <2>6, <2>7
  <1> QED
    BY <1>1, <1>2, <1>3, PTL DEF Spec
===============================================================================
