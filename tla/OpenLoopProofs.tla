----------------------------- MODULE OpenLoopProofs -----------------------------
(***************************************************************************)
(* Theorems about OpenLoop, for every set of traces, every duration and    *)
(* resolution of the clock, every slack and number of late iterations the  *)
(* timer puts up with, and every capacity of the two channels.             *)
(***************************************************************************)
EXTENDS OpenLoop, FiniteSetTheorems, SequenceTheorems, WellFoundedInduction, TLAPS

-------------------------------------------------------------------------------
(* Start times. *)

LEMMA Quotient == \A n \in Nat, d \in Nat \ {0} : n \div d \in Nat
  OBVIOUS

(* The rate of a second of the run is the rate of an entry of the trace, or *)
(* 0.                                                                       *)
LEMMA RateIsNat ==
    ASSUME NEW c \in InitialChanges, NEW t \in Nat, ~Exhausted(t)
    PROVE  RateAt(c, t) \in Nat
  <1>1. c \in Seq([time : Nat, rate : Nat])
    BY RateTraceAssumption
  <1>2. Second(t) \in 0..(Duration - 1)
    <2>1. Second(t) \in Nat
      BY RateTraceAssumption, Quotient DEF Second
    <2> QED
      BY <2>1, RateTraceAssumption DEF Exhausted
  <1>3. \A i \in DOMAIN c : c[i].rate \in Nat
    <2> SUFFICES ASSUME NEW i \in DOMAIN c PROVE c[i].rate \in Nat
      OBVIOUS
    <2>1. c[i] \in [time : Nat, rate : Nat]
      BY <1>1, ElementOfSeq, LenProperties
    <2> QED
      BY <2>1
  <1>4. \A s \in 0..(Duration - 1) : RatePerSec(c)[s] \in Nat
    <2> SUFFICES ASSUME NEW s \in 0..(Duration - 1) PROVE RatePerSec(c)[s] \in Nat
      OBVIOUS
    <2>1. CASE \E i \in DOMAIN c : s \in Fills(c, i)
      <3> DEFINE i == CHOOSE i \in DOMAIN c : s \in Fills(c, i)
      <3>1. i \in DOMAIN c
        BY <2>1
      <3>2. RatePerSec(c)[s] = c[i].rate
        BY <2>1 DEF RatePerSec
      <3> QED
        BY <1>3, <3>1, <3>2
    <2>2. CASE ~\E i \in DOMAIN c : s \in Fills(c, i)
      BY <2>2 DEF RatePerSec
    <2> QED
      BY <2>1, <2>2
  <1> QED
    BY <1>2, <1>4 DEF RateAt

LEMMA NextStartIsNat ==
    ASSUME NEW c \in InitialChanges, NEW t \in Nat, ~Exhausted(t), RateAt(c, t) > 0
    PROVE  t + Interarrival(RateAt(c, t)) \in Nat
  <1>1. RateAt(c, t) \in Nat \ {0}
    BY RateIsNat
  <1>2. 2 * TicksPerSec + RateAt(c, t) \in Nat /\ 2 * RateAt(c, t) \in Nat \ {0}
    BY <1>1, RateTraceAssumption
  <1>3. Interarrival(RateAt(c, t)) \in Nat
    BY <1>2, Quotient DEF Interarrival
  <1> QED
    BY <1>3

-------------------------------------------------------------------------------
(* Counting records by their answer. *)

Counts == [Answers -> Nat]
NoRecords == [a \in Answers |-> 0]

LEMMA BothIsNat == \A n \in Counts : Both(n) \in Nat
  BY DEF Counts, Answers, Both

LEMMA OneMore ==
    ASSUME NEW n \in Counts, NEW m, NEW a \in Answers, m = [n EXCEPT ![a] = @ + 1]
    PROVE  m \in Counts /\ Both(m) = Both(n) + 1
  <1>1. n["ok"] \in Nat /\ n["failed"] \in Nat
    BY DEF Counts, Answers
  <1>2. m \in Counts
    BY DEF Counts
  <1>3. CASE a = "ok"
    <2>1. m["ok"] = n["ok"] + 1 /\ m["failed"] = n["failed"]
      BY <1>3 DEF Counts, Answers
    <2> QED
      BY <1>1, <1>2, <2>1 DEF Both
  <1>4. CASE a = "failed"
    <2>1. m["ok"] = n["ok"] /\ m["failed"] = n["failed"] + 1
      BY <1>4 DEF Counts, Answers
    <2> QED
      BY <1>1, <1>2, <2>1 DEF Both
  <1> QED
    BY <1>3, <1>4 DEF Answers

LEMMA OneFewer ==
    ASSUME NEW n \in Counts, NEW m, NEW a \in Answers, n[a] > 0, m = [n EXCEPT ![a] = @ - 1]
    PROVE  m \in Counts /\ Both(m) = Both(n) - 1
  <1>1. n["ok"] \in Nat /\ n["failed"] \in Nat
    BY DEF Counts, Answers
  <1>2. n[a] - 1 \in Nat
    BY DEF Counts
  <1>3. m \in Counts
    BY <1>2 DEF Counts
  <1>4. CASE a = "ok"
    <2>1. m["ok"] = n["ok"] - 1 /\ m["failed"] = n["failed"]
      BY <1>4 DEF Counts, Answers
    <2> QED
      BY <1>1, <1>3, <2>1 DEF Both
  <1>5. CASE a = "failed"
    <2>1. m["ok"] = n["ok"] /\ m["failed"] = n["failed"] - 1
      BY <1>5 DEF Counts, Answers
    <2> QED
      BY <1>1, <1>3, <2>1 DEF Both
  <1> QED
    BY <1>4, <1>5 DEF Answers

LEMMA NoneCounted == NoRecords \in Counts /\ Both(NoRecords) = 0
  <1>1. NoRecords["ok"] = 0 /\ NoRecords["failed"] = 0
    BY DEF NoRecords, Answers
  <1> QED
    BY <1>1 DEF NoRecords, Counts, Both

LEMMA SomeCounted ==
    ASSUME NEW n \in Counts, NEW a \in Answers, n[a] > 0
    PROVE  Both(n) > 0
  <1>1. n["ok"] \in Nat /\ n["failed"] \in Nat
    BY DEF Counts, Answers
  <1> QED
    BY <1>1 DEF Answers, Both

-------------------------------------------------------------------------------
(* Types.  That late_counter stays within its limit needs that a timer      *)
(* that has not ended has not reached it, and that none runs before the     *)
(* trace is loaded.                                                         *)
Patient == timer \in {"none", "running"} => late_counter < LateLimit
Unspawned == main = "loading" => timer = "none"
TypeInv == TypeOK /\ Patient /\ Unspawned

LEMMA TypeInit == Init => TypeInv
  <1> SUFFICES ASSUME Init PROVE TypeInv
    OBVIOUS
  <1>1. sending = NoRecords /\ queued = NoRecords /\ logged = NoRecords
    BY DEF Init, NoRecords
  <1>2. /\ {sending, queued, logged} \subseteq [Answers -> Nat]
        /\ Both(queued) <= RecordCap
    BY <1>1, NoneCounted, OpenLoopAssumption DEF Counts
  <1> QED
    BY <1>2, OpenLoopAssumption DEF Init, TypeInv, TypeOK, Patient, Unspawned

LEMMA IterateTypes ==
    ASSUME TypeInv, NEW lag \in Lags, NEW pause \in Lags, Iterate(lag, pause)
    PROVE  TypeInv'
  <1> DEFINE next == now + Interarrival(RateAt(changes, now))
             issued == IF clock < next THEN next + lag ELSE clock
             late == IF IsLate(clock, next) THEN late_counter + 1 ELSE 0
  <1>1. changes \in InitialChanges /\ starts \in Seq(Nat) /\ clock \in Nat
    BY DEF TypeInv, TypeOK
  <1>2. now \in Nat
    BY <1>1 DEF now
  <1>3. next \in Nat
    BY <1>1, <1>2, NextStartIsNat DEF Iterate
  <1>4. issued \in Nat /\ pause \in Nat
    BY <1>1, <1>3, OpenLoopAssumption
  <1>5. late \in 0..LateLimit /\ (~GivesUp(late) => late < LateLimit)
    BY OpenLoopAssumption DEF TypeInv, TypeOK, Patient, Iterate, GivesUp
  <1>6. /\ starts' = Append(starts, next) /\ late_counter' = late /\ clock' = issued + pause
        /\ overdue' \in {overdue + 1, 0}
        /\ UNCHANGED <<changes, dispatcher, inflight, lost, recordVars, main>>
    BY DEF Iterate
  <1> HIDE DEF next, issued, late
  <1>7. starts' \in Seq(Nat) /\ clock' \in Nat /\ late_counter' \in 0..LateLimit
    BY <1>1, <1>3, <1>4, <1>5, <1>6
  <1>8. /\ timer' \in {"running", "late", "closed", "full"}
        /\ timer' = "running" => late < LateLimit /\ ticks' = ticks + 1 /\ ticks < TimerCap
        /\ timer' # "running" => ticks' = ticks
    BY <1>5 DEF Iterate, HasRoom, late, next
  <1>9. ticks' \in 0..TimerCap
    BY <1>8, OpenLoopAssumption DEF TypeInv, TypeOK
  <1>10. main # "loading"
    BY DEF TypeInv, Unspawned, Iterate
  <1>11. overdue' \in Nat
    BY <1>6 DEF TypeInv, TypeOK
  <1>12. TypeOK'
    BY <1>6, <1>7, <1>8, <1>9, <1>11 DEF TypeInv, TypeOK, recordVars
  <1> QED
    BY <1>6, <1>8, <1>10, <1>12 DEF TypeInv, Patient, Unspawned

LEMMA TypeStep == TypeInv /\ [Next]_vars => TypeInv'
  <1> SUFFICES ASSUME TypeInv, [Next]_vars PROVE TypeInv'
    OBVIOUS
  <1> USE DEF TypeInv, TypeOK, Patient, Unspawned, timerVars, recordVars
  <1>c. sending \in Counts /\ queued \in Counts /\ logged \in Counts
    BY DEF Counts
  <1>0. CASE UNCHANGED vars
    BY <1>0 DEF vars
  <1>1. CASE LoadTrace
    BY <1>1 DEF LoadTrace
  <1>2. CASE TimerEnds
    BY <1>2 DEF TimerEnds
  <1>3. ASSUME NEW lag \in Lags, NEW pause \in Lags, Iterate(lag, pause) PROVE TypeInv'
    BY <1>3, IterateTypes
  <1>4. CASE Dispatch
    BY <1>4, OpenLoopAssumption DEF Dispatch
  <1>5. CASE TicksOver \/ WriteStats
    BY <1>5 DEF TicksOver, WriteStats
  <1>6. CASE DispatcherPanics
    BY <1>6, OpenLoopAssumption DEF DispatcherPanics
  <1>7. ASSUME NEW a \in Answers, Complete(a) PROVE TypeInv'
    <2>1. sending' \in Counts
      BY <1>7, <1>c, OneMore DEF Complete
    <2> QED
      BY <1>7, <2>1 DEF Complete, Counts
  <1>8. CASE AnsweredWrong
    BY <1>8 DEF AnsweredWrong
  <1>9. ASSUME NEW a \in Answers, SendRecord(a) PROVE TypeInv'
    <2>1. sending' \in Counts
      BY <1>9, <1>c, OneFewer DEF SendRecord
    <2>2. queued' \in Counts /\ Both(queued') = Both(queued) + 1
      BY <1>9, <1>c, OneMore DEF SendRecord
    <2>3. Both(queued') <= RecordCap
      BY <1>9, <1>c, <2>2, BothIsNat, OpenLoopAssumption DEF SendRecord
    <2> QED
      BY <1>9, <2>1, <2>2, <2>3 DEF SendRecord, Counts
  <1>10. ASSUME NEW a \in Answers, Receive(a) PROVE TypeInv'
    <2>1. queued' \in Counts /\ Both(queued') = Both(queued) - 1
      BY <1>10, <1>c, OneFewer DEF Receive
    <2>2. logged' \in Counts
      BY <1>10, <1>c, OneMore DEF Receive
    <2>3. Both(queued') <= RecordCap
      BY <1>c, <2>1, BothIsNat, OpenLoopAssumption
    <2> QED
      BY <1>10, <2>1, <2>2, <2>3 DEF Receive, Counts
  <1>11. CASE RecordsOver \/ Join
    BY <1>11 DEF RecordsOver, Join
  <1> QED
    BY <1>0, <1>1, <1>2, <1>3, <1>4, <1>5, <1>6, <1>7, <1>8, <1>9, <1>10, <1>11
    DEF Next, TimerStep, DispatcherStep, AnswerStep, RecordStep, MainStep, Done

(* TypeOK: whatever the timer, the tasks and the caller do, in whatever     *)
(* order, no channel holds more than its capacity and no count is off.      *)
THEOREM OpenLoopTypes == Spec => []TypeOK
  <1>1. TypeInv => TypeOK
    BY DEF TypeInv
  <1> QED
    BY TypeInit, TypeStep, <1>1, PTL DEF Spec

-------------------------------------------------------------------------------
(* The life of a run.  Nothing is counted before the trace is loaded; the   *)
(* dispatcher leaves its loop with no tick in the channel and the timer     *)
(* gone; the caller stops collecting with no sender left and no record in   *)
(* the channel; and a timer that ends well has been through the whole       *)
(* trace.                                                                   *)
Nothing ==
    /\ starts = <<>> /\ ticks = 0 /\ inflight = 0 /\ lost = 0
    /\ Both(sending) = 0 /\ Both(queued) = 0 /\ Both(logged) = 0
Asleep ==
    /\ dispatcher = "none" <=> timer = "none"
    /\ main = "loading" => dispatcher = "none"
    /\ dispatcher = "none" => main \in {"loading", "panicked"} /\ Nothing
Drained == dispatcher \in {"stats", "ended"} => TicksGone
Collected == main \in {"joining", "ok", "err"} \/ (main = "panicked" /\ dispatcher # "none")
Finished == Collected => SendersGone /\ Both(queued) = 0
Timed ==
    /\ Returned => timer # "running"
    /\ main = "ok" => timer = "ok"
    /\ timer = "ok" => Exhausted(now)
    /\ timer = "closed" => dispatcher = "panicked"
Untaken == IF timer \in {"late", "full"} THEN 1 ELSE 0
Counted == dispatcher # "panicked" => Len(starts) = ticks + Dispatched + Untaken
RunInv == TypeInv /\ Asleep /\ Drained /\ Finished /\ Timed /\ Counted

LEMMA RunTypes ==
    ASSUME TypeInv
    PROVE  /\ sending \in Counts /\ queued \in Counts /\ logged \in Counts
           /\ Both(sending) \in Nat /\ Both(queued) \in Nat /\ Both(logged) \in Nat
           /\ inflight \in Nat /\ lost \in Nat /\ ticks \in Nat
           /\ starts \in Seq(Nat)
  <1>1. sending \in Counts /\ queued \in Counts /\ logged \in Counts
    BY DEF TypeInv, TypeOK, Counts
  <1> QED
    BY <1>1, BothIsNat, OpenLoopAssumption DEF TypeInv, TypeOK

LEMMA RunInit == Init => RunInv
  <1> SUFFICES ASSUME Init PROVE RunInv
    OBVIOUS
  <1>1. sending = NoRecords /\ queued = NoRecords /\ logged = NoRecords
    BY DEF Init, NoRecords
  <1>2. Nothing
    BY <1>1, NoneCounted DEF Init, Nothing
  <1>3. Asleep /\ Drained /\ Finished /\ Timed
    BY <1>2 DEF Init, Asleep, Drained, Finished, Collected, Timed, Returned
  <1>4. Counted
    <2>1. Len(starts) = 0 /\ Untaken = 0
      BY DEF Init, Untaken
    <2> QED
      BY <1>2, <2>1 DEF Counted, Nothing, Dispatched
  <1> QED
    BY <1>3, <1>4, TypeInit DEF RunInv

(* Once the trace is loaded, the dispatcher has been spawned.               *)
LEMMA Awake ==
    ASSUME RunInv, Next, ~LoadTrace, vars' # vars
    PROVE  dispatcher # "none" /\ timer # "none" /\ main # "loading"
  <1> USE DEF RunInv, Asleep
  <1>1. CASE dispatcher # "none"
    BY <1>1
  <1>2. CASE main \notin {"loading", "panicked"}
    BY <1>2
  <1>3. CASE timer = "running"
    BY <1>3
  <1>4. CASE inflight > 0
    BY <1>4 DEF Nothing
  <1>5. ASSUME NEW a \in Answers, sending[a] > 0 PROVE dispatcher # "none"
    <2>1. Both(sending) > 0
      BY <1>5, RunTypes, SomeCounted
    <2> QED
      BY <2>1, RunTypes DEF Nothing
  <1> QED
    BY <1>1, <1>2, <1>3, <1>4, <1>5
    DEF Next, TimerStep, TimerEnds, Iterate, DispatcherStep, Dispatch, TicksOver, WriteStats,
        DispatcherPanics, AnswerStep, AnsweredWrong, Complete, RecordStep, SendRecord,
        MainStep, RecordsOver, Join, Receive, Done

LEMMA AsleepStep == RunInv /\ [Next]_vars => Asleep'
  <1> SUFFICES ASSUME RunInv, [Next]_vars PROVE Asleep'
    OBVIOUS
  <1>1. CASE vars' = vars
    BY <1>1 DEF vars, timerVars, recordVars, RunInv, Asleep, Nothing
  <1>2. CASE LoadTrace
    <2>1. /\ dispatcher = "none" /\ Nothing /\ timer = "none"
          /\ UNCHANGED <<starts, ticks, inflight, lost, sending, queued, logged>>
      BY <1>2 DEF LoadTrace, RunInv, Asleep, recordVars
    <2> QED
      BY <1>2, <2>1 DEF LoadTrace, Asleep, Nothing
  <1>3. CASE Next /\ ~LoadTrace /\ vars' # vars
    <2>1. dispatcher # "none" /\ timer # "none" /\ main # "loading"
      BY <1>3, Awake
    <2>2. dispatcher' # "none" /\ timer' # "none" /\ main' # "loading"
      BY <1>3, <2>1
      DEF Next, TimerStep, TimerEnds, Iterate, DispatcherStep, Dispatch, TicksOver,
          WriteStats, DispatcherPanics, AnswerStep, AnsweredWrong, Complete, RecordStep,
          SendRecord, MainStep, RecordsOver, Join, Receive, Done, timerVars
    <2> QED
      BY <2>2 DEF Asleep
  <1> QED
    BY <1>1, <1>2, <1>3

LEMMA DrainedStep == RunInv /\ [Next]_vars => Drained'
  <1> SUFFICES ASSUME RunInv, [Next]_vars, dispatcher' \in {"stats", "ended"}
               PROVE  ticks' = 0 /\ timer' # "running"
    BY DEF Drained, TicksGone
  <1>1. CASE TicksOver
    BY <1>1 DEF TicksOver, TicksGone, timerVars
  <1>2. CASE ~TicksOver
    <2>1. dispatcher \in {"stats", "ended"}
      BY <1>2
      DEF Next, TimerStep, TimerEnds, Iterate, DispatcherStep, Dispatch, WriteStats,
          DispatcherPanics, AnswerStep, AnsweredWrong, Complete, RecordStep, SendRecord,
          MainStep, LoadTrace, RecordsOver, Join, Receive, Done, vars
    <2>2. ticks = 0 /\ timer # "running"
      BY <2>1 DEF RunInv, Drained, TicksGone
    <2>3. ~LoadTrace
      BY <2>1 DEF LoadTrace, RunInv, Asleep
    <2> QED
      BY <1>2, <2>1, <2>2, <2>3
      DEF Next, TimerStep, TimerEnds, Iterate, DispatcherStep, Dispatch, WriteStats,
          DispatcherPanics, AnswerStep, AnsweredWrong, Complete, RecordStep, SendRecord,
          MainStep, RecordsOver, Join, Receive, Done, vars, timerVars
  <1> QED
    BY <1>1, <1>2

LEMMA FinishedStep == RunInv /\ [Next]_vars => Finished'
  <1> SUFFICES ASSUME RunInv, [Next]_vars, Collected'
               PROVE  SendersGone' /\ Both(queued)' = 0
    BY DEF Finished
  <1>t. /\ inflight \in Nat /\ Both(sending) \in Nat /\ Both(queued) \in Nat
        /\ sending \in Counts /\ queued \in Counts
    BY RunTypes DEF RunInv
  <1>1. CASE vars' = vars
    BY <1>1 DEF RunInv, Finished, Collected, SendersGone, vars, recordVars
  <1>2. CASE RecordsOver
    BY <1>2 DEF RecordsOver, SendersGone, recordVars
  <1>3. CASE LoadTrace
    BY <1>3 DEF LoadTrace, Collected, RunInv, Asleep
  <1>4. CASE Next /\ vars' # vars /\ ~RecordsOver /\ ~LoadTrace
    <2>1. dispatcher # "none"
      BY <1>4, Awake
    <2>2. main \in {"joining", "ok", "err", "panicked"}
      BY <1>4
      DEF Collected, Next, TimerStep, TimerEnds, Iterate, DispatcherStep, Dispatch,
          TicksOver, WriteStats, DispatcherPanics, AnswerStep, AnsweredWrong, Complete,
          RecordStep, SendRecord, MainStep, Join, Receive, Done, vars
    <2>3. SendersGone /\ Both(queued) = 0
      BY <2>1, <2>2 DEF RunInv, Finished, Collected
    <2>4. /\ dispatcher \in {"ended", "panicked"} /\ inflight = 0 /\ Both(sending) = 0
          /\ \A a \in Answers : ~(sending[a] > 0)
      <3>1. inflight = 0 /\ Both(sending) = 0
        BY <1>t, <2>3 DEF SendersGone
      <3>2. ASSUME NEW a \in Answers, sending[a] > 0 PROVE FALSE
        BY <1>t, <3>1, <3>2, SomeCounted
      <3> QED
        BY <2>3, <3>1, <3>2 DEF SendersGone
    <2>5. UNCHANGED <<dispatcher, inflight, sending, queued>>
      BY <1>4, <2>2, <2>4
      DEF Next, TimerStep, TimerEnds, Iterate, DispatcherStep, Dispatch, TicksOver,
          WriteStats, DispatcherPanics, AnswerStep, AnsweredWrong, Complete, RecordStep,
          SendRecord, MainStep, Join, Receive, Done, vars, recordVars
    <2> QED
      BY <2>3, <2>5 DEF SendersGone
  <1> QED
    BY <1>1, <1>2, <1>3, <1>4

LEMMA TimedStep == RunInv /\ [Next]_vars => Timed'
  <1> SUFFICES ASSUME RunInv, [Next]_vars PROVE Timed'
    OBVIOUS
  <1> USE DEF RunInv, Timed
  <1>1. CASE vars' = vars
    BY <1>1 DEF vars, timerVars, Returned, now
  <1>2. CASE LoadTrace
    <2>1. timer = "none" /\ timer' \in {"none", "running"}
      BY <1>2 DEF LoadTrace, Asleep
    <2>2. main' = "collecting" \/ (main' = "panicked" /\ timer' = timer)
      BY <1>2 DEF LoadTrace
    <2> QED
      BY <2>1, <2>2 DEF Returned
  <1>3. CASE TimerEnds
    <2>1. starts' = starts /\ main' = main /\ dispatcher' = dispatcher
      BY <1>3 DEF TimerEnds
    <2>2. timer = "running" /\ timer' \in {"ok", "panicked"}
      BY <1>3 DEF TimerEnds
    <2>3. timer' = "ok" => Exhausted(now)
      BY <1>3 DEF TimerEnds
    <2> QED
      BY <2>1, <2>2, <2>3 DEF Returned, now
  <1>4. ASSUME NEW lag \in Lags, NEW pause \in Lags, Iterate(lag, pause) PROVE Timed'
    <2>1. timer = "running" /\ main' = main /\ dispatcher' = dispatcher
      BY <1>4 DEF Iterate
    <2>2. /\ timer' \in {"running", "late", "full", "closed"}
          /\ timer' = "closed" => dispatcher = "panicked"
      BY <1>4 DEF Iterate
    <2> QED
      BY <2>1, <2>2 DEF Returned
  <1>5. CASE Join
    BY <1>5 DEF Join, Returned, timerVars, now
  <1>6. CASE DispatcherStep
    <2>1. UNCHANGED <<timer, starts, main>>
      BY <1>6 DEF DispatcherStep, Dispatch, TicksOver, WriteStats, DispatcherPanics, timerVars
    <2>2. dispatcher = "panicked" => dispatcher' = "panicked"
      BY <1>6 DEF DispatcherStep, Dispatch, TicksOver, WriteStats, DispatcherPanics
    <2> QED
      BY <2>1, <2>2 DEF Returned, now
  <1>7. CASE AnswerStep \/ RecordStep \/ RecordsOver \/ \E a \in Answers : Receive(a)
    <2>1. UNCHANGED <<timer, starts, dispatcher>> /\ (main' = main \/ main' = "joining")
      BY <1>7 DEF AnswerStep, AnsweredWrong, Complete, RecordStep, SendRecord, RecordsOver,
                  Receive, timerVars
    <2> QED
      BY <2>1 DEF Returned, now
  <1> QED
    BY <1>1, <1>2, <1>3, <1>4, <1>5, <1>6, <1>7 DEF Next, TimerStep, MainStep, Done

(* The arithmetic of one tick taken.                                        *)
LEMMA MovesOn ==
    ASSUME NEW n \in Nat, NEW t \in Nat, NEW d \in Nat, NEW u \in Nat, n = t + d + u
    PROVE  n = (t - 1) + (d + 1) + u
  OBVIOUS

LEMMA CountedStep == RunInv /\ [Next]_vars => Counted'
  <1> SUFFICES ASSUME RunInv, [Next]_vars, dispatcher' # "panicked"
               PROVE  Len(starts)' = (ticks + Dispatched + Untaken)'
    BY DEF Counted
  <1>t. /\ sending \in Counts /\ queued \in Counts /\ logged \in Counts
        /\ Both(sending) \in Nat /\ Both(queued) \in Nat /\ Both(logged) \in Nat
        /\ inflight \in Nat /\ lost \in Nat /\ ticks \in Nat /\ starts \in Seq(Nat)
        /\ Untaken \in Nat /\ Len(starts) \in Nat
    BY RunTypes DEF RunInv, Untaken
  <1>d. dispatcher # "panicked"
    BY DEF Next, TimerStep, TimerEnds, Iterate, DispatcherStep, Dispatch, TicksOver,
          WriteStats, DispatcherPanics, AnswerStep, AnsweredWrong, Complete, RecordStep,
          SendRecord, MainStep, LoadTrace, RecordsOver, Join, Receive, Done, vars, RunInv,
          Asleep
  <1>c. Len(starts) = ticks + Dispatched + Untaken
    BY <1>d DEF RunInv, Counted
  <1>1. CASE UNCHANGED <<starts, ticks, inflight, lost, recordVars>> /\ Untaken' = Untaken
    BY <1>1, <1>c DEF Dispatched, recordVars
  <1>e. CASE starts' = starts /\ ticks' = ticks /\ Untaken' = Untaken /\ Dispatched' = Dispatched
    BY <1>c, <1>e
  <1>2. CASE vars' = vars
    BY <1>1, <1>2 DEF vars, timerVars, Untaken
  <1>3. CASE LoadTrace
    <2>1. timer = "none" /\ timer' \in {"none", "running"}
      BY <1>3 DEF LoadTrace, RunInv, Asleep
    <2> QED
      BY <1>1, <1>3, <2>1 DEF LoadTrace, Untaken
  <1>4. CASE TimerEnds
    BY <1>1, <1>4 DEF TimerEnds, Untaken
  <1>5. ASSUME NEW lag \in Lags, NEW pause \in Lags, Iterate(lag, pause)
        PROVE  Len(starts)' = (ticks + Dispatched + Untaken)'
    <2>1. Len(starts') = Len(starts) + 1
      BY <1>5, <1>t DEF Iterate
    <2>2. UNCHANGED <<inflight, lost, recordVars>> /\ timer = "running"
      BY <1>5 DEF Iterate
    <2>3. \/ timer' = "running" /\ ticks' = ticks + 1
          \/ timer' \in {"late", "full"} /\ ticks' = ticks
      BY <1>5, <1>d DEF Iterate
    <2>4. Dispatched' = Dispatched /\ Dispatched \in Nat
      BY <1>t, <2>2 DEF Dispatched, recordVars
    <2>5. Untaken = 0
      BY <2>2 DEF Untaken
    <2>6. Len(starts') = ticks + Dispatched + 1
      BY <1>t, <1>c, <2>1, <2>4, <2>5
    <2>7. CASE timer' = "running" /\ ticks' = ticks + 1
      <3>1. Untaken' = 0
        BY <2>7 DEF Untaken
      <3> QED
        BY <1>t, <2>4, <2>6, <2>7, <3>1
    <2>8. CASE timer' \in {"late", "full"} /\ ticks' = ticks
      <3>1. Untaken' = 1
        BY <2>8 DEF Untaken
      <3> QED
        BY <1>t, <2>4, <2>6, <2>8, <3>1
    <2> QED
      BY <2>3, <2>7, <2>8
  <1>6. CASE Dispatch
    <2>1. /\ ticks > 0 /\ ticks' = ticks - 1 /\ inflight' = inflight + 1
          /\ UNCHANGED <<starts, lost, sending, queued, logged>> /\ Untaken' = Untaken
      BY <1>6 DEF Dispatch, timerVars, recordVars, Untaken
    <2>2. Dispatched' = Dispatched + 1 /\ Dispatched \in Nat
      BY <1>t, <2>1 DEF Dispatched
    <2>3. Len(starts') = ticks' + Dispatched' + Untaken'
      BY <1>t, <1>c, <2>1, <2>2, MovesOn
    <2> QED
      BY <2>3
  <1>7. CASE TicksOver \/ WriteStats \/ RecordsOver \/ Join
    BY <1>1, <1>7 DEF TicksOver, WriteStats, RecordsOver, Join, timerVars, Untaken
  <1>8. ASSUME NEW a \in Answers, Complete(a)
        PROVE  Len(starts)' = (ticks + Dispatched + Untaken)'
    <2>1. Both(sending') = Both(sending) + 1
      BY <1>8, <1>t, OneMore DEF Complete
    <2>2. /\ inflight' = inflight - 1 /\ UNCHANGED <<starts, ticks, lost, queued, logged>>
          /\ Untaken' = Untaken
      BY <1>8 DEF Complete, timerVars, Untaken
    <2>3. Dispatched' = Dispatched
      BY <1>t, <2>1, <2>2 DEF Dispatched
    <2> QED
      BY <1>e, <2>2, <2>3
  <1>9. CASE AnsweredWrong
    <2>1. /\ inflight' = inflight - 1 /\ lost' = lost + 1
          /\ UNCHANGED <<starts, ticks, sending, queued, logged>> /\ Untaken' = Untaken
      BY <1>9 DEF AnsweredWrong, timerVars, recordVars, Untaken
    <2>2. Dispatched' = Dispatched
      BY <1>t, <2>1 DEF Dispatched
    <2> QED
      BY <1>e, <2>1, <2>2
  <1>10. ASSUME NEW a \in Answers, SendRecord(a)
         PROVE  Len(starts)' = (ticks + Dispatched + Untaken)'
    <2>1. Both(sending') = Both(sending) - 1
      BY <1>10, <1>t, OneFewer DEF SendRecord
    <2>2. Both(queued') = Both(queued) + 1
      BY <1>10, <1>t, OneMore DEF SendRecord
    <2>3. UNCHANGED <<starts, ticks, inflight, lost, logged>> /\ Untaken' = Untaken
      BY <1>10 DEF SendRecord, timerVars, Untaken
    <2>4. Dispatched' = Dispatched
      BY <1>t, <2>1, <2>2, <2>3 DEF Dispatched
    <2> QED
      BY <1>e, <2>3, <2>4
  <1>11. ASSUME NEW a \in Answers, Receive(a)
         PROVE  Len(starts)' = (ticks + Dispatched + Untaken)'
    <2>1. Both(queued') = Both(queued) - 1
      BY <1>11, <1>t, OneFewer DEF Receive
    <2>2. Both(logged') = Both(logged) + 1
      BY <1>11, <1>t, OneMore DEF Receive
    <2>3. UNCHANGED <<starts, ticks, inflight, lost, sending>> /\ Untaken' = Untaken
      BY <1>11 DEF Receive, timerVars, Untaken
    <2>4. Dispatched' = Dispatched
      BY <1>t, <2>1, <2>2, <2>3 DEF Dispatched
    <2> QED
      BY <1>e, <2>3, <2>4
  <1>12. CASE DispatcherPanics
    BY <1>12 DEF DispatcherPanics
  <1> QED
    BY <1>2, <1>3, <1>4, <1>5, <1>6, <1>7, <1>8, <1>9, <1>10, <1>11, <1>12
    DEF Next, TimerStep, DispatcherStep, AnswerStep, RecordStep, MainStep, Done

(* The inductive invariant of a run.                                        *)
THEOREM OpenLoopInvariant == Spec => []RunInv
  <1>1. RunInv /\ [Next]_vars => RunInv'
    <2>1. RunInv /\ [Next]_vars => TypeInv'
      BY TypeStep DEF RunInv
    <2> QED
      BY <2>1, AsleepStep, DrainedStep, FinishedStep, TimedStep, CountedStep DEF RunInv
  <1> QED
    BY RunInit, <1>1, PTL DEF Spec

(* TicksBecomeRequests: as long as the dispatcher lives no start time is    *)
(* lost between the timer, the channels, the request tasks and the log, so  *)
(* that a run that ends well has gone through the whole trace and has a     *)
(* record of every request that did not fail verification.                  *)
THEOREM EveryTickIsCounted == Spec => []TicksBecomeRequests
  <1>1. RunInv => TicksBecomeRequests
    <2> SUFFICES ASSUME RunInv, dispatcher # "panicked"
                 PROVE  /\ Len(starts) = ticks + Dispatched + Untaken
                        /\ main = "ok" => /\ Exhausted(now)
                                          /\ Both(logged) + lost = Len(starts)
      BY DEF TicksBecomeRequests, Untaken
    <2>1. Len(starts) = ticks + Dispatched + Untaken
      BY DEF RunInv, Counted
    <2>2. ASSUME main = "ok"
          PROVE  Exhausted(now) /\ Both(logged) + lost = Len(starts)
      <3>1. timer = "ok" /\ Exhausted(now) /\ Untaken = 0
        BY <2>2 DEF RunInv, Timed, Untaken
      <3>2. SendersGone /\ Both(queued) = 0
        BY <2>2 DEF RunInv, Finished, Collected
      <3>3. ticks = 0
        BY <3>2 DEF SendersGone, RunInv, Drained, TicksGone
      <3>t. /\ Both(sending) \in Nat /\ Both(logged) \in Nat /\ inflight \in Nat
            /\ lost \in Nat
        BY RunTypes DEF RunInv
      <3>4. inflight = 0 /\ Both(sending) = 0
        BY <3>2, <3>t DEF SendersGone
      <3>5. Dispatched = lost + Both(logged)
        BY <3>2, <3>4, <3>t DEF Dispatched
      <3> QED
        BY <2>1, <3>1, <3>3, <3>5, <3>t
    <2> QED
      BY <2>1, <2>2
  <1> QED
    BY OpenLoopInvariant, <1>1, PTL

(* NothingLeftRunning: when run_open_loop returns, with whatever result, no *)
(* timer, dispatcher, request or record of the run is left for the next run *)
(* of a sweep to meet.                                                      *)
THEOREM NoRunOverlapsTheNext == Spec => []NothingLeftRunning
  <1>1. RunInv => NothingLeftRunning
    <2> SUFFICES ASSUME RunInv, Returned
                 PROVE  /\ timer # "running" /\ dispatcher \in {"none", "ended", "panicked"}
                        /\ inflight + Both(sending) + Both(queued) = 0
      BY DEF NothingLeftRunning
    <2>t. Both(sending) \in Nat /\ Both(queued) \in Nat /\ inflight \in Nat
      BY RunTypes DEF RunInv
    <2>1. timer # "running"
      BY DEF RunInv, Timed
    <2>2. CASE dispatcher = "none"
      BY <2>t, <2>1, <2>2 DEF RunInv, Asleep, Nothing
    <2>3. CASE dispatcher # "none"
      <3>1. SendersGone /\ Both(queued) = 0
        BY <2>3 DEF RunInv, Finished, Collected, Returned
      <3> QED
        BY <2>t, <2>1, <3>1 DEF SendersGone
    <2> QED
      BY <2>2, <2>3
  <1> QED
    BY OpenLoopInvariant, <1>1, PTL

-------------------------------------------------------------------------------
(* Arithmetic of a second of T ticks. *)

LEMMA Division ==
  ASSUME NEW n \in Nat, NEW d \in Nat, d > 0
  PROVE  n \div d \in Nat /\ d * (n \div d) <= n /\ n < d * (n \div d) + d
  OBVIOUS

(* The distance d of starts at rate r, rounded to a tick: r of them differ  *)
(* from a second's T ticks by r/2.                                          *)
LEMMA RoundedDistance ==
  ASSUME NEW T \in Nat, NEW r \in Nat, r > 0, r * r <= 2 * T,
         NEW d, d = (2 * T + r) \div (2 * r)
  PROVE  /\ d \in Nat /\ d > 0 /\ d <= T
         /\ 2 * (r * d) <= 2 * T + r /\ 2 * T < 2 * (r * d) + r
  <1>1. /\ 2 * T + r \in Nat /\ 2 * r \in Nat /\ 2 * r > 0
    OBVIOUS
  <1>2. d \in Nat /\ (2 * r) * d <= 2 * T + r /\ 2 * T + r < (2 * r) * d + 2 * r
    BY <1>1, Division
  <1>3. (2 * r) * d = 2 * (r * d) /\ r * d \in Nat
    BY <1>2
  <1>4. 2 * (r * d) <= 2 * T + r /\ 2 * T < 2 * (r * d) + r
    BY <1>2, <1>3
  <1>5. r <= r * r
    OBVIOUS
  <1>6. d > 0
    <2>1. CASE d = 0
      <3>1. r * d = 0
        BY <2>1
      <3> QED
        BY <1>4, <1>5, <3>1
    <2> QED
      BY <1>2, <2>1
  <1>7. d <= T
    <2>1. CASE d >= T + 1
      <3>1. r * d >= r * (T + 1)
        BY <1>2, <2>1
      <3>2. r * (T + 1) = r * T + r /\ r * T >= T
        OBVIOUS
      <3> QED
        BY <1>3, <1>4, <3>1, <3>2
    <2> QED
      BY <1>2, <2>1
  <1> QED
    BY <1>2, <1>4, <1>6, <1>7

(* k starts at distance d, the first at f, that fit into a second are no    *)
(* more than one above the rate.                                            *)
LEMMA NotTooMany ==
  ASSUME NEW T \in Nat, NEW r \in Nat, r > 0, r * r <= 2 * T,
         NEW d \in Nat, 2 * T < 2 * (r * d) + r,
         NEW f \in Nat, f >= 1, NEW k \in Nat, f + k * d <= T + d
  PROVE  k <= r + 1
  <1>1. CASE k >= r + 2
    <2>1. k * d >= (r + 2) * d
      BY <1>1
    <2>2. (r + 2) * d = r * d + 2 * d
      OBVIOUS
    <2>3. r * d + d <= T - 1
      BY <2>1, <2>2
    <2> DEFINE p == r * d
    <2>4. r * (p + d) <= r * (T - 1)
      BY <2>3
    <2>5. r * (p + d) = r * p + p /\ r * (T - 1) = r * T - r
      OBVIOUS
    <2>6. r * (2 * p + r) >= r * (2 * T + 1)
      OBVIOUS
    <2>7. r * (2 * p + r) = 2 * (r * p) + r * r /\ r * (2 * T + 1) = 2 * (r * T) + r
      OBVIOUS
    <2> DEFINE rp == r * p
               rT == r * T
               rr == r * r
    <2>8. rp \in Int /\ rT \in Int /\ rr \in Int /\ p \in Int
      OBVIOUS
    <2>9. /\ rp + p <= rT - r /\ 2 * rp + rr >= 2 * rT + r /\ 2 * T < 2 * p + r /\ rr <= 2 * T
      BY <2>4, <2>5, <2>6, <2>7
    <2> HIDE DEF p, rp, rT, rr
    <2> QED
      BY <2>8, <2>9
  <1> QED
    BY <1>1

(* k starts that fill a second, the first at its own distance or earlier,   *)
(* are no less than one below the rate.                                     *)
LEMMA NotTooFew ==
  ASSUME NEW T \in Nat, NEW r \in Nat, r > 0, r * r <= 2 * T,
         NEW d \in Nat, 2 * (r * d) <= 2 * T + r,
         NEW f \in Nat, NEW k \in Nat, f + k * d >= T + 1, f <= d
  PROVE  k >= r - 1
  <1>1. CASE k <= r - 2
    <2>1. (k + 1) * d = k * d + d
      OBVIOUS
    <2>2. (k + 1) * d <= (r - 1) * d
      BY <1>1
    <2>3. (r - 1) * d = r * d - d
      OBVIOUS
    <2> DEFINE p == r * d
    <2>4. p - d >= T + 1
      BY <2>1, <2>2, <2>3
    <2>5. r * (p - d) >= r * (T + 1)
      BY <2>4
    <2>6. r * (p - d) = r * p - p /\ r * (T + 1) = r * T + r
      OBVIOUS
    <2>7. r * (2 * p) <= r * (2 * T + r)
      OBVIOUS
    <2>8. r * (2 * p) = 2 * (r * p) /\ r * (2 * T + r) = 2 * (r * T) + r * r
      OBVIOUS
    <2> DEFINE rp == r * p
               rT == r * T
               rr == r * r
    <2>9. rp \in Int /\ rT \in Int /\ rr \in Int /\ p \in Int /\ rr >= r
      OBVIOUS
    <2>10. /\ rp - p >= rT + r /\ 2 * rp <= 2 * rT + rr /\ 2 * p <= 2 * T + r /\ rr <= 2 * T
           /\ p >= T + 1
      BY <2>4, <2>5, <2>6, <2>7, <2>8
    <2> HIDE DEF p, rp, rT, rr
    <2> QED
      BY <2>9, <2>10
  <1> QED
    BY <1>1

(* The first may come as late as the distance e of the second before, of    *)
(* rate p, makes it: then w starts of the rate r find no room.              *)
LEMMA FewerAfterSlow ==
  ASSUME NEW T \in Nat, T > 0, NEW r \in Nat, r > 0, r * r <= 2 * T,
         NEW d \in Nat, 2 * (r * d) <= 2 * T + r,
         NEW p \in Nat, p > 0, NEW e \in Nat, 2 * (p * e) <= 2 * T + p,
         NEW w \in Nat, r <= p * w + p,
         NEW f \in Nat, NEW k \in Nat, f + k * d >= T + 1, f <= e - 1
  PROVE  k >= r - 1 - w
  <1>1. CASE k <= r - 2 - w
    <2> DEFINE m == r - 2 - w
    <2>1. m \in Nat /\ m >= k
      BY <1>1
    <2>2. m * d >= k * d
      <3> HIDE DEF m
      <3> QED
        BY <2>1
    <2>3. k * d \in Nat /\ m * d \in Nat
      <3> HIDE DEF m
      <3> QED
        BY <2>1
    <2>4. T + 2 <= e + m * d
      <3> HIDE DEF m
      <3> QED
        BY <2>2, <2>3
    <2>5. p * m <= p * r - p - r /\ p * m \in Nat /\ p * r \in Nat
      <3>1. p * m = p * r - 2 * p - p * w
        OBVIOUS
      <3>2. p * w \in Nat /\ p * r \in Nat
        OBVIOUS
      <3>3. p * m \in Nat
        <4> HIDE DEF m
        <4> QED
          BY <2>1
      <3> HIDE DEF m
      <3> QED
        BY <3>1, <3>2, <3>3
    <2> HIDE DEF m
    <2> DEFINE g == p * m
               q == p * r
               rd == r * d
               pe == p * e
    <2>6. q * (T + 2) <= q * (e + m * d)
      BY <2>3, <2>4, <2>5
    <2>7. q * (e + m * d) = r * pe + g * rd
      BY <2>1
    <2>8. q * (T + 2) = q * T + 2 * q
      BY <2>5
    <2>9. r * (2 * pe) <= r * (2 * T + p)
      OBVIOUS
    <2>10. r * (2 * pe) = 2 * (r * pe) /\ r * (2 * T + p) = 2 * (r * T) + q
      OBVIOUS
    <2>11. g * (2 * rd) <= g * (2 * T + r)
      BY <2>5
    <2>12. g * (2 * rd) = 2 * (g * rd) /\ g * (2 * T + r) = g * (2 * T + r)
      BY <2>1
    <2>13. g * (2 * T + r) <= (q - p - r) * (2 * T + r)
      <3> HIDE DEF g, q
      <3> QED
        BY <2>5 DEF g, q
    <2>14. (q - p - r) * (2 * T + r)
             = 2 * (q * T) + q * r - 2 * (p * T) - p * r - 2 * (r * T) - r * r
      BY <2>5
    <2>15. q * r = p * (r * r) /\ p * (r * r) <= p * (2 * T) /\ p * (2 * T) = 2 * (p * T)
      OBVIOUS
    <2>16. q > 0
      OBVIOUS
    <2> DEFINE A == q * T
               B == r * pe
               C == g * rd
               E == r * T
               F == q * r
               G == p * T
               H == r * r
    <2>17. /\ A \in Int /\ B \in Int /\ C \in Int /\ E \in Int
           /\ F \in Int /\ G \in Int /\ H \in Nat /\ q \in Int
      BY <2>1, <2>5
    <2>18. A + 2 * q <= B + C /\ 2 * B <= 2 * E + q
      BY <2>6, <2>7, <2>8, <2>9, <2>10
    <2>19. 2 * C <= 2 * A + F - 2 * G - q - 2 * E - H /\ F <= 2 * G
      <3>1. g * (2 * rd) \in Int /\ g * (2 * T + r) \in Int /\ (q - p - r) * (2 * T + r) \in Int
        BY <2>1, <2>5
      <3>2. 2 * C <= (q - p - r) * (2 * T + r)
        <4>1. 2 * C = g * (2 * rd)
          BY <2>12
        <4> HIDE DEF g, q, rd, C
        <4> QED
          BY <4>1, <2>11, <2>13, <3>1
      <3>3. (q - p - r) * (2 * T + r) = 2 * A + F - 2 * G - q - 2 * E - H
        BY <2>14
      <3> QED
        BY <3>2, <3>3, <2>15
    <2> HIDE DEF A, B, C, E, F, G, H, q, g
    <2> QED
      BY <2>16, <2>17, <2>18, <2>19
  <1> QED
    BY <1>1

-------------------------------------------------------------------------------
(* Induction, for a set instead of a predicate.                             *)
LEMMA NaturalSetInduction ==
  ASSUME NEW S \in SUBSET Nat, 0 \in S, \A n \in S : n + 1 \in S
  PROVE  S = Nat
  <1> DEFINE less == {p \in Nat \X Nat : p[1] < p[2]}
             T == Nat \ S
  <1>1. IsWellFoundedOn(less, Nat)
    BY NatLessThanWellFounded DEF OpToRel
  <1>2. \A x, y \in Nat : x < y => <<x, y>> \in less
    OBVIOUS
  <1> HIDE DEF less
  <1>3. CASE T # {}
    <2>1. PICK x \in T : \A y \in T : ~ (<<y, x>> \in less)
      <3>1. T \subseteq Nat
        OBVIOUS
      <3> HIDE DEF T
      <3> QED
        BY <1>1, <1>3, <3>1, WFMin
    <2>2. x \in Nat /\ x # 0
      BY <2>1
    <2>3. x - 1 \in Nat /\ x - 1 < x
      BY <2>2
    <2>4. x - 1 \in S
      BY <1>2, <2>1, <2>2, <2>3
    <2>5. (x - 1) + 1 \in S
      BY <2>4
    <2> QED
      BY <2>1, <2>2, <2>5
  <1> QED
    BY <1>3

-------------------------------------------------------------------------------
(* Traces.  In a well-formed trace the times ascend, and the entry that     *)
(* fills a second is the last one up to it.                                 *)
Trace == Seq([time : Nat, rate : Nat])
LastUpTo(ch, t, i) ==
    /\ ch[i].time <= t
    /\ \A j \in DOMAIN ch : ch[j].time <= t => j <= i

LEMMA EntryTypes ==
  ASSUME NEW ch \in Trace
  PROVE  /\ Len(ch) \in Nat /\ DOMAIN ch = 1..Len(ch)
         /\ \A i \in 1..Len(ch) : ch[i].time \in Nat /\ ch[i].rate \in Nat
  <1>1. Len(ch) \in Nat /\ DOMAIN ch = 1..Len(ch)
    BY DEF Trace
  <1>2. ASSUME NEW i \in 1..Len(ch) PROVE ch[i].time \in Nat /\ ch[i].rate \in Nat
    <2>1. ch[i] \in [time : Nat, rate : Nat]
      BY <1>1, <1>2, ElementOfSeq DEF Trace
    <2> QED
      BY <2>1
  <1> QED
    BY <1>1, <1>2

LEMMA TimesAscend ==
  ASSUME NEW ch \in Trace, WellFormed(ch)
  PROVE  \A j \in 1..Len(ch) : \A i \in 1..(j - 1) : ch[i].time < ch[j].time
  <1> DEFINE N == Len(ch)
             time(i) == ch[i].time
             Ascends(n) == n <= N => \A i \in 1..(n - 1) : time(i) < time(n)
             S == {n \in Nat : Ascends(n)}
  <1>1. N \in Nat /\ \A i \in 1..N : time(i) \in Nat
    BY EntryTypes
  <1>2. \A i \in 2..N : time(i) > time(i - 1)
    BY DEF WellFormed
  <1> HIDE DEF N, time
  <1>3. 0 \in S
    BY <1>1
  <1>4. ASSUME NEW n \in S PROVE n + 1 \in S
    <2> SUFFICES ASSUME n + 1 <= N, NEW i \in 1..n PROVE time(i) < time(n + 1)
      BY <1>1
    <2>1. n \in Nat /\ n >= 1 /\ n + 1 \in 2..N /\ (n + 1) - 1 = n
      BY <1>1
    <2>2. time(n + 1) > time(n)
      BY <1>2, <2>1
    <2>3. time(n) \in Nat /\ time(n + 1) \in Nat /\ time(i) \in Nat
      BY <1>1, <2>1
    <2>4. CASE i = n
      BY <2>2, <2>3, <2>4
    <2>5. CASE i < n
      <3>1. time(i) < time(n)
        BY <2>1, <2>5, <1>1
      <3> QED
        BY <2>2, <2>3, <3>1
    <2> QED
      BY <2>1, <2>4, <2>5
  <1>5. S = Nat
    <2> HIDE DEF S
    <2>1. S \in SUBSET Nat
      BY DEF S
    <2> QED
      BY <1>3, <1>4, <2>1, NaturalSetInduction
  <1> SUFFICES ASSUME NEW j \in 1..N, NEW i \in 1..(j - 1) PROVE time(i) < time(j)
    BY DEF N, time
  <1>6. j \in S /\ j <= N
    BY <1>1, <1>5
  <1> QED
    BY <1>6

LEMMA LastExists ==
  ASSUME NEW ch \in Trace, WellFormed(ch), NEW t \in Nat
  PROVE  \E i \in 1..Len(ch) : LastUpTo(ch, t, i)
  <1> DEFINE N == Len(ch)
             early(i) == ch[i].time <= t
             Has(n) == 1 <= n /\ n <= N =>
                         \E i \in 1..n : early(i) /\ \A j \in 1..n : early(j) => j <= i
             S == {n \in Nat : Has(n)}
  <1>1. N \in Nat /\ N >= 1 /\ early(1)
    <2>1. Len(ch) \in Nat /\ ch # <<>> /\ ch[1].time = 0
      BY EntryTypes DEF WellFormed
    <2>2. Len(ch) # 0
      BY <2>1 DEF Trace
    <2> QED
      BY <2>1, <2>2
  <1> HIDE DEF N, early
  <1>2. 0 \in S
    OBVIOUS
  <1>3. ASSUME NEW n \in S PROVE n + 1 \in S
    <2> SUFFICES ASSUME n + 1 <= N
                 PROVE  \E i \in 1..(n + 1) : early(i) /\ \A j \in 1..(n + 1) : early(j) => j <= i
      OBVIOUS
    <2>1. CASE early(n + 1)
      BY <2>1
    <2>2. CASE ~early(n + 1)
      <3>1. n >= 1
        BY <1>1, <2>2
      <3>2. PICK i \in 1..n : early(i) /\ \A j \in 1..n : early(j) => j <= i
        BY <3>1, <1>1
      <3>3. i \in 1..(n + 1) /\ \A j \in 1..(n + 1) : early(j) => j <= i
        BY <2>2, <3>2
      <3> QED
        BY <3>2, <3>3
    <2> QED
      BY <2>1, <2>2
  <1>4. S = Nat
    <2> HIDE DEF S
    <2>1. S \in SUBSET Nat
      BY DEF S
    <2> QED
      BY <1>2, <1>3, <2>1, NaturalSetInduction
  <1>5. \E i \in 1..N : early(i) /\ \A j \in 1..N : early(j) => j <= i
    <2>1. N \in S
      BY <1>1, <1>4
    <2> QED
      BY <1>1, <2>1
  <1> QED
    BY <1>5, EntryTypes DEF N, early, LastUpTo

LEMMA OneLast ==
  ASSUME NEW ch \in Trace, NEW t \in Nat, NEW i \in 1..Len(ch), NEW j \in 1..Len(ch),
         LastUpTo(ch, t, i), LastUpTo(ch, t, j)
  PROVE  i = j
  BY EntryTypes DEF LastUpTo

LEMMA FillsIsLast ==
  ASSUME NEW ch \in Trace, WellFormed(ch), NEW t \in 0..(Duration - 1), NEW i \in 1..Len(ch)
  PROVE  t \in Fills(ch, i) <=> LastUpTo(ch, t, i)
  <1>1. /\ Len(ch) \in Nat /\ DOMAIN ch = 1..Len(ch) /\ t \in Nat
        /\ \A j \in 1..Len(ch) : ch[j].time \in Nat
    BY EntryTypes, RateTraceAssumption
  <1>2. t \in Fills(ch, i) <=> ch[i].time <= t /\ (i < Len(ch) => t < ch[i + 1].time)
    BY DEF Fills
  <1>3. ASSUME t \in Fills(ch, i) PROVE LastUpTo(ch, t, i)
    <2> SUFFICES ASSUME NEW j \in 1..Len(ch), ch[j].time <= t, ~(j <= i) PROVE FALSE
      BY <1>1, <1>2, <1>3 DEF LastUpTo
    <2>1. i < j /\ i < Len(ch) /\ i + 1 \in 1..Len(ch)
      BY <1>1
    <2>2. t < ch[i + 1].time
      BY <1>2, <1>3, <2>1
    <2>3. i + 1 = j \/ ch[i + 1].time < ch[j].time
      <3>1. i + 1 = j \/ i + 1 \in 1..(j - 1)
        BY <1>1, <2>1
      <3> QED
        BY <3>1, TimesAscend
    <2> QED
      BY <1>1, <2>1, <2>2, <2>3
  <1>4. ASSUME LastUpTo(ch, t, i) PROVE t \in Fills(ch, i)
    <2>1. ASSUME i < Len(ch) PROVE t < ch[i + 1].time
      <3>1. i + 1 \in 1..Len(ch) /\ ~(i + 1 <= i)
        BY <1>1, <2>1
      <3> QED
        BY <1>1, <1>4, <3>1 DEF LastUpTo
    <2> QED
      BY <1>2, <1>4, <2>1 DEF LastUpTo
  <1> QED
    BY <1>3, <1>4

(* The rate a second is asked for is the one the generator expands the      *)
(* trace to.                                                                *)
Rate(ch, t) == RatePerSec(ch)[t]
LEMMA RateIsAsked ==
  ASSUME NEW ch \in Trace, WellFormed(ch), NEW t \in 0..(Duration - 1)
  PROVE  /\ \E i \in DOMAIN ch : Rate(ch, t) = ch[i].rate
         /\ Rate(ch, t) = ch[CHOOSE i \in DOMAIN ch :
                               /\ ch[i].time <= t
                               /\ \A j \in DOMAIN ch : ch[j].time <= t => j <= i].rate
  <1>1. t \in Nat /\ DOMAIN ch = 1..Len(ch)
    BY EntryTypes, RateTraceAssumption
  <1>2. PICK i \in 1..Len(ch) : LastUpTo(ch, t, i)
    BY <1>1, LastExists
  <1> DEFINE c == CHOOSE k \in DOMAIN ch : t \in Fills(ch, k)
             a == CHOOSE k \in DOMAIN ch :
                    /\ ch[k].time <= t
                    /\ \A j \in DOMAIN ch : ch[j].time <= t => j <= k
  <1>3. t \in Fills(ch, i)
    BY <1>2, FillsIsLast
  <1>4. c \in DOMAIN ch /\ t \in Fills(ch, c)
    BY <1>1, <1>3
  <1>5. a \in DOMAIN ch /\ LastUpTo(ch, t, a)
    BY <1>1, <1>2 DEF LastUpTo
  <1> HIDE DEF c, a
  <1>6. c = i
    <2>1. LastUpTo(ch, t, c)
      BY <1>1, <1>4, FillsIsLast
    <2> QED
      BY <1>1, <1>2, <1>4, <2>1, OneLast
  <1>7. a = i
    BY <1>1, <1>2, <1>5, OneLast
  <1>8. Rate(ch, t) = ch[c].rate
    BY <1>1, <1>3 DEF Rate, RatePerSec, c
  <1>9. Rate(ch, t) = ch[a].rate
    BY <1>6, <1>7, <1>8
  <1> QED
    BY <1>1, <1>6, <1>8, <1>9 DEF a

-------------------------------------------------------------------------------
(* The pace of a run.  In second u, k starts after its beginning, the next  *)
(* start is f + k * Distance past the beginning, where f is the distance of *)
(* the first: at most Distance, or what the last interarrival of the second *)
(* before left of it.                                                       *)
Distance(ch, t) == Interarrival(Rate(ch, t))
Lst(s) == IF s = <<>> THEN 0 ELSE s[Len(s)]
DueIn(s, t) ==
    {i \in DOMAIN s : t * TicksPerSec < s[i] /\ s[i] <= (t + 1) * TicksPerSec}
Spare(ch, t) == IF t = 0 THEN 0 ELSE (Rate(ch, t) - 1) \div Rate(ch, t - 1)
Followed(ch, t, k) ==
    /\ Rate(ch, t) > 0
    /\ k <= Rate(ch, t) + 1
    /\ k >= Rate(ch, t) - 1 - Spare(ch, t)
FirstAt(ch, t, f) ==
    /\ f >= 1
    /\ f <= Distance(ch, t) \/ (t > 0 /\ f <= Distance(ch, t - 1) - 1)
Current(ch, s, u) ==
    u < Duration /\ Rate(ch, u) > 0 =>
        \E f \in Nat :
            /\ FirstAt(ch, u, f)
            /\ Lst(s) + Distance(ch, u)
                 = u * TicksPerSec + f + Cardinality(DueIn(s, u)) * Distance(ch, u)
PaceIn(ch, s, u) ==
    /\ u * TicksPerSec <= Lst(s) /\ Lst(s) < u * TicksPerSec + TicksPerSec
    /\ \A i \in 1..Len(s) : s[i] <= Lst(s)
    /\ \A t \in 0..(u - 1) : Followed(ch, t, Cardinality(DueIn(s, t)))
    /\ Current(ch, s, u)
Slow(ch) == \A i \in DOMAIN ch : ch[i].rate * ch[i].rate <= 2 * TicksPerSec

LEMMA DistanceIs ==
  ASSUME NEW ch \in Trace, WellFormed(ch), Slow(ch), NEW t \in 0..(Duration - 1),
         Rate(ch, t) > 0
  PROVE  /\ Rate(ch, t) \in Nat /\ Rate(ch, t) * Rate(ch, t) <= 2 * TicksPerSec
         /\ Distance(ch, t) \in Nat /\ Distance(ch, t) > 0 /\ Distance(ch, t) <= TicksPerSec
         /\ 2 * (Rate(ch, t) * Distance(ch, t)) <= 2 * TicksPerSec + Rate(ch, t)
         /\ 2 * TicksPerSec < 2 * (Rate(ch, t) * Distance(ch, t)) + Rate(ch, t)
  <1>1. PICK i \in DOMAIN ch : Rate(ch, t) = ch[i].rate
    BY RateIsAsked
  <1>2. Rate(ch, t) \in Nat /\ Rate(ch, t) * Rate(ch, t) <= 2 * TicksPerSec
    BY <1>1, EntryTypes DEF Slow
  <1> DEFINE r == Rate(ch, t)
             d == Distance(ch, t)
  <1>3. d = (2 * TicksPerSec + r) \div (2 * r)
    BY DEF Distance, Interarrival
  <1>4. TicksPerSec \in Nat
    BY RateTraceAssumption
  <1>5. r \in Nat /\ r > 0 /\ r * r <= 2 * TicksPerSec
    BY <1>2
  <1> HIDE DEF r, d
  <1>6. /\ d \in Nat /\ d > 0 /\ d <= TicksPerSec
        /\ 2 * (r * d) <= 2 * TicksPerSec + r /\ 2 * TicksPerSec < 2 * (r * d) + r
    BY <1>3, <1>4, <1>5, RoundedDistance
  <1> QED
    BY <1>2, <1>6 DEF r, d

(* A second that is over has got the starts its rate asks for.              *)
LEMMA Filled ==
  ASSUME NEW ch \in Trace, WellFormed(ch), Slow(ch), NEW t \in 0..(Duration - 1),
         Rate(ch, t) > 0, t > 0 => Rate(ch, t - 1) > 0,
         NEW f \in Nat, FirstAt(ch, t, f), NEW k \in Nat,
         f + k * Distance(ch, t) <= TicksPerSec + Distance(ch, t),
         f + k * Distance(ch, t) >= TicksPerSec + 1
  PROVE  Followed(ch, t, k)
  <1> DEFINE r == Rate(ch, t)
             d == Distance(ch, t)
             T == TicksPerSec
  <1>1. /\ r \in Nat /\ r > 0 /\ r * r <= 2 * T /\ d \in Nat
        /\ 2 * (r * d) <= 2 * T + r /\ 2 * T < 2 * (r * d) + r
    BY DistanceIs
  <1>2. T \in Nat /\ T > 0 /\ t \in Nat
    BY RateTraceAssumption
  <1>p. t > 0 => t - 1 \in 0..(Duration - 1) /\ Rate(ch, t - 1) > 0
    <2>1. Duration \in Nat
      BY RateTraceAssumption
    <2> QED
      BY <2>1
  <1>3. f >= 1 /\ f + k * d <= T + d /\ f + k * d >= T + 1
    BY DEF FirstAt
  <1>4. f <= d \/ (t > 0 /\ f <= Distance(ch, t - 1) - 1)
    BY DEF FirstAt
  <1>5. Spare(ch, t) \in Nat
    <2>1. CASE t = 0
      BY <2>1 DEF Spare
    <2>2. CASE t > 0
      <3>1. Rate(ch, t - 1) \in Nat /\ Rate(ch, t - 1) > 0 /\ r - 1 \in Nat
        BY <2>2, <1>1, <1>2, <1>p, DistanceIs
      <3>2. (r - 1) \div Rate(ch, t - 1) \in Nat
        BY <3>1, Division
      <3> QED
        BY <2>2, <3>2, <1>2 DEF Spare
    <2> QED
      BY <1>2, <2>1, <2>2
  <1>6. CASE t > 0 /\ f <= Distance(ch, t - 1) - 1
    <2> DEFINE p == Rate(ch, t - 1)
               e == Distance(ch, t - 1)
               w == Spare(ch, t)
    <2>1. t - 1 \in 0..(Duration - 1) /\ p > 0
      BY <1>6, <1>p
    <2>2. p \in Nat /\ e \in Nat /\ 2 * (p * e) <= 2 * T + p
      BY <2>1, DistanceIs
    <2>3. w = (r - 1) \div p
      BY <1>2, <1>6 DEF Spare
    <2> HIDE DEF p, e, w, r, d, T
    <2>4. r <= p * w + p
      <3>1. r - 1 \in Nat
        BY <1>1
      <3>2. r - 1 < p * w + p
        BY <2>1, <2>2, <2>3, <3>1, Division
      <3>3. p * w \in Nat
        BY <2>2, <1>5 DEF w
      <3> QED
        BY <1>1, <2>2, <3>2, <3>3
    <2>5. f <= e - 1
      BY <1>6 DEF e
    <2>6. w \in Nat
      BY <1>5 DEF w
    <2>7. k >= r - 1 - w
      BY <1>1, <1>2, <1>3, <2>1, <2>2, <2>4, <2>5, <2>6, FewerAfterSlow
    <2>8. k <= r + 1
      BY <1>1, <1>2, <1>3, NotTooMany
    <2> QED
      BY <2>7, <2>8 DEF Followed, r, w
  <1>7. CASE f <= d
    <2> HIDE DEF r, d, T
    <2>1. k >= r - 1
      BY <1>1, <1>2, <1>3, <1>7, NotTooFew
    <2>2. k <= r + 1
      BY <1>1, <1>2, <1>3, NotTooMany
    <2>3. k >= r - 1 - Spare(ch, t)
      BY <1>1, <1>5, <2>1
    <2> QED
      BY <2>2, <2>3 DEF Followed, r
  <1> QED
    BY <1>4, <1>6, <1>7

LEMMA Seconds ==
  ASSUME NEW t \in Nat
  PROVE  /\ TicksPerSec \in Nat /\ TicksPerSec > 0 /\ t * TicksPerSec \in Nat
         /\ (t + 1) * TicksPerSec = t * TicksPerSec + TicksPerSec
         /\ \A u \in Nat : t < u => t * TicksPerSec + TicksPerSec <= u * TicksPerSec
  <1>1. TicksPerSec \in Nat /\ TicksPerSec > 0
    BY RateTraceAssumption
  <1>2. t * TicksPerSec \in Nat /\ (t + 1) * TicksPerSec = t * TicksPerSec + TicksPerSec
    BY <1>1
  <1>3. ASSUME NEW u \in Nat, t < u PROVE (t + 1) * TicksPerSec <= u * TicksPerSec
    <2>1. u - (t + 1) \in Nat
      BY <1>3
    <2>2. (u - (t + 1)) * TicksPerSec \in Nat
      BY <1>1, <2>1
    <2>3. (u - (t + 1)) * TicksPerSec = u * TicksPerSec - (t + 1) * TicksPerSec
      BY <1>1
    <2>4. u * TicksPerSec \in Nat
      BY <1>1
    <2> QED
      BY <1>1, <1>2, <2>2, <2>3, <2>4
  <1> QED
    BY <1>1, <1>2, <1>3

LEMMA SecondIs ==
  ASSUME NEW n \in Nat, NEW u \in Nat,
         u * TicksPerSec <= n, n < u * TicksPerSec + TicksPerSec
  PROVE  Second(n) = u
  <1> DEFINE q == Second(n)
  <1>1. TicksPerSec \in Nat /\ TicksPerSec > 0
    BY RateTraceAssumption
  <1>2. q \in Nat /\ TicksPerSec * q <= n /\ n < TicksPerSec * q + TicksPerSec
    BY <1>1, Division DEF Second
  <1> HIDE DEF q
  <1>3. /\ q * TicksPerSec \in Nat /\ u * TicksPerSec \in Nat /\ TicksPerSec * q = q * TicksPerSec
        /\ q < u => q * TicksPerSec + TicksPerSec <= u * TicksPerSec
        /\ u < q => u * TicksPerSec + TicksPerSec <= q * TicksPerSec
    BY <1>1, <1>2, Seconds
  <1>4. ~(q < u) /\ ~(u < q)
    BY <1>1, <1>2, <1>3
  <1> QED
    BY <1>2, <1>4 DEF q

LEMMA DueIsFinite ==
  ASSUME NEW s \in Seq(Nat), NEW t \in Nat
  PROVE  IsFiniteSet(DueIn(s, t)) /\ Cardinality(DueIn(s, t)) \in Nat
  <1>1. Len(s) \in Nat /\ DOMAIN s = 1..Len(s)
    BY LenProperties
  <1>2. IsFiniteSet(1..Len(s)) /\ DueIn(s, t) \in SUBSET (1..Len(s))
    BY <1>1, FS_Interval DEF DueIn
  <1> QED
    BY <1>2, FS_Subset, FS_CardinalityType

(* One start more is one more that is due in its second.                    *)
LEMMA OneStartMore ==
  ASSUME NEW s \in Seq(Nat), NEW x \in Nat, NEW t \in Nat
  PROVE  Cardinality(DueIn(Append(s, x), t))
           = IF t * TicksPerSec < x /\ x <= (t + 1) * TicksPerSec
               THEN Cardinality(DueIn(s, t)) + 1
               ELSE Cardinality(DueIn(s, t))
  <1> DEFINE z == Append(s, x)
             n == Len(s) + 1
  <1>1. /\ DOMAIN z = 1..n /\ DOMAIN s = 1..Len(s) /\ Len(s) \in Nat
        /\ z[n] = x /\ \A i \in 1..Len(s) : z[i] = s[i]
    BY AppendProperties, LenProperties
  <1>2. IsFiniteSet(DueIn(s, t)) /\ n \notin DueIn(s, t)
    <2>1. n \notin DOMAIN s
      BY <1>1
    <2> QED
      BY <2>1, DueIsFinite DEF DueIn
  <1> HIDE DEF z
  <1>3. CASE t * TicksPerSec < x /\ x <= (t + 1) * TicksPerSec
    <2>1. DueIn(z, t) = DueIn(s, t) \cup {n}
      BY <1>1, <1>3 DEF DueIn
    <2> QED
      BY <1>2, <1>3, <2>1, FS_AddElement DEF z
  <1>4. CASE ~(t * TicksPerSec < x /\ x <= (t + 1) * TicksPerSec)
    <2>1. DueIn(z, t) = DueIn(s, t)
      BY <1>1, <1>4 DEF DueIn
    <2> QED
      BY <1>4, <2>1 DEF z
  <1> QED
    BY <1>3, <1>4

LEMMA LastAppended ==
  ASSUME NEW s \in Seq(Nat), NEW x \in Nat, \A i \in 1..Len(s) : s[i] <= x
  PROVE  /\ Append(s, x) \in Seq(Nat) /\ Lst(Append(s, x)) = x
         /\ \A i \in 1..Len(Append(s, x)) : Append(s, x)[i] <= x
  <1> DEFINE z == Append(s, x)
             n == Len(s) + 1
  <1>1. /\ z \in Seq(Nat) /\ Len(z) = n /\ n \in 1..n /\ z # <<>>
        /\ z[n] = x /\ \A i \in 1..n : i = n \/ (i \in 1..Len(s) /\ z[i] = s[i])
    BY AppendProperties, LenProperties
  <1> HIDE DEF z
  <1>2. Lst(z) = x
    BY <1>1 DEF Lst
  <1>3. \A i \in 1..n : z[i] <= x
    <2> SUFFICES ASSUME NEW i \in 1..n PROVE z[i] <= x
      OBVIOUS
    <2> HIDE DEF n
    <2>1. CASE i = n
      BY <1>1, <2>1
    <2>2. CASE i # n
      <3>1. i \in 1..Len(s) /\ z[i] = s[i]
        BY <1>1, <2>2
      <3> QED
        BY <3>1
    <2> QED
      BY <2>1, <2>2
  <1> QED
    BY <1>1, <1>2, <1>3 DEF z

LEMMA LastIsNat ==
  ASSUME NEW s \in Seq(Nat)
  PROVE  Lst(s) \in Nat
  <1>1. CASE s = <<>>
    BY <1>1 DEF Lst
  <1>2. CASE s # <<>>
    BY <1>2, EmptySeq, LenProperties, ElementOfSeq DEF Lst
  <1> QED
    BY <1>1, <1>2

(* No start is due in the seconds to come.                                  *)
LEMMA NoneDue ==
  ASSUME NEW s \in Seq(Nat), NEW t \in Nat, NEW x \in Nat, x <= t * TicksPerSec,
         \A i \in 1..Len(s) : s[i] <= x
  PROVE  Cardinality(DueIn(s, t)) = 0
  <1>1. t * TicksPerSec \in Nat
    BY Seconds
  <1>2. DueIn(s, t) = {}
    <2> SUFFICES ASSUME NEW i \in DOMAIN s, t * TicksPerSec < s[i] PROVE FALSE
      BY DEF DueIn
    <2>1. i \in 1..Len(s) /\ s[i] \in Nat
      BY LenProperties, ElementOfSeq
    <2> QED
      BY <1>1, <2>1
  <1> QED
    BY <1>2, FS_EmptySet

(* One start more, of which the second before the last, or the new one, has *)
(* been filled when it falls into the next.                                 *)
LEMMA PaceStep ==
  ASSUME NEW ch \in Trace, WellFormed(ch), Slow(ch), NEW s \in Seq(Nat), NEW u \in Nat,
         u < Duration, Rate(ch, u) > 0, PaceIn(ch, s, u),
         NEW x, x = Lst(s) + Distance(ch, u)
  PROVE  PaceIn(ch, Append(s, x), u) \/ PaceIn(ch, Append(s, x), u + 1)
  <1> DEFINE T == TicksPerSec
             d == Distance(ch, u)
             last == Lst(s)
             k == Cardinality(DueIn(s, u))
             z == Append(s, x)
             b == u * T
             kd == k * d
  <1>1. u \in 0..(Duration - 1) /\ Duration \in Nat
    BY RateTraceAssumption
  <1>2. d \in Nat /\ d > 0 /\ d <= T
    BY <1>1, DistanceIs
  <1>3. /\ T \in Nat /\ T > 0 /\ b \in Nat /\ (u + 1) * T = b + T
        /\ \A t \in Nat : t < u => t * T + T <= b
        /\ \A t \in Nat : (t + 1) * T = t * T + T /\ t * T \in Nat
    <2>1. \A t \in Nat : t < u => t * TicksPerSec + TicksPerSec <= u * TicksPerSec
      BY Seconds
    <2> QED
      BY <2>1, Seconds
  <1>4. last \in Nat /\ k \in Nat /\ kd \in Nat
    <2>1. last \in Nat /\ k \in Nat
      BY LastIsNat, DueIsFinite
    <2> QED
      BY <1>2, <2>1
  <1>5. b <= last /\ last < b + T /\ \A i \in 1..Len(s) : s[i] <= last
    BY DEF PaceIn
  <1>6. PICK f \in Nat : FirstAt(ch, u, f) /\ last + d = b + f + kd
    BY DEF PaceIn, Current
  <1>7. x \in Nat /\ x = last + d /\ b < x /\ x < b + T + T
    <2>1. x = last + d
      OBVIOUS
    <2>2. T \in Nat /\ b \in Nat /\ last \in Nat
      BY <1>3, <1>4
    <2> HIDE DEF d, last, T, b
    <2> QED
      BY <1>2, <1>5, <2>1, <2>2
  <1>8. /\ z \in Seq(Nat) /\ Lst(z) = x
        /\ \A i \in 1..Len(z) : z[i] <= x
    <2>1. \A i \in 1..Len(s) : s[i] <= x
      <3> SUFFICES ASSUME NEW i \in 1..Len(s) PROVE s[i] <= x
        OBVIOUS
      <3>1. s[i] \in Nat /\ s[i] <= last
        BY <1>5, LenProperties, ElementOfSeq
      <3> HIDE DEF d, last
      <3> QED
        BY <1>2, <1>4, <1>7, <3>1
    <2> QED
      BY <1>7, <2>1, LastAppended
  (* Seconds before keep their starts. *)
  <1>9. \A t \in 0..(u - 1) : Cardinality(DueIn(z, t)) = Cardinality(DueIn(s, t))
    <2> SUFFICES ASSUME NEW t \in 0..(u - 1)
                 PROVE  Cardinality(DueIn(z, t)) = Cardinality(DueIn(s, t))
      OBVIOUS
    <2>1. t \in Nat /\ t < u
      OBVIOUS
    <2>2. (t + 1) * T <= b /\ (t + 1) * T \in Nat
      BY <1>3, <2>1
    <2>3. ~(x <= (t + 1) * T)
      <3> HIDE DEF T, b
      <3> QED
        BY <1>3, <1>7, <2>2
    <2> QED
      BY <1>7, <2>1, <2>3, OneStartMore
  <1>10. \A t \in 0..(u - 1) : Followed(ch, t, Cardinality(DueIn(z, t)))
    BY <1>9 DEF PaceIn
  <1>11. u > 0 => Rate(ch, u - 1) > 0
    <2>1. u > 0 => u - 1 \in 0..(u - 1)
      OBVIOUS
    <2> QED
      BY <2>1 DEF PaceIn, Followed
  <1>12. Cardinality(DueIn(z, u)) = IF x <= b + T THEN k + 1 ELSE k
    <2>1. u * TicksPerSec < x /\ (u + 1) * TicksPerSec = b + T
      BY <1>3, <1>7
    <2> QED
      BY <1>7, <2>1, OneStartMore
  (* Another start of this second. *)
  <1>13. CASE x < b + T
    <2>1. Cardinality(DueIn(z, u)) = k + 1
      <3> HIDE DEF T, b, k
      <3> QED
        BY <1>3, <1>7, <1>12, <1>13
    <2>2. (k + 1) * d = kd + d
      BY <1>2, <1>4
    <2>3. x + d = b + f + (k + 1) * d
      <3> HIDE DEF d, last, b, kd, k
      <3> QED
        BY <1>2, <1>3, <1>4, <1>6, <1>7, <2>2
    <2>4. Current(ch, z, u)
      BY <1>6, <1>8, <2>1, <2>3 DEF Current
    <2>5. b <= x /\ x < b + T
      BY <1>3, <1>7, <1>13
    <2> QED
      BY <1>8, <1>10, <2>4, <2>5 DEF PaceIn
  (* The first of the next, or one between the two: this one is over. *)
  <1>14. CASE x >= b + T
    <2> DEFINE n == Cardinality(DueIn(z, u))
               nd == n * d
               e == Distance(ch, u + 1)
               m == Cardinality(DueIn(z, u + 1))
               g == IF x = b + T THEN e ELSE x - (b + T)
    <2>1. n \in Nat /\ m \in Nat
      <3>1. u + 1 \in Nat
        OBVIOUS
      <3> HIDE DEF z
      <3> QED
        BY <1>8, <3>1, DueIsFinite
    <2>2. /\ x = b + T => nd = kd + d
          /\ x # b + T => nd = kd
      <3>1. x = b + T => n = k + 1
        BY <1>12
      <3>2. x # b + T => n = k
        <4> HIDE DEF T, b, k, n
        <4> QED
          BY <1>3, <1>7, <1>12, <1>14 DEF n
      <3>3. (k + 1) * d = kd + d
        BY <1>2, <1>4
      <3> QED
        BY <3>1, <3>2, <3>3
    <2>3. f + nd <= T + d /\ f + nd >= T + 1
      <3>0. /\ T \in Nat /\ b \in Nat /\ last \in Nat /\ kd \in Nat /\ x = last + d
            /\ last + d = b + f + kd
        BY <1>3, <1>4, <1>6, <1>7
      <3> HIDE DEF T, b, kd, nd, d, last
      <3>1. CASE x = b + T
        BY <3>0, <3>1, <1>2, <2>2
      <3>2. CASE x # b + T
        BY <3>0, <3>2, <1>2, <1>5, <1>14, <2>2
      <3> QED
        BY <3>1, <3>2
    <2>4. Followed(ch, u, n)
      BY <1>1, <1>6, <1>11, <2>1, <2>3, Filled
    <2>5. \A t \in 0..((u + 1) - 1) : Followed(ch, t, Cardinality(DueIn(z, t)))
      <3> SUFFICES ASSUME NEW t \in 0..((u + 1) - 1)
                   PROVE  Followed(ch, t, Cardinality(DueIn(z, t)))
        OBVIOUS
      <3>1. t \in 0..(u - 1) \/ t = u
        OBVIOUS
      <3> QED
        BY <3>1, <1>10, <2>4
    <2>6. m = IF x = b + T THEN 0 ELSE 1
      <3>1. Cardinality(DueIn(s, u + 1)) = 0
        <4>1. last <= (u + 1) * TicksPerSec
          <5> HIDE DEF T, b, last
          <5>0. T \in Nat /\ b \in Nat /\ last \in Nat
            BY <1>3, <1>4
          <5>1. last <= b + T
            BY <5>0, <1>5
          <5> QED
            BY <1>3, <5>1 DEF T
        <4> QED
          BY <1>4, <1>5, <4>1, NoneDue
      <3>2. (u + 1) * TicksPerSec = b + T /\ (u + 1 + 1) * TicksPerSec = b + T + T
        BY <1>3
      <3>3. x <= b + T + T /\ (b + T < x <=> x # b + T)
        <4>1. T \in Nat /\ b \in Nat /\ x \in Nat /\ x < b + T + T
          BY <1>3, <1>7
        <4> HIDE DEF T, b
        <4> QED
          BY <4>1, <1>14
      <3> QED
        BY <1>7, <3>1, <3>2, <3>3, OneStartMore
    <2>7. Current(ch, z, u + 1)
      <3> SUFFICES ASSUME u + 1 < Duration, Rate(ch, u + 1) > 0
                   PROVE  \E h \in Nat :
                            /\ FirstAt(ch, u + 1, h)
                            /\ x + e = (u + 1) * TicksPerSec + h + m * e
        BY <1>8 DEF Current
      <3>1. u + 1 \in 0..(Duration - 1)
        BY <1>1
      <3>2. e \in Nat /\ e > 0
        BY <3>1, DistanceIs
      <3>3. g \in Nat /\ g >= 1 /\ (g <= e \/ g <= d - 1)
        <4>1. CASE x = b + T
          BY <3>2, <4>1
        <4>2. CASE x # b + T
          <5>1. g = x - (b + T)
            BY <4>2
          <5>2. T \in Nat /\ b \in Nat /\ last \in Nat /\ x = last + d
            BY <1>3, <1>4, <1>7
          <5> HIDE DEF T, b, d, e, g, last
          <5> QED
            BY <4>2, <5>1, <5>2, <1>2, <1>5, <1>14
        <4> QED
          BY <4>1, <4>2
      <3>4. FirstAt(ch, u + 1, g)
        <4>1. (u + 1) - 1 = u /\ u + 1 > 0
          OBVIOUS
        <4> HIDE DEF g
        <4> QED
          BY <3>3, <4>1 DEF FirstAt
      <3>5. x + e = (b + T) + g + m * e
        <4>1. CASE x = b + T
          <5>1. g = e /\ m = 0
            BY <2>6, <4>1
          <5>2. m * e = 0
            BY <5>1, <3>2
          <5> HIDE DEF T, b, e, g, m
          <5> QED
            BY <4>1, <5>1, <5>2, <1>3, <3>2
        <4>2. CASE x # b + T
          <5>1. g = x - (b + T) /\ m = 1
            BY <2>6, <4>2
          <5>2. m * e = e
            BY <5>1, <3>2
          <5> HIDE DEF T, b, e, g, m
          <5> QED
            BY <5>1, <5>2, <1>3, <1>7, <3>2, <3>3
        <4> QED
          BY <4>1, <4>2
      <3> HIDE DEF g, m, e, T, b
      <3>6. x + e = (u + 1) * TicksPerSec + g + m * e
        BY <1>3, <3>5 DEF T
      <3> QED
        BY <3>3, <3>4, <3>6
    <2>8. (u + 1) * TicksPerSec <= x /\ x < (u + 1) * TicksPerSec + TicksPerSec
      <3>1. b + T <= x /\ x < b + T + T
        <4>1. T \in Nat /\ b \in Nat /\ x \in Nat /\ x < b + T + T
          BY <1>3, <1>7
        <4> HIDE DEF T, b
        <4> QED
          BY <4>1, <1>14
      <3> QED
        BY <1>3, <3>1
    <2> QED
      BY <1>8, <2>5, <2>7, <2>8 DEF PaceIn
  <1>15. x < b + T \/ x >= b + T
    <2> HIDE DEF T, b
    <2> QED
      BY <1>3, <1>7
  <1> QED
    BY <1>13, <1>14, <1>15

-------------------------------------------------------------------------------
(* The runs.  Only a run with a well-formed trace has starts.               *)
SlowTraces == \A ch \in InitialChanges : Slow(ch)
PaceInv ==
    /\ timer = "none" => starts = <<>>
    /\ timer # "none" => WellFormed(changes)
    /\ WellFormed(changes) => \E u \in 0..Duration : PaceIn(changes, starts, u)

LEMMA PaceInit == SlowTraces /\ Init => PaceInv
  <1> SUFFICES ASSUME SlowTraces, Init PROVE PaceInv
    OBVIOUS
  <1>1. changes \in InitialChanges /\ starts = <<>> /\ timer = "none"
    BY DEF Init
  <1>2. changes \in Trace /\ Slow(changes) /\ starts \in Seq(Nat) /\ Len(starts) = 0
    BY <1>1, RateTraceAssumption, EmptySeq DEF Trace, SlowTraces
  <1>3. Lst(starts) = 0 /\ TicksPerSec \in Nat /\ TicksPerSec > 0 /\ 0 \in 0..Duration
    BY <1>1, RateTraceAssumption DEF Lst
  <1>4. ASSUME WellFormed(changes) PROVE PaceIn(changes, starts, 0)
    <2>1. Current(changes, starts, 0)
      <3> SUFFICES ASSUME 0 < Duration, Rate(changes, 0) > 0
                   PROVE  \E f \in Nat :
                            /\ FirstAt(changes, 0, f)
                            /\ Lst(starts) + Distance(changes, 0)
                                 = 0 * TicksPerSec + f
                                   + Cardinality(DueIn(starts, 0)) * Distance(changes, 0)
        BY DEF Current
      <3> DEFINE d == Distance(changes, 0)
                 k == Cardinality(DueIn(starts, 0))
      <3>1. 0 \in 0..(Duration - 1)
        BY RateTraceAssumption
      <3>2. d \in Nat /\ d > 0
        BY <1>2, <1>4, <3>1, DistanceIs
      <3>3. k = 0
        <4>1. DueIn(starts, 0) = {}
          BY <1>1 DEF DueIn
        <4> QED
          BY <4>1, FS_EmptySet
      <3>4. FirstAt(changes, 0, d)
        BY <3>2 DEF FirstAt
      <3>5. k * d = 0 /\ 0 * TicksPerSec = 0
        BY <1>3, <3>2, <3>3
      <3>6. Lst(starts) + d = 0 * TicksPerSec + d + k * d
        BY <1>3, <3>2, <3>5
      <3> QED
        BY <3>2, <3>4, <3>6
    <2>2. 0 * TicksPerSec = 0
      BY <1>3
    <2> QED
      BY <1>2, <1>3, <2>1, <2>2 DEF PaceIn
  <1> QED
    BY <1>1, <1>3, <1>4 DEF PaceInv

LEMMA PaceKept == SlowTraces /\ TypeInv /\ PaceInv /\ [Next]_vars => PaceInv'
  <1> SUFFICES ASSUME SlowTraces, TypeInv, PaceInv, [Next]_vars PROVE PaceInv'
    OBVIOUS
  <1>t. changes \in InitialChanges /\ starts \in Seq(Nat)
    BY DEF TypeInv, TypeOK
  <1>s. changes \in Trace /\ Slow(changes)
    BY <1>t, RateTraceAssumption DEF Trace, SlowTraces
  <1>1. ASSUME UNCHANGED <<changes, starts>>, timer' # "none" => WellFormed(changes),
               timer' = "none" => timer = "none"
        PROVE  PaceInv'
    BY <1>1 DEF PaceInv
  <1>2. CASE UNCHANGED timerVars
    BY <1>1, <1>2 DEF timerVars, PaceInv
  <1>3. CASE UNCHANGED vars
    BY <1>2, <1>3 DEF vars
  <1>4. CASE LoadTrace
    BY <1>1, <1>4 DEF LoadTrace, PaceInv
  <1>5. CASE TimerEnds
    BY <1>1, <1>5 DEF TimerEnds, PaceInv
  <1>6. ASSUME NEW lag \in Lags, NEW pause \in Lags, Iterate(lag, pause) PROVE PaceInv'
    <2> DEFINE x == now + Interarrival(RateAt(changes, now))
    <2>1. /\ timer = "running" /\ ~Exhausted(now) /\ RateAt(changes, now) > 0
          /\ starts' = Append(starts, x) /\ changes' = changes
      BY <1>6 DEF Iterate
    <2>2. WellFormed(changes)
      BY <2>1 DEF PaceInv
    <2>3. PICK u \in 0..Duration : PaceIn(changes, starts, u)
      BY <2>2 DEF PaceInv
    <2>4. now = Lst(starts) /\ Lst(starts) \in Nat /\ u \in Nat
      BY <1>t, LastIsNat, RateTraceAssumption DEF now, Lst
    <2>5. Second(now) = u
      BY <2>3, <2>4, SecondIs DEF PaceIn
    <2>6. u < Duration /\ Rate(changes, u) > 0 /\ x = Lst(starts) + Distance(changes, u)
      <3>1. u < Duration
        BY <2>1, <2>4, <2>5, RateTraceAssumption DEF Exhausted
      <3>2. RateAt(changes, now) = Rate(changes, u)
        BY <2>5 DEF RateAt, Rate
      <3> QED
        BY <2>1, <2>4, <3>1, <3>2 DEF Distance
    <2> HIDE DEF x
    <2>7. PaceIn(changes, Append(starts, x), u) \/ PaceIn(changes, Append(starts, x), u + 1)
      BY <1>s, <1>t, <2>2, <2>3, <2>4, <2>6, PaceStep
    <2>8. u + 1 \in 0..Duration
      BY <2>4, <2>6, RateTraceAssumption
    <2>9. \E v \in 0..Duration : PaceIn(changes', starts', v)
      BY <2>1, <2>7, <2>8
    <2>10. timer' # "none"
      BY <1>6 DEF Iterate
    <2> QED
      BY <2>1, <2>2, <2>9, <2>10 DEF PaceInv
  <1>7. CASE TimerStep
    BY <1>5, <1>6, <1>7 DEF TimerStep
  <1>8. CASE DispatcherStep \/ AnswerStep \/ RecordStep
    BY <1>2, <1>8 DEF DispatcherStep, Dispatch, TicksOver, WriteStats, DispatcherPanics,
                      AnswerStep, AnsweredWrong, Complete, RecordStep, SendRecord
  <1>9. CASE MainStep
    <2>1. CASE RecordsOver \/ Join \/ \E answer \in Answers : Receive(answer)
      BY <1>2, <2>1 DEF RecordsOver, Join, Receive
    <2> QED
      BY <1>4, <1>9, <2>1 DEF MainStep
  <1>10. CASE Done
    BY <1>3, <1>10 DEF Done
  <1> QED
    BY <1>3, <1>7, <1>8, <1>9, <1>10 DEF Next

(* RatesFollowTrace: in each second the generator has passed, as many       *)
(* requests are due as the trace asks for, but for one by rounding and what *)
(* the last interarrival of a slower second takes.  A tick must be small    *)
(* enough for the rates, or the rounding of a second's interarrivals adds   *)
(* up: with the code's nanoseconds, up to 44 721 requests a second.         *)
THEOREM RatesAreFollowed ==
  ASSUME \A ch \in InitialChanges : \A i \in DOMAIN ch :
            ch[i].rate * ch[i].rate <= 2 * TicksPerSec
  PROVE  Spec => []RatesFollowTrace
  <1>1. SlowTraces
    BY DEF SlowTraces, Slow
  <1>2. Init => PaceInv
    BY <1>1, PaceInit
  <1>3. TypeInv /\ PaceInv /\ [Next]_vars => PaceInv'
    BY <1>1, PaceKept
  <1>4. TypeInv /\ PaceInv => RatesFollowTrace
    <2> SUFFICES ASSUME TypeInv, PaceInv, NEW t \in 0..(Second(now) - 1)
                 PROVE  /\ Cardinality(Due(t)) <= AskedRate(t) + 1
                        /\ Cardinality(Due(t)) >= AskedRate(t) - 1 - Overhang(t)
      BY DEF RatesFollowTrace
    <2>1. changes \in InitialChanges /\ starts \in Seq(Nat)
      BY DEF TypeInv, TypeOK
    <2>2. changes \in Trace
      BY <2>1, RateTraceAssumption DEF Trace
    <2>3. now = Lst(starts) /\ Lst(starts) \in Nat
      BY <2>1, LastIsNat DEF now, Lst
    <2>4. WellFormed(changes)
      <3>1. CASE timer = "none"
        <4>1. now = 0
          BY <3>1 DEF PaceInv, now
        <4>2. 0 * TicksPerSec = 0 /\ TicksPerSec > 0 /\ TicksPerSec \in Nat
          BY RateTraceAssumption
        <4>3. Second(now) = 0
          BY <4>1, <4>2, SecondIs
        <4> QED
          BY <4>3
      <3> QED
        BY <3>1 DEF PaceInv
    <2>5. PICK u \in 0..Duration : PaceIn(changes, starts, u)
      BY <2>4 DEF PaceInv
    <2>6. Second(now) = u /\ u \in Nat /\ Duration \in Nat
      BY <2>3, <2>5, SecondIs, RateTraceAssumption DEF PaceIn
    <2>7. t \in 0..(u - 1) /\ t \in 0..(Duration - 1) /\ t \in Nat
      BY <2>6
    <2>8. Followed(changes, t, Cardinality(DueIn(starts, t)))
      BY <2>5, <2>7 DEF PaceIn
    <2>9. \A v \in 0..(Duration - 1) : AskedRate(v) = Rate(changes, v)
      BY <2>2, <2>4, RateIsAsked DEF AskedRate
    <2>10. Overhang(t) = Spare(changes, t)
      <3>1. CASE t = 0
        BY <3>1 DEF Overhang, Spare
      <3>2. CASE t # 0
        <4>1. t - 1 \in 0..(Duration - 1)
          BY <2>6, <2>7, <3>2
        <4> QED
          BY <2>7, <2>9, <3>2, <4>1 DEF Overhang, Spare
      <3> QED
        BY <3>1, <3>2
    <2>11. Due(t) = DueIn(starts, t)
      BY DEF Due, DueIn
    <2>12. AskedRate(t) = Rate(changes, t)
      BY <2>7, <2>9
    <2> QED
      BY <2>8, <2>10, <2>11, <2>12 DEF Followed
  <1> QED
    BY <1>2, <1>3, <1>4, TypeInit, TypeStep, PTL DEF Spec
===============================================================================
