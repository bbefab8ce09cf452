------------------------------- MODULE OpenLoop -------------------------------
(***************************************************************************)
(* One run of the open-loop load generator (client/src/open_loop.rs): a    *)
(* timer thread sends a tick for every start time into a bounded channel,  *)
(* a dispatcher task turns ticks into request tasks, these send their      *)
(* records into a second bounded channel, and the caller collects records  *)
(* until every sender is gone.  Tasks end early in several places: the     *)
(* timer gives up when it is late or the channel is full, the dispatcher   *)
(* and the request tasks may panic, and nobody joins those two.            *)
(***************************************************************************)
EXTENDS RateTrace, FiniteSets

CONSTANTS Slack,       \* REQ_ISSUE_SLACK_S
          LateLimit,   \* late iterations in a row after which the timer gives up
          Lags,        \* how late the OS may wake or schedule the timer thread
          TimerCap,    \* capacity of the tick channel
          RecordCap,   \* capacity of the record channel
          Stats,       \* Args::record_stats()
          MayPanic     \* get_name or write_timestamps may panic

ASSUME OpenLoopAssumption ==
    /\ Slack \in Nat /\ LateLimit \in Nat \ {0} /\ Lags \subseteq Nat
    /\ TimerCap \in Nat \ {0} /\ RecordCap \in Nat \ {0}
    /\ Stats \in BOOLEAN /\ MayPanic \in BOOLEAN

VARIABLES
    changes,       \* the trace
    starts,        \* start times drawn from ConstGen
    clock,         \* Instant::now() at the next iteration of the timer
    timer,         \* the timer thread
    late_counter,  \* of the timer
    overdue,       \* requests in a row whose tick left more than Slack late
    ticks,         \* ticks in the channel
    dispatcher,    \* the dispatcher task
    inflight,      \* requests whose answer is awaited
    lost,          \* requests whose task panicked
    sending,       \* records to be sent, by the answer they record
    queued,        \* records in the channel
    logged,        \* records in the log
    main           \* the caller of run_open_loop

timerVars == <<changes, starts, clock, timer, late_counter, overdue>>
recordVars == <<sending, queued, logged>>
vars == <<timerVars, ticks, dispatcher, inflight, lost, recordVars, main>>

(* Requests are alike: they are counted, by the answer they got.            *)
Answers == {"ok", "failed"}
Both(n) == n["ok"] + n["failed"]
Dispatched == inflight + lost + Both(sending) + Both(queued) + Both(logged)

(* ConstGen::now *)
now == IF starts = <<>> THEN 0 ELSE starts[Len(starts)]

Init ==
    /\ changes \in InitialChanges
    /\ starts = <<>>
    /\ clock = 0
    /\ timer = "none"
    /\ late_counter = 0
    /\ overdue = 0
    /\ ticks = 0
    /\ dispatcher = "none"
    /\ inflight = 0
    /\ lost = 0
    /\ sending = [a \in Answers |-> 0]
    /\ queued = sending
    /\ logged = sending
    /\ main = "loading"

(* load_rps(...).unwrap(), before anything is spawned.                      *)
LoadTrace ==
    /\ main = "loading"
    /\ IF WellFormed(changes)
         THEN main' = "collecting" /\ timer' = "running" /\ dispatcher' = "recv"
         ELSE main' = "panicked" /\ UNCHANGED <<timer, dispatcher>>
    /\ UNCHANGED <<changes, starts, clock, late_counter, overdue,
                   ticks, inflight, lost, recordVars>>

-------------------------------------------------------------------------------
(* The timer thread. *)

(* sleep_time is read before the sleep, and what follows the sleep compares *)
(* it again: only an iteration that begins late counts.                     *)
IsLate(sleep_time, next) == sleep_time > next + Slack

(* The timer gives up at the LateLimit-th late iteration in a row.          *)
GivesUp(late) == late >= LateLimit

(* try_send fails on a full channel; the mutant is off by one.              *)
RoomForOneMore(n) == n <= TimerCap
HasRoom(n) == n < TimerCap

(* Instant::now() \geq next + lag when the thread sleeps, and the rest of   *)
(* the iteration may take a pause.                                          *)
Iterate(lag, pause) ==
    LET next == now + Interarrival(RateAt(changes, now))
        issued == IF clock < next THEN next + lag ELSE clock
        late == IF IsLate(clock, next) THEN late_counter + 1 ELSE 0
    IN
    /\ timer = "running" /\ ~Exhausted(now) /\ RateAt(changes, now) > 0
    /\ starts' = Append(starts, next)
    /\ late_counter' = late
    /\ clock' = issued + pause
    /\ overdue' = IF issued > next + Slack THEN overdue + 1 ELSE 0
    /\ \/ GivesUp(late)  /\ timer' = "late"   /\ UNCHANGED ticks
       \/ ~GivesUp(late) /\ dispatcher = "panicked"
                         /\ timer' = "closed" /\ UNCHANGED ticks
       \/ ~GivesUp(late) /\ dispatcher # "panicked" /\ HasRoom(ticks)
                         /\ ticks' = ticks + 1 /\ UNCHANGED timer
       \/ ~GivesUp(late) /\ dispatcher # "panicked" /\ ~HasRoom(ticks)
                         /\ timer' = "full"   /\ UNCHANGED ticks
    /\ UNCHANGED <<changes, dispatcher, inflight, lost, recordVars, main>>

(* The iterator is empty: the thread returns Ok and drops timer_tx.  At     *)
(* rate 0 the interarrival time is infinite and from_secs_f64 panics.       *)
TimerEnds ==
    /\ timer = "running"
    /\ \/ Exhausted(now) /\ timer' = "ok"
       \/ ~Exhausted(now) /\ RateAt(changes, now) = 0 /\ timer' = "panicked"
    /\ UNCHANGED <<changes, starts, clock, late_counter, overdue,
                   ticks, dispatcher, inflight, lost, recordVars, main>>

-------------------------------------------------------------------------------
(* The dispatcher and the request tasks. *)

(* recv() takes one tick.                                                   *)
Dispatch ==
    /\ dispatcher = "recv" /\ ticks > 0
    /\ ticks' = ticks - 1
    /\ inflight' = inflight + 1
    /\ UNCHANGED <<timerVars, dispatcher, lost, recordVars, main>>

(* Its mutant leaves the loop when the timer has ended, ticks or not.       *)
Closed == timer # "running"
TicksGone == ticks = 0 /\ timer # "running"

(* recv() returns None; with Stats on, the server is asked for its stats,   *)
(* and only then the dispatcher drops its sender.                           *)
TicksOver ==
    /\ dispatcher = "recv" /\ TicksGone
    /\ dispatcher' = IF Stats THEN "stats" ELSE "ended"
    /\ UNCHANGED <<timerVars, ticks, inflight, lost, recordVars, main>>

WriteStats ==
    /\ dispatcher = "stats"
    /\ dispatcher' = "ended"
    /\ UNCHANGED <<timerVars, ticks, inflight, lost, recordVars, main>>

(* get_name divides by zero, or write_timestamps fails: the task's handle   *)
(* was dropped, so nobody notices; the ticks go with the receiver.          *)
DispatcherPanics ==
    /\ MayPanic
    /\ dispatcher = "stats" \/ (dispatcher = "recv" /\ ticks > 0)
    /\ dispatcher' = "panicked"
    /\ ticks' = 0
    /\ UNCHANGED <<timerVars, inflight, lost, recordVars, main>>

(* The client's timeout bounds this.                                        *)
Complete(answer) ==
    /\ inflight > 0
    /\ inflight' = inflight - 1
    /\ sending' = [sending EXCEPT ![answer] = @ + 1]
    /\ UNCHANGED <<timerVars, ticks, dispatcher, lost, queued, logged, main>>

(* check_body asserts: a wrong answer ends the task before its record.      *)
AnsweredWrong ==
    /\ inflight > 0
    /\ inflight' = inflight - 1
    /\ lost' = lost + 1
    /\ UNCHANGED <<timerVars, ticks, dispatcher, recordVars, main>>

SendRecord(answer) ==
    /\ sending[answer] > 0 /\ Both(queued) < RecordCap
    /\ sending' = [sending EXCEPT ![answer] = @ - 1]
    /\ queued' = [queued EXCEPT ![answer] = @ + 1]
    /\ UNCHANGED <<timerVars, ticks, dispatcher, inflight, lost, logged, main>>

-------------------------------------------------------------------------------
(* The caller. *)

(* no_warmup is set whether or not it is given: there is no ramp-up whose   *)
(* records would be skipped.                                                *)
Receive(answer) ==
    /\ main = "collecting" /\ queued[answer] > 0
    /\ queued' = [queued EXCEPT ![answer] = @ - 1]
    /\ logged' = [logged EXCEPT ![answer] = @ + 1]
    /\ UNCHANGED <<timerVars, ticks, dispatcher, inflight, lost, sending, main>>

(* Every clone of tx is dropped; the mutants: the caller keeps one, or the  *)
(* dispatcher moves its own into the requests.                              *)
SenderKept == FALSE
DispatcherSenderGone == inflight + Both(sending) = 0 /\ timer # "running"
SendersGone ==
    /\ dispatcher \in {"ended", "panicked"}
    /\ inflight + Both(sending) = 0

RecordsOver ==
    /\ main = "collecting" /\ Both(queued) = 0 /\ SendersGone
    /\ main' = "joining"
    /\ UNCHANGED <<timerVars, ticks, dispatcher, inflight, lost, recordVars>>

(* task_timer.await??; after it the log is written, which panics when it is *)
(* empty, for then no record has set its first and last time.               *)
Join ==
    /\ main = "joining" /\ timer # "running"
    /\ main' = IF timer # "ok" THEN "err" ELSE IF Both(logged) = 0 THEN "panicked" ELSE "ok"
    /\ UNCHANGED <<timerVars, ticks, dispatcher, inflight, lost, recordVars>>

Returned == main \in {"ok", "err", "panicked"}
Done == Returned /\ UNCHANGED vars

TimerStep == TimerEnds \/ \E lag, pause \in Lags : Iterate(lag, pause)
DispatcherStep == Dispatch \/ TicksOver \/ WriteStats \/ DispatcherPanics
AnswerStep == AnsweredWrong \/ \E answer \in Answers : Complete(answer)
RecordStep == \E answer \in Answers : SendRecord(answer)
MainStep == LoadTrace \/ RecordsOver \/ Join \/ \E answer \in Answers : Receive(answer)

Next == TimerStep \/ DispatcherStep \/ AnswerStep \/ RecordStep \/ MainStep \/ Done

Spec == Init /\ [][Next]_vars

(* The thread and the tasks run, and the client's timeout ends requests. *)
FairSpec ==
    /\ Spec
    /\ WF_vars(TimerStep) /\ WF_vars(DispatcherStep) /\ WF_vars(MainStep)
    /\ WF_vars(AnswerStep) /\ WF_vars(RecordStep)

-------------------------------------------------------------------------------
(* Every variable stays in its range. *)
TypeOK ==
    /\ changes \in InitialChanges
    /\ starts \in Seq(Nat)
    /\ clock \in Nat
    /\ timer \in {"none", "running", "ok", "late", "full", "closed", "panicked"}
    /\ late_counter \in 0..LateLimit
    /\ overdue \in Nat
    /\ ticks \in 0..TimerCap
    /\ dispatcher \in {"none", "recv", "stats", "ended", "panicked"}
    /\ inflight \in Nat /\ lost \in Nat
    /\ {sending, queued, logged} \subseteq [Answers -> Nat]
    /\ Both(queued) <= RecordCap
    /\ main \in {"loading", "collecting", "joining", "ok", "err", "panicked"}

(* Every start time is a tick in the channel, a request, or the one tick    *)
(* the timer gave up on, as long as the dispatcher lives; so that a run     *)
(* that ends well has a record of every start time of the whole trace,      *)
(* except for the requests whose answer failed verification.                *)
TicksBecomeRequests ==
    dispatcher # "panicked" =>
        /\ Len(starts) = ticks + Dispatched
                         + (IF timer \in {"late", "full"} THEN 1 ELSE 0)
        /\ main = "ok" => /\ Exhausted(now)
                          /\ Both(logged) + lost = Len(starts)

(* When run_open_loop returns, with whatever result, nothing of the run is  *)
(* still going: the next run of a sweep does not meet its requests.         *)
NothingLeftRunning ==
    Returned =>
        /\ timer # "running" /\ dispatcher \in {"none", "ended", "panicked"}
        /\ inflight + Both(sending) + Both(queued) = 0

(* "specifies changes in RPS over time": in each second the generator has   *)
(* passed, as many requests are due as the last entry of the trace up to it *)
(* asks for, but for one by rounding, and for those whose time the last     *)
(* interarrival of a slower second before it takes.                         *)
AskedRate(t) ==
    changes[CHOOSE i \in DOMAIN changes :
              /\ changes[i].time <= t
              /\ \A j \in DOMAIN changes : changes[j].time <= t => j <= i].rate
Due(t) == {i \in DOMAIN starts :
             t * TicksPerSec < starts[i] /\ starts[i] <= (t + 1) * TicksPerSec}
Overhang(t) == IF t = 0 THEN 0 ELSE (AskedRate(t) - 1) \div AskedRate(t - 1)
RatesFollowTrace ==
    \A t \in 0..(Second(now) - 1) :
        /\ Cardinality(Due(t)) <= AskedRate(t) + 1
        /\ Cardinality(Due(t)) >= AskedRate(t) - 1 - Overhang(t)

(* The run returns, whichever of its tasks fails, and does not hang on a    *)
(* full channel or a sender nobody drops.                                   *)
RunReturns == <>Returned

(* "late after sleeping by" (the warning after the sleep): a request issued *)
(* late because the thread overslept counts as late too, so that LateLimit  *)
(* of them in a row make the timer give up.                                 *)
OversleepingIsLate == timer = "running" => overdue < LateLimit

(* "Check if more than X% of requests failed": a request that failed, be it *)
(* by its answer, counts among the failed ones of the log.                  *)
Failed == lost + sending["failed"] + queued["failed"] + logged["failed"]
FailuresAreCounted == main = "ok" => logged["failed"] = Failed
===============================================================================
