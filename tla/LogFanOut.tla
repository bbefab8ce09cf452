------------------------------ MODULE LogFanOut ------------------------------
(***************************************************************************)
(* The middleware application in its three forms: the dedicated server's   *)
(* handler (servers/baremetal/src/middleware.rs), the Spin component       *)
(* (servers/wasmtime/middleware) and the three Python scripts of the       *)
(* Dandelion composition (servers/dandelion/python_app).  Each has a token *)
(* authorised, fetches the logs of all servers from the storage server at  *)
(* once, sorts their events by timestamp and renders a page, of which the  *)
(* client checks the number of lines.                                      *)
(***************************************************************************)
EXTENDS Integers, SequencesExt

CONSTANTS Variants,         \* forms of the application that are compared
          LogServerCount,   \* LOG_SERVER_COUNT; the code's is 10
          EventCount,       \* EVENT_COUNT; the code's is 20
          Times             \* timestamps, in the order of their strings

ASSUME LogFanOutAssumption ==
    /\ Variants \subseteq {"dedicated", "spin", "python"}
    /\ LogServerCount \in Nat \ {0} /\ EventCount \in Nat \ {0}
    /\ Times \subseteq Nat

VARIABLES
    variant,   \* which form serves the request
    app,       \* where it is
    result,    \* what the fetch of each log has come to
    log,       \* the events of each log, as the storage server made them
    arrived,   \* servers whose fetch has ended, in that order
    page,      \* the events on the page
    client     \* the client's verdict

vars == <<variant, app, result, log, arrived, page, client>>

Servers == 1..LogServerCount
Events == [time : Times, server : Servers, number : 1..EventCount]

Init ==
    /\ variant \in Variants
    /\ app = "authorizing"
    /\ result = [s \in Servers |-> "none"]
    /\ log = [s \in Servers |-> <<>>]
    /\ arrived = <<>>
    /\ page = <<>>
    /\ client = "waiting"

-------------------------------------------------------------------------------
(* The storage server (http_storage/src/main.rs).                           *)

(* Random steps from four hours ago towards now: never back in time.        *)
Logs(s) ==
    {events \in [1..EventCount -> Events] :
        /\ \A i \in 1..EventCount : events[i].server = s /\ events[i].number = i
        /\ \A i \in 2..EventCount : events[i - 1].time <= events[i].time}

-------------------------------------------------------------------------------
(* The application. *)

(* The answer to /authorize, with which all fetches start; a failed one     *)
(* ends the request in every form, by unwrap, ? or the script's assert.     *)
Authorize ==
    /\ app = "authorizing"
    /\ \/ app' = "fetching" /\ result' = [s \in Servers |-> "asked"]
       \/ app' = "failed" /\ UNCHANGED result
    /\ UNCHANGED <<variant, log, arrived, page, client>>

(* A fetch ends once; the mutant retries fetches that have ended.           *)
WasAsked(s) == result[s] # "none"
Asked(s) == result[s] = "asked"

Fetched(s) ==
    /\ app = "fetching" /\ Asked(s)
    /\ \E events \in Logs(s) : log' = [log EXCEPT ![s] = events]
    /\ result' = [result EXCEPT ![s] = "fetched"]
    /\ arrived' = Append(arrived, s)
    /\ UNCHANGED <<variant, app, page, client>>

(* send() fails.  The dedicated server's future unwraps it, and the panic   *)
(* ends the handler with the other fetches on their way; Spin keeps the     *)
(* error; and what the Dandelion runtime, which is external, does of the    *)
(* two is left open.                                                        *)
Unwraps == {"dedicated", "python"}
KeepsError == {"spin", "python"}
FetchFails(s) ==
    /\ app = "fetching" /\ Asked(s)
    /\ \/ variant \in Unwraps /\ app' = "failed" /\ UNCHANGED <<result, arrived>>
       \/ /\ variant \in KeepsError
          /\ result' = [result EXCEPT ![s] = "failed"]
          /\ arrived' = Append(arrived, s)
          /\ UNCHANGED app
    /\ UNCHANGED <<variant, log, page, client>>

(* "invalid log response": a body that is no log, as the storage server's   *)
(* 400 is, panics in every form, once all fetches have ended.               *)
Joined == \A s \in Servers : result[s] \in {"fetched", "failed"}
InvalidLog(s) ==
    /\ app = "fetching" /\ Joined /\ result[s] = "fetched"
    /\ app' = "failed"
    /\ UNCHANGED <<variant, result, log, arrived, page, client>>

(* join_all keeps the order of the servers; its mutant takes the results as *)
(* they come.                                                               *)
AsTheyCome == arrived
AsAsked == [s \in Servers |-> s]

(* glob gives the files of the responses in any order.                      *)
Orders ==
    IF variant = "python"
      THEN {order \in [Servers -> Servers] : \A s, t \in Servers : order[s] = order[t] => s = t}
      ELSE {AsAsked}
Collected(order) == FlattenSeq([i \in Servers |-> log[order[i]]])

(* sort_by and list.sort are stable; the mutant renders the logs one after  *)
(* the other.                                                               *)
Rank(events, j) ==
    Cardinality({k \in DOMAIN events :
        \/ events[k].time < events[j].time
        \/ events[k].time = events[j].time /\ k <= j})
Unsorted(events) == events
Sorted(events) ==
    [i \in DOMAIN events |->
        events[CHOOSE j \in DOMAIN events : Rank(events, j) = i]]

Render ==
    /\ app = "fetching" /\ Joined
    /\ \E order \in Orders : page' = Sorted(Collected(order))
    /\ app' = "rendered"
    /\ UNCHANGED <<variant, result, log, arrived, client>>

-------------------------------------------------------------------------------
(* The client (client/src/request_type.rs). *)

(* Head, events and tail of the templates; the Python template starts with  *)
(* an empty line, and its loop leaves a line of its own per event.          *)
Lines(form, events) ==
    IF form = "python" THEN 15 + 7 * events + 3 ELSE 14 + 6 * events + 2

(* RequestType::checksum; the mutant of LinesOk lets short pages pass.      *)
ExpectedLines == 14 + LogServerCount * EventCount * 6 + 2
AtMost(lines) == lines <= ExpectedLines
LinesOk(lines) == lines = ExpectedLines

CheckPage ==
    /\ app = "rendered" /\ client = "waiting"
    /\ client' = IF LinesOk(Lines(variant, Len(page))) THEN "accepted" ELSE "wrong"
    /\ UNCHANGED <<variant, app, result, log, arrived, page>>

(* The connection is closed, the status is an error, or the timeout passes. *)
GetError ==
    /\ client = "waiting"
    /\ client' = "error"
    /\ UNCHANGED <<variant, app, result, log, arrived, page>>

Over == client # "waiting" /\ app \in {"failed", "rendered"} /\ UNCHANGED vars

Next ==
    \/ Authorize \/ Render \/ CheckPage \/ GetError \/ Over
    \/ \E s \in Servers : Fetched(s) \/ FetchFails(s) \/ InvalidLog(s)

Spec == Init /\ [][Next]_vars

-------------------------------------------------------------------------------
(* Every variable stays in its range, and a fetch has its log when it has   *)
(* succeeded and ends once.                                                 *)
TypeOK ==
    /\ variant \in Variants
    /\ app \in {"authorizing", "fetching", "rendered", "failed"}
    /\ result \in [Servers -> {"none", "asked", "fetched", "failed"}]
    /\ \A s \in Servers : log[s] \in IF result[s] = "fetched" THEN Logs(s) ELSE {<<>>}
    /\ arrived \in Seq(Servers) /\ IsInjective(arrived)
    /\ \A i \in DOMAIN page : page[i] \in Events
    /\ client \in {"waiting", "accepted", "wrong", "error"}

(* "check they send back the correct number of lines": a page the client    *)
(* accepts has every event of every server's log, in the order of time,     *)
(* whichever fetches failed and in whatever order they came.  Where Spin    *)
(* drops a failed log, the number of lines gives it away.                   *)
AcceptedPageIsComplete ==
    client = "accepted" =>
        /\ \A s \in Servers : result[s] = "fetched"
        /\ ToSet(page) = UNION {ToSet(log[s]) : s \in Servers}
        /\ Len(page) = LogServerCount * EventCount
        /\ \A i, j \in DOMAIN page : i < j => page[i].time <= page[j].time

(* The Rust forms render the same logs to the same page however the fetches *)
(* interleave: events of one time stay in the order of their servers, and   *)
(* those of one server in the order of its log.                             *)
PageIgnoresTiming ==
    app = "rendered" /\ variant # "python" =>
        \A i, j \in DOMAIN page : i < j /\ page[i].time = page[j].time =>
            \/ page[i].server < page[j].server
            \/ page[i].server = page[j].server /\ page[i].number < page[j].number

(* The client's expectation holds of every form of the application: a page  *)
(* of all logs is not taken for a wrong answer.                             *)
CompletePageAccepted ==
    client = "wrong" => \E s \in Servers : result[s] = "failed"
===============================================================================
