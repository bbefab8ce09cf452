------------------------------ MODULE RequestMix ------------------------------
(***************************************************************************)
(* How the load generator mixes hot and cold requests and spreads the cold *)
(* ones over the registered copies of the function: HotGenerator in        *)
(* client/src/main.rs and FunctionId in client/src/registration.rs.        *)
(* Clients of the closed loop share both, and each draws first whether its *)
(* request is hot and then its function name: two atomic fetch_adds with   *)
(* other clients' in between.  A u32 wraps at W; the code's W is 2^32.     *)
(***************************************************************************)
EXTENDS Integers

CONSTANTS Callers,      \* tasks that issue requests
          W,            \* values of a u32
          HotDen,       \* Args::hot_percent is a multiple of 1 / HotDen
          Settings,     \* records of hot_percent * HotDen and cold_instances
          MaxRequests   \* bound: requests drawn

VARIABLES
    setting,           \* the arguments of this run
    request_counter,   \* HotGenerator::request_counter
    cold_counter,      \* FunctionId::cold_counter
    decision,          \* what each caller has drawn and not yet named
    dead,              \* callers whose task panicked
    first,             \* the random initial request_counter
    drawn,             \* requests drawn so far
    hots,              \* of them hot
    uses               \* requests per cold copy

vars == <<setting, request_counter, cold_counter, decision, dead, first, drawn, hots, uses>>

(* tokio_main refuses to run without cold copies unless all is hot. *)
ASSUME MixAssumption ==
    /\ W \in Nat /\ W > 1
    /\ HotDen \in Nat \ {0}
    /\ \A s \in Settings : s.hot \in 0..HotDen /\ s.cold \in 0..(W - 1)
                            /\ (s.cold = 0 => s.hot = HotDen)

HotNum == setting.hot
ColdMax == setting.cold

(* HotGenerator::new                                                        *)
HotRate ==
    IF HotNum >= HotDen THEN W - 1
    ELSE IF HotNum = 0 THEN 0
    ELSE ((W - 1) * HotNum) \div HotDen

Copies == 0..(ColdMax - 1)

(* fetch_add and overflowing_add; the mutants of Carry saturate, or count   *)
(* in a wider word.                                                         *)
Unwrapped(a, b) == a + b
Saturated(a, b) == IF a + b < W THEN a + b ELSE W - 1
Carry(a, b) == IF a + b < W THEN a + b ELSE a + b - W
Overflows(a, b) == a + b >= W

Init ==
    /\ setting \in Settings
    /\ request_counter \in 0..(W - 1)
    /\ cold_counter = 0
    /\ decision = [c \in Callers |-> "none"]
    /\ dead = {}
    /\ first = request_counter
    /\ drawn = 0
    /\ hots = 0
    /\ uses = [i \in Copies |-> 0]

(* HotGenerator::next *)
Draw(c) ==
    /\ decision[c] = "none" /\ c \notin dead /\ drawn < MaxRequests
    /\ request_counter' = Carry(request_counter, HotRate)
    /\ decision' = [decision EXCEPT ![c] =
                      IF Overflows(request_counter, HotRate) THEN "hot" ELSE "cold"]
    /\ hots' = IF Overflows(request_counter, HotRate) THEN hots + 1 ELSE hots
    /\ drawn' = drawn + 1
    /\ UNCHANGED <<setting, cold_counter, dead, first, uses>>

(* FunctionId::get_name for a hot request: the base name. *)
NameHot(c) ==
    /\ decision[c] = "hot"
    /\ decision' = [decision EXCEPT ![c] = "none"]
    /\ UNCHANGED <<setting, request_counter, cold_counter, dead, first, drawn, hots, uses>>

(* get_cold_name; the mutant of ColdIndex counts all requests.              *)
IndexOfRequest == request_counter % ColdMax
ColdIndex == cold_counter % ColdMax

NameCold(c) ==
    /\ decision[c] = "cold" /\ ColdMax > 0
    /\ cold_counter' = Carry(cold_counter, 1)
    /\ uses' = [uses EXCEPT ![ColdIndex] = @ + 1]
    /\ decision' = [decision EXCEPT ![c] = "none"]
    /\ UNCHANGED <<setting, request_counter, dead, first, drawn, hots>>

(* With no cold copies the remainder by zero panics, after the fetch_add.   *)
NameColdPanics(c) ==
    /\ decision[c] = "cold" /\ ColdMax = 0
    /\ cold_counter' = Carry(cold_counter, 1)
    /\ dead' = dead \cup {c}
    /\ decision' = [decision EXCEPT ![c] = "none"]
    /\ UNCHANGED <<setting, request_counter, first, drawn, hots, uses>>

Next == \E c \in Callers : Draw(c) \/ NameHot(c) \/ NameCold(c) \/ NameColdPanics(c)

Spec == Init /\ [][Next]_vars

-------------------------------------------------------------------------------
(* Every variable stays in its range. *)
TypeOK ==
    /\ setting \in Settings
    /\ request_counter \in 0..(W - 1)
    /\ cold_counter \in 0..(W - 1)
    /\ decision \in [Callers -> {"none", "hot", "cold"}]
    /\ dead \subseteq Callers
    /\ first \in 0..(W - 1)
    /\ drawn \in Nat
    /\ hots \in Nat
    /\ uses \in [Copies -> Nat]

(* The overflow bits of the shared counter add up without error: no request *)
(* is counted twice or lost, over any number of wraps and any interleaving. *)
MixExact == hots * W + request_counter = first + drawn * HotRate

(* The cold copies take turns whatever the interleaving: until the counter  *)
(* wraps (or if ColdMax divides W, for ever) no copy is used two times more *)
(* than another, which is what keeps them cold.                             *)
ColdTakesTurns ==
    drawn - hots <= W \/ (ColdMax > 0 /\ W % ColdMax = 0) =>
        \A i, j \in Copies : uses[i] <= uses[j] + 1

(* tokio_main panics with "Registering 0 cold instances for non pure hot    *)
(* experiment" when hot_percent < 1.0 only: with hot_percent = 1.0 no       *)
(* request may need a cold copy.                                            *)
PureHotNeverCold == HotNum >= HotDen => dead = {}
===============================================================================
