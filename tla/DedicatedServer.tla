---------------------------- MODULE DedicatedServer ----------------------------
(***************************************************************************)
(* The dedicated server (servers/baremetal/src/main.rs), which is also the *)
(* server inside a guest of the Firecracker frontend: its routes, the      *)
(* handlers, each a task of its connection, and the archive of timestamp   *)
(* records that the matmul handler fills and /stats empties.               *)
(***************************************************************************)
EXTENDS Integers

CONSTANT Requests          \* what the clients post, in the order of posting

VARIABLES
    build,           \* whether the feature timestamp is on
    request_type,    \* RequestType, by what its handler does
    heat,            \* whether the path of a request says hot or cold
    handler,         \* how far handle_function is with a request
    archive          \* how often the archive has the row of a request

serverVars == <<build, request_type, heat, handler, archive>>

Builds == {"timestamp", "plain"}

(* io stands for the routes whose handlers leave no record: io,             *)
(* chain_scaling_dedicated and compression_app, with both paths right.      *)
RequestTypes == {"matmul", "matmulstore", "io"}

(* Rows are counted by the request they are about; their order is left out. *)
Rows == [Requests -> Nat]
NoRows == [r \in Requests |-> 0]
Added(rows, r) == [rows EXCEPT ![r] = @ + 1]
Removed(rows, r) == [rows EXCEPT ![r] = @ - 1]

(* Where the pattern of a cold path lacks its slash the path falls through. *)
ColdPathMatches ==
    \/ request_type = "io"
    \/ request_type = "matmul" /\ build = "plain"
PathMatches(r) == heat[r] = "hot" \/ ColdPathMatches

ServerInit ==
    /\ build \in Builds
    /\ request_type \in RequestTypes
    /\ heat = [r \in Requests |-> "none"]
    /\ handler = [r \in Requests |-> "none"]
    /\ archive = NoRows

Handle(r, stage) == handler' = [handler EXCEPT ![r] = stage]

(* "Hello, World\n", with the status 200 of Response::new.                  *)
Greet(r) ==
    /\ handler[r] = "received" /\ ~PathMatches(r)
    /\ Handle(r, "greeted")
    /\ UNCHANGED <<build, request_type, heat, archive>>

(* parse, get the data from the storage server, compute                     *)
Compute(r) ==
    /\ handler[r] = "received" /\ PathMatches(r) /\ request_type # "matmulstore"
    /\ Handle(r, "computed")
    /\ UNCHANGED <<build, request_type, heat, archive>>

(* A panic ends the task and with it the connection.  The storage server    *)
(* may fail; and handle_matmul_with_store wants " HTTP/1.1" at the end of   *)
(* a POST line, where RequestType::body puts two newlines more.             *)
HandlerPanics(r) ==
    /\ handler[r] = "received" /\ PathMatches(r) /\ request_type # "matmul"
    /\ Handle(r, "panicked")
    /\ UNCHANGED <<build, request_type, heat, archive>>

(* archive.lock().unwrap().push(record): no handler panics with the lock.   *)
Push(r) ==
    /\ handler[r] = "computed"
    /\ Handle(r, "served")
    /\ archive' = IF build = "timestamp" /\ request_type = "matmul"
                    THEN Added(archive, r) ELSE archive
    /\ UNCHANGED <<build, request_type, heat>>

HandlerStep(r) == Greet(r) \/ Compute(r) \/ HandlerPanics(r) \/ Push(r)

(* Ok(response) is the handler's last act; the mutant answers before it     *)
(* takes the lock.                                                          *)
AnsweredEarly(r) == handler[r] \in {"computed", "served"}
Answered(r) == handler[r] = "served"

(* handle_stats drains the archive under its lock; the mutant reads it.     *)
ReadOnly == archive
Drained == NoRows

ServerTypeOK ==
    /\ build \in Builds
    /\ request_type \in RequestTypes
    /\ heat \in [Requests -> {"none", "hot", "cold"}]
    /\ handler \in [Requests -> {"none", "received", "greeted", "computed",
                                 "panicked", "served"}]
    /\ archive \in Rows
===============================================================================
