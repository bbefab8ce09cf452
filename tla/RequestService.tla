---------------------------- MODULE RequestService ----------------------------
(***************************************************************************)
(* What the Firecracker frontend promises its clients, with no virtual     *)
(* machine, queue, permit or barrier in sight: a request submitted while   *)
(* the server is up is taken by at most one worker, which must be of the   *)
(* request's class and must not be busy, and is then decided once.         *)
(* FirecrackerPool implements this specification.                          *)
(***************************************************************************)
CONSTANTS Hot,       \* ids of the hot workers
          Cold,      \* ids of the cold workers
          Requests,  \* client connections, one outstanding request on each
          None       \* no request

VARIABLES phase,   \* "starting", "open", "closing" or "closed"
          status,  \* what the client of each connection knows
          path,    \* class of the latest request on each connection
          job      \* the request each worker has taken, or None

vars == <<phase, status, path, job>>

Workers == Hot \cup Cold
Classes == {"hot", "cold"}
ClassOf(w) == IF w \in Hot THEN "hot" ELSE "cold"

(* A client is still owed an answer, or left before it came. *)
Outstanding(r) == status[r] \in {"waiting", "abandoned"}

Init ==
    /\ phase = "starting"
    /\ status = [r \in Requests |-> "new"]
    /\ path \in [Requests -> Classes]
    /\ job = [w \in Workers |-> None]

Open ==
    /\ phase = "starting"
    /\ phase' = "open"
    /\ UNCHANGED <<status, path, job>>

Close ==
    /\ phase = "open"
    /\ phase' = "closing"
    /\ UNCHANGED <<status, path, job>>

(* The process ends, whatever the phase; who still waits sees a reset. *)
Stop ==
    /\ phase # "closed"
    /\ phase' = "closed"
    /\ status' = [r \in Requests |->
                    IF status[r] = "waiting" THEN "reset" ELSE status[r]]
    /\ UNCHANGED <<path, job>>

Submit(r, c) ==
    /\ phase \in {"open", "closing"}
    /\ ~Outstanding(r)
    /\ status' = [status EXCEPT ![r] = "waiting"]
    /\ path' = [path EXCEPT ![r] = c]
    /\ UNCHANGED <<phase, job>>

(* The client hangs up: an unanswered request is abandoned, not withdrawn. *)
Disconnect(r) ==
    /\ phase \in {"open", "closing"}
    /\ status' = [status EXCEPT ![r] = IF @ = "waiting" THEN "abandoned" ELSE
                                       IF @ = "abandoned" THEN @ ELSE "new"]
    /\ UNCHANGED <<phase, path, job>>

Take(w, r) ==
    /\ phase \in {"open", "closing"}
    /\ Outstanding(r)
    /\ path[r] = ClassOf(w)
    /\ job[w] = None
    /\ \A v \in Workers : job[v] # r
    /\ job' = [job EXCEPT ![w] = r]
    /\ UNCHANGED <<phase, status, path>>

Decide(w, outcome) ==
    /\ phase \in {"open", "closing"}
    /\ job[w] # None
    /\ job' = [job EXCEPT ![w] = None]
    /\ status' = [status EXCEPT ![job[w]] = IF @ = "waiting" THEN outcome ELSE "new"]
    /\ UNCHANGED <<phase, path>>

Next ==
    \/ Open \/ Close \/ Stop
    \/ \E r \in Requests : Disconnect(r) \/ \E c \in Classes : Submit(r, c)
    \/ \E w \in Workers : \/ \E r \in Requests : Take(w, r)
                          \/ \E outcome \in {"ok", "err"} : Decide(w, outcome)

Spec == Init /\ [][Next]_vars
===============================================================================
