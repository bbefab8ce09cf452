---------------------------- MODULE FirecrackerPool ----------------------------
(***************************************************************************)
(* The Firecracker frontend: servers/firecracker/frontend/src/main.rs and  *)
(* vm.rs.  One task per worker creates its virtual machine (under a        *)
(* semaphore), meets the other workers and main at a barrier, and then     *)
(* serves requests from the queue of its class until the cancellation      *)
(* token fires.  Main accepts connections between the barrier and a        *)
(* signal, then waits for the workers.                                     *)
(*                                                                         *)
(* A step is the code between two awaits that other tasks can observe.     *)
(* A request is named by the connection it arrives on: HTTP/1 connections  *)
(* carry one outstanding request at a time.  Addresses, taps and firewall  *)
(* rules are the subject of VmNetwork; here net[w] says whether worker w's *)
(* network is set up.                                                      *)
(***************************************************************************)
EXTENDS Integers, Sequences, FiniteSets

CONSTANTS Hot,           \* ids of the hot workers (Args::hot of them)
          Cold,          \* ids of the cold workers (Args::cold of them)
          Requests,      \* client connections
          Permits,       \* size of the semaphore PERMITS
          UseSnapshots,  \* Args::use_snapshots
          MaxPanics,     \* bound: how many worker tasks may panic
          Main,          \* main as a party of the barrier
          None           \* no request

VARIABLES
    main,     \* where main() is
    arrived,  \* parties that have called ready.wait()
    permits,  \* available permits of PERMITS
    pc,       \* where each worker task is
    vm,       \* the VMM process whose handle the worker holds
    guest,    \* the HTTP server inside that VM
    snap,     \* that server in the snapshot ("down" while there is none)
    warned,   \* workers whose latest test_ready gave up
    orphans,  \* dropped handles of VMMs nobody stopped: the worker and where
    net,      \* whether the worker's tap and firewall rule exist
    queue,    \* hot_work_queue and cold_work_queue
    job,      \* the Work each worker has taken and not yet let go of
    conns,    \* open client connections
    status,   \* what the client of each connection knows
    path,     \* class of the latest request on each connection
    streaming \* requests whose client still sends the body

vmVars == <<vm, guest, snap, warned, orphans>>
clientVars == <<conns, status, path, streaming>>
vars == <<main, arrived, permits, pc, vmVars, net, queue, job, clientVars>>

Workers == Hot \cup Cold
Parties == Workers \cup {Main}
Classes == {"hot", "cold"}

(* The queue a worker receives from; its mutant: the cold one for all. *)
ColdOnly(w) == "cold"
ClassOf(w) == IF w \in Hot THEN "hot" ELSE "cold"

(* Locations of a worker inside create, serve and destroy. *)
Holding == {"network", "boot", "probe", "snapshot", "destroying"}
Creating == {"permit", "network", "boot", "probe", "snapshot"}
Serving == {"start", "load", "relay", "forward", "stop", "kill"}
Locations == Creating \cup Serving
                \cup {"barrier", "idle", "destroy", "destroying", "done", "panicked"}

(* The barrier; the mutant of Released makes it for hot + cold parties. *)
ReleasedOneShort == Cardinality(arrived) >= Cardinality(Workers)
Released == arrived = Parties

(* The token; the mutant of Cancelled cancels it after tracker.wait(). *)
CancelledAfterWait == main = "exited"
Cancelled == main \in {"stopping", "exited"}

(* Tasks the tracker has seen end; its mutant: those that left their loop. *)
FinishedServing(w) == pc[w] \in {"destroy", "destroying", "done", "panicked"}
Finished(w) == pc[w] \in {"done", "panicked"}

Alive == main \notin {"exited", "panicked"}
Panicked == {w \in Workers : pc[w] = "panicked"}
Outstanding(r) == status[r] \in {"waiting", "abandoned"}

ASSUME PoolAssumption ==
    /\ IsFiniteSet(Hot) /\ IsFiniteSet(Cold) /\ Hot \cap Cold = {}
    /\ Main \notin Hot \cup Cold
    /\ None \notin Requests
    /\ Permits \in Nat \ {0}
    /\ UseSnapshots \in BOOLEAN
    /\ MaxPanics \in Nat

-------------------------------------------------------------------------------
Init ==
    /\ main = "binding"
    /\ arrived = {}
    /\ permits = Permits
    /\ pc = [w \in Workers |-> "permit"]
    /\ vm = [w \in Workers |-> "off"]
    /\ guest = [w \in Workers |-> "down"]
    /\ snap = [w \in Workers |-> "down"]
    /\ warned = {}
    /\ orphans = {}
    /\ net = [w \in Workers |-> FALSE]
    /\ queue = [c \in Classes |-> <<>>]
    /\ job = [w \in Workers |-> None]
    /\ conns = {}
    /\ status = [r \in Requests |-> "new"]
    /\ path \in [Requests -> Classes]
    /\ streaming = {}

Goto(w, l) == pc' = [pc EXCEPT ![w] = l]

(* A guard of PERMITS; the mutant of Acquire is `let _ =`, which drops it   *)
(* at once, the mutant of Release forgets it.                               *)
AcquireForNothing == permits > 0 /\ permits' = permits
Acquire == permits > 0 /\ permits' = permits - 1
ForgetPermit == permits' = permits
Release == permits' = permits + 1

(* stop_vmm and stop_vmm_force. *)
VmOff(w) ==
    /\ vm' = [vm EXCEPT ![w] = "off"]
    /\ guest' = [guest EXCEPT ![w] = "down"]

(* A start that fails may have launched the VMM by then: serve stops it     *)
(* after a failed start, create does not.                                   *)
FailedStart == {"off", "running"}

(* The handle of a VMM in state left goes out of scope, which does not stop *)
(* the process.                                                             *)
DropVmm(w, left) ==
    /\ orphans' = IF left = "off" THEN orphans
                  ELSE orphans \cup {<<w, IF pc[w] \in Creating THEN "create" ELSE "serve">>}
    /\ VmOff(w)

(* The Sender half of the oneshot is used, or dropped, which handle_work    *)
(* turns into status 500; the client sends no more of the body.             *)
Answered(r, outcome) ==
    /\ status' = [status EXCEPT ![r] = IF @ = "waiting" THEN outcome ELSE "new"]
    /\ streaming' = streaming \ {r}

(* The end of serve drops the Work it still has; its mutant leaks it. *)
LeakWork(w) == job' = [job EXCEPT ![w] = None] /\ UNCHANGED <<status, streaming>>
DropWork(w) ==
    /\ IF job[w] = None THEN UNCHANGED <<status, streaming>> ELSE Answered(job[w], "err")
    /\ job' = [job EXCEPT ![w] = None]

-------------------------------------------------------------------------------
(* Creating a worker: VirtualMachineWorker::create and the retry loop. *)

AcquireForCreate(w) ==
    /\ pc[w] = "permit" /\ Acquire
    /\ Goto(w, "network")
    /\ UNCHANGED <<main, arrived, vmVars, net, queue, job, clientVars>>

(* create returned Ok: the permit is dropped and ready.wait() called. *)
ArriveFrom(w) ==
    /\ Release
    /\ arrived' = arrived \cup {w}
    /\ Goto(w, "barrier")

(* A plain cold worker has nothing left to do but to arrive. *)
SetupNetwork(w) ==
    /\ pc[w] = "network"
    /\ net' = [net EXCEPT ![w] = TRUE]
    /\ IF w \in Hot \/ UseSnapshots
         THEN Goto(w, "boot") /\ UNCHANGED <<arrived, permits>>
         ELSE ArriveFrom(w)
    /\ UNCHANGED <<main, vmVars, queue, job, clientVars>>

BootOk(w) ==
    /\ pc[w] = "boot"
    /\ vm' = [vm EXCEPT ![w] = "running"]
    /\ guest' = [guest EXCEPT ![w] = "down"]
    /\ Goto(w, "probe")
    /\ UNCHANGED <<main, arrived, permits, snap, warned, orphans, net, queue, job, clientVars>>

(* A `?` of create: the error is logged, the permit and the handle of the  *)
(* VMM, which nobody has stopped, are dropped, and create is called again.  *)
CreateFails(w) ==
    /\ pc[w] \in {"boot", "snapshot"}
    /\ Release
    /\ \E left \in IF pc[w] = "boot" THEN FailedStart ELSE {vm[w]} : DropVmm(w, left)
    /\ Goto(w, "permit")
    /\ UNCHANGED <<main, arrived, snap, warned, net, queue, job, clientVars>>

(* The guest's server starts listening at some time after the VM boots. *)
GuestUp(w) ==
    /\ vm[w] = "running" /\ guest[w] = "down" /\ pc[w] \notin {"load", "kill"}
    /\ guest' = [guest EXCEPT ![w] = "up"]
    /\ UNCHANGED <<main, arrived, permits, pc, vm, snap, warned, orphans, net, queue, job,
                   clientVars>>

(* test_ready returns nothing: after ten attempts it warns and the worker   *)
(* goes on too; the mutant of Probed stops after one and does not look.     *)
ProbedOnce(w) == warned' = warned \ {w}
Probed(w) == warned' = IF guest[w] = "up" THEN warned \ {w} ELSE warned \cup {w}

TestReady(w) ==
    /\ pc[w] = "probe"
    /\ Probed(w)
    /\ IF w \in Hot
         THEN ArriveFrom(w)
         ELSE Goto(w, "snapshot") /\ UNCHANGED <<arrived, permits>>
    /\ UNCHANGED <<main, vm, guest, snap, orphans, net, queue, job, clientVars>>

(* pause, create_snapshot, resume, stop_vmm. *)
TakeSnapshot(w) ==
    /\ pc[w] = "snapshot"
    /\ snap' = [snap EXCEPT ![w] = guest[w]]
    /\ VmOff(w)
    /\ ArriveFrom(w)
    /\ UNCHANGED <<main, warned, orphans, net, queue, job, clientVars>>

PassBarrier(w) ==
    /\ pc[w] = "barrier" /\ Released
    /\ Goto(w, "idle")
    /\ UNCHANGED <<main, arrived, permits, vmVars, net, queue, job, clientVars>>

-------------------------------------------------------------------------------
(* Serving: the select loop and VirtualMachineWorker::serve. *)

TakeWork(w) ==
    LET q == queue[ClassOf(w)] IN
    /\ pc[w] = "idle" /\ q # <<>>
    /\ job' = [job EXCEPT ![w] = Head(q)]
    /\ queue' = [queue EXCEPT ![ClassOf(w)] = Tail(q)]
    /\ Goto(w, IF w \in Hot THEN "relay" ELSE "start")
    /\ UNCHANGED <<main, arrived, permits, vmVars, net, clientVars>>

(* A plain cold worker boots a fresh VM. *)
StartCold(w) ==
    /\ pc[w] = "start" /\ ~UseSnapshots
    /\ vm' = [vm EXCEPT ![w] = "running"]
    /\ Goto(w, "relay")
    /\ UNCHANGED <<main, arrived, permits, guest, snap, warned, orphans, net, queue, job,
                   clientVars>>

(* With snapshots, start_vmm_test launches an empty VMM ... *)
LaunchVmm(w) ==
    /\ pc[w] = "start" /\ UseSnapshots
    /\ vm' = [vm EXCEPT ![w] = "running"]
    /\ Goto(w, "load")
    /\ UNCHANGED <<main, arrived, permits, guest, snap, warned, orphans, net, queue, job,
                   clientVars>>

(* ... and load_from_snapshot resumes the guest as it was.                  *)
LoadSnapshot(w) ==
    /\ pc[w] = "load"
    /\ guest' = [guest EXCEPT ![w] = snap[w]]
    /\ Goto(w, "relay")
    /\ UNCHANGED <<main, arrived, permits, vm, snap, warned, orphans, net, queue, job, clientVars>>

(* Either may fail: the error is logged, the Work kept until serve returns, *)
(* and what was launched stopped.  The mutant of StopAfterFailure returns   *)
(* on the error at once, as create does.                                    *)
ReturnUnstopped(w, left) == DropVmm(w, left) /\ DropWork(w) /\ Goto(w, "idle")
StopAfterFailure(w, left) ==
    /\ vm' = [vm EXCEPT ![w] = left]
    /\ Goto(w, "kill")
    /\ UNCHANGED <<guest, orphans, job, status, streaming>>

StartColdFails(w) ==
    /\ pc[w] = "start" /\ ~UseSnapshots
    /\ \E left \in FailedStart : StopAfterFailure(w, left)
    /\ UNCHANGED <<main, arrived, permits, snap, warned, net, queue, conns, path>>

LoadFails(w) ==
    /\ pc[w] = "load"
    /\ StopAfterFailure(w, vm[w])
    /\ UNCHANGED <<main, arrived, permits, snap, warned, net, queue, conns, path>>

(* http_relay first collects the body the client sends with its request ... *)
ReadBody(w) ==
    /\ pc[w] = "relay" /\ job[w] \notin streaming
    /\ Goto(w, "forward")
    /\ UNCHANGED <<main, arrived, permits, vmVars, net, queue, job, clientVars>>

(* relay is over: the callback was used, or dropped with the error.         *)
Relayed(w, outcome) ==
    /\ Answered(job[w], outcome)
    /\ job' = [job EXCEPT ![w] = None]
    /\ Goto(w, IF w \in Hot THEN "idle" ELSE "stop")
    /\ UNCHANGED <<main, arrived, permits, vmVars, net, queue, conns, path>>

BodyFails(w) == pc[w] = "relay" /\ job[w] \in streaming /\ Relayed(w, "err")

(* ... then forwards the request, which only a listening guest answers.     *)
Forward(w) ==
    /\ pc[w] = "forward"
    /\ \/ guest[w] = "up" /\ Relayed(w, "ok")
       \/ Relayed(w, "err")

(* stop_server: the guest exits without answering. *)
StopServer(w) ==
    /\ pc[w] = "stop"
    /\ guest' = [guest EXCEPT ![w] = "down"]
    /\ Goto(w, "kill")
    /\ UNCHANGED <<main, arrived, permits, vm, snap, warned, orphans, net, queue, job, clientVars>>

(* stop_vmm_force, after which serve returns and drops what it still holds. *)
KillVm(w) ==
    /\ pc[w] = "kill"
    /\ VmOff(w)
    /\ DropWork(w)
    /\ Goto(w, "idle")
    /\ UNCHANGED <<main, arrived, permits, snap, warned, orphans, net, queue, conns, path>>

(* select! picks either ready branch, whatever the queue holds. *)
SeeCancelled(w) ==
    /\ pc[w] = "idle" /\ Cancelled
    /\ Goto(w, "destroy")
    /\ UNCHANGED <<main, arrived, permits, vmVars, net, queue, job, clientVars>>

AcquireForDestroy(w) ==
    /\ pc[w] = "destroy" /\ Acquire
    /\ Goto(w, "destroying")
    /\ UNCHANGED <<main, arrived, vmVars, net, queue, job, clientVars>>

Destroy(w) ==
    /\ pc[w] = "destroying"
    /\ Release
    /\ IF w \in Hot THEN VmOff(w) ELSE UNCHANGED <<vm, guest>>
    /\ net' = [net EXCEPT ![w] = FALSE]
    /\ Goto(w, "done")
    /\ UNCHANGED <<main, arrived, snap, warned, orphans, queue, job, clientVars>>

(* An unwrap or assert fails: sudo, the directories, new_machine, stop_vmm, *)
(* start_vmm_test (which may have launched the VMM), the form of the URI,   *)
(* bytes(), unwrap_err, stop_vmm_force.  Unwinding the task drops its       *)
(* permit, its Work and its VMM handle; nothing restarts the task.          *)
MayPanic(w) == pc[w] \in {"network", "boot", "snapshot", "start", "relay", "forward", "stop",
                          "kill", "destroying"}

Panic(w) ==
    /\ MayPanic(w) /\ Cardinality(Panicked) < MaxPanics
    /\ IF pc[w] \in Holding THEN Release ELSE UNCHANGED permits
    /\ DropWork(w)
    /\ \E left \in IF pc[w] = "start" /\ UseSnapshots THEN FailedStart ELSE {vm[w]} :
         DropVmm(w, left)
    /\ Goto(w, "panicked")
    /\ UNCHANGED <<main, arrived, snap, warned, net, queue, conns, path>>

-------------------------------------------------------------------------------
(* main and the clients. *)

(* TcpListener::bind, the signal streams, then ready.wait(). *)
Bind ==
    /\ main = "binding"
    /\ main' = "barrier"
    /\ arrived' = arrived \cup {Main}
    /\ UNCHANGED <<permits, pc, vmVars, net, queue, job, clientVars>>

(* The unwrap of bind takes the process down, workers and all. *)
BindFails ==
    /\ main = "binding"
    /\ main' = "panicked"
    /\ UNCHANGED <<arrived, permits, pc, vmVars, net, queue, job, clientVars>>

ServerReady ==
    /\ main = "barrier" /\ Released
    /\ main' = "accepting"
    /\ UNCHANGED <<arrived, permits, pc, vmVars, net, queue, job, clientVars>>

Accept(r) ==
    /\ main = "accepting" /\ r \notin conns /\ ~Outstanding(r)
    /\ conns' = conns \cup {r}
    /\ UNCHANGED <<main, arrived, permits, pc, vmVars, net, queue, job, status, path, streaming>>

(* handle_function and handle_work, called when the head of the request is *)
(* there, its body or not; the connection's task outlives the accept loop, *)
(* so requests keep coming after the signal.                               *)
Submit(r, c) ==
    /\ Alive /\ r \in conns /\ ~Outstanding(r)
    /\ queue' = [queue EXCEPT ![c] = Append(@, r)]
    /\ status' = [status EXCEPT ![r] = "waiting"]
    /\ path' = [path EXCEPT ![r] = c]
    /\ streaming' \in {streaming, streaming \cup {r}}
    /\ UNCHANGED <<main, arrived, permits, pc, vmVars, net, job, conns>>

SendBody(r) ==
    /\ Alive /\ r \in conns \cap streaming
    /\ streaming' = streaming \ {r}
    /\ UNCHANGED <<main, arrived, permits, pc, vmVars, net, queue, job, conns, status, path>>

(* The client hangs up: resp_rx is dropped, the Work stays where it is, and *)
(* the rest of its body never comes.                                        *)
Disconnect(r) ==
    /\ Alive /\ r \in conns
    /\ conns' = conns \ {r}
    /\ status' = [status EXCEPT ![r] = IF @ = "waiting" THEN "abandoned" ELSE "new"]
    /\ UNCHANGED <<main, arrived, permits, pc, vmVars, net, queue, job, path, streaming>>

(* SIGTERM, SIGINT or SIGQUIT, then token.cancel(). *)
Signal ==
    /\ main = "accepting"
    /\ main' = "stopping"
    /\ UNCHANGED <<arrived, permits, pc, vmVars, net, queue, job, clientVars>>

(* tracker.wait() returns; the runtime closes every connection. *)
Exit ==
    /\ main = "stopping" /\ \A w \in Workers : Finished(w)
    /\ main' = "exited"
    /\ conns' = {} /\ streaming' = {}
    /\ status' = [r \in Requests |-> IF status[r] = "waiting" THEN "reset" ELSE status[r]]
    /\ UNCHANGED <<arrived, permits, pc, vmVars, net, queue, job, path>>

(* The process is gone. *)
Terminated == ~Alive /\ UNCHANGED vars

WorkerStep(w) ==
    \/ AcquireForCreate(w) \/ SetupNetwork(w) \/ BootOk(w) \/ CreateFails(w)
    \/ GuestUp(w) \/ TestReady(w) \/ TakeSnapshot(w) \/ PassBarrier(w)
    \/ TakeWork(w) \/ StartCold(w) \/ StartColdFails(w)
    \/ LaunchVmm(w) \/ LoadSnapshot(w) \/ LoadFails(w)
    \/ ReadBody(w) \/ BodyFails(w) \/ Forward(w) \/ StopServer(w) \/ KillVm(w)
    \/ SeeCancelled(w) \/ AcquireForDestroy(w) \/ Destroy(w) \/ Panic(w)

ClientStep(r) == Accept(r) \/ Disconnect(r) \/ SendBody(r) \/ \E c \in Classes : Submit(r, c)

MainStep == Bind \/ BindFails \/ ServerReady \/ Signal \/ Exit

Next ==
    \/ MainStep
    \/ \E w \in Workers : Alive /\ WorkerStep(w)
    \/ \E r \in Requests : ClientStep(r)
    \/ Terminated

Spec == Init /\ [][Next]_vars

(* Nothing bounds these waits, in the code or around it: for the body of a *)
(* connected client, and for the answer of a guest that listens (the HTTP  *)
(* client has no timeout; a guest that does not listen refuses at once).   *)
Awaits(w) ==
    \/ pc[w] = "relay" /\ job[w] \in streaming \cap conns
    \/ pc[w] \in {"probe", "forward", "stop"} /\ guest[w] = "up"

(* What the scheduling justifies.  Every other await of a task is polled   *)
(* again, and sudo and Firecracker return: weak fairness.  A tokio         *)
(* semaphore is first-in first-out, and select! picks its branch at        *)
(* random: strong fairness of the acquisitions and of the cancelled        *)
(* branch.  Starting and snapshotting a VM do not fail for ever.  Nothing  *)
(* is assumed of clients, nor of the answers of a guest that listens.      *)
Proceed(w) ==
    /\ ~Awaits(w)
    /\ \/ SetupNetwork(w) \/ TestReady(w) \/ PassBarrier(w) \/ TakeWork(w)
       \/ StartCold(w) \/ StartColdFails(w) \/ LaunchVmm(w) \/ LoadSnapshot(w) \/ LoadFails(w)
       \/ ReadBody(w) \/ BodyFails(w) \/ Forward(w) \/ StopServer(w) \/ KillVm(w)
       \/ Destroy(w)

Fairness ==
    /\ WF_vars(Bind \/ BindFails \/ ServerReady \/ Exit)
    /\ \A w \in Workers :
         /\ WF_vars(Alive /\ Proceed(w))
         /\ SF_vars(Alive /\ (AcquireForCreate(w) \/ AcquireForDestroy(w)))
         /\ SF_vars(Alive /\ BootOk(w))
         /\ SF_vars(Alive /\ TakeSnapshot(w))
         /\ SF_vars(Alive /\ SeeCancelled(w))

FairSpec == Spec /\ Fairness
-------------------------------------------------------------------------------
(* Properties *)

(* Every variable stays in its range. *)
TypeOK ==
    /\ main \in {"binding", "barrier", "accepting", "stopping", "exited", "panicked"}
    /\ arrived \subseteq Parties
    /\ permits \in 0..Permits
    /\ pc \in [Workers -> Locations]
    /\ vm \in [Workers -> {"off", "running"}]
    /\ guest \in [Workers -> {"down", "up"}]
    /\ snap \in [Workers -> {"down", "up"}]
    /\ warned \subseteq Workers
    /\ orphans \subseteq Workers \X {"create", "serve"}
    /\ net \in [Workers -> BOOLEAN]
    /\ queue \in [Classes -> Seq(Requests)]
    /\ job \in [Workers -> Requests \cup {None}]
    /\ conns \subseteq Requests
    /\ status \in [Requests -> {"new", "waiting", "abandoned", "ok", "err", "reset"}]
    /\ path \in [Requests -> Classes]
    /\ streaming \subseteq Requests

(* Whatever order create, its errors, destroy and panics come in, a permit  *)
(* of PERMITS is held exactly by the workers inside the permit's scope.     *)
PermitsConserved == permits + Cardinality({w \in Workers : pc[w] \in Holding}) = Permits

(* The barrier counts hot + cold + 1 parties, so nobody serves and nobody   *)
(* is accepted before every worker has been created; a worker that panics   *)
(* before it arrives keeps the barrier closed for ever.                     *)
NothingBeforeBarrier ==
    (main \in {"accepting", "stopping", "exited"} \/ conns # {}
        \/ \E w \in Workers : pc[w] \in Serving \cup {"idle", "destroy", "destroying", "done"})
    => \A w \in Workers : pc[w] \notin Creating /\ w \in arrived

(* How often request r sits in a queue or with a worker. *)
Places(r) ==
    LET Slots(c) == {i \in 1..Len(queue[c]) : queue[c][i] = r}
    IN  Cardinality(Slots("hot")) + Cardinality(Slots("cold"))
          + Cardinality({w \in Workers : job[w] = r})

(* The Work of a request the client still waits for is in exactly one       *)
(* place, neither lost nor duplicated by failed starts, panics, hang-ups or *)
(* shutdown, and that place is of the request's class.                      *)
RequestInOnePlace ==
    Alive => \A r \in Requests :
        /\ Places(r) = IF Outstanding(r) THEN 1 ELSE 0
        /\ \A c \in Classes : \A i \in 1..Len(queue[c]) : queue[c][i] = r => path[r] = c
        /\ \A w \in Workers : job[w] = r => path[r] = ClassOf(w)

(* A hot worker keeps one VM from before the barrier until destroy; a cold  *)
(* one has none except while it makes its snapshot or serves a request, so  *)
(* each cold request gets a VM of its own; and serving loses no VMM: a      *)
(* start that fails on the way is stopped too, and only a worker that       *)
(* panicked after create has dropped the handle of one that runs.           *)
VmMatchesRole ==
    \A w \in Workers :
        /\ w \in Hot /\ pc[w] \in {"barrier", "idle", "relay", "forward", "destroy", "destroying"}
             => vm[w] = "running"
        /\ w \in Cold /\ pc[w] \notin {"probe", "snapshot", "load", "relay", "forward", "stop", "kill"}
             => vm[w] = "off"
        /\ <<w, "serve">> \in orphans => pc[w] = "panicked"

(* A worker relays a request to a VM that answered test_ready, or that came *)
(* back from a snapshot taken after it did, unless test_ready gave up on it *)
(* or the worker is a plain cold one, which does not probe.                 *)
RelayToReadyVm ==
    \A w \in Workers :
        pc[w] \in {"relay", "forward"} /\ (w \in Hot \/ UseSnapshots)
            => guest[w] = "up" \/ w \in warned

(* After a clean exit every worker that did not panic has given back what   *)
(* its last create, its requests and its destroy used: no VM, no tap, no    *)
(* permit.  (A VMM whose handle an earlier, failed create dropped is no     *)
(* longer known to anybody and may run on.)                                 *)
CleanShutdown ==
    main = "exited" =>
        /\ permits = Permits
        /\ \A w \in Workers \ Panicked : vm[w] = "off" /\ ~net[w]

(* The pool implements RequestService: queues, permits and VMs are hidden.  *)
phaseBar == CASE main \in {"binding", "barrier"} -> "starting"
              [] main = "accepting" -> "open"
              [] main = "stopping" -> "closing"
              [] OTHER -> "closed"
Service == INSTANCE RequestService WITH phase <- phaseBar
ImplementsService == Service!Spec

(* Start-up ends however creations fail and are retried: the server opens, *)
(* or bind fails, or a worker has panicked (which keeps the barrier closed  *)
(* if it happened before that worker arrived), or one waits for ever in     *)
(* test_ready for the answer of a guest that listens.                       *)
StartupCompletes ==
    \/ <>(main \notin {"binding", "barrier"} \/ Panicked # {})
    \/ \E w \in Workers : <>[]Awaits(w)

(* Why a request may be left undecided: the worker that has it waits for    *)
(* its client or for its guest, every worker of its class is dead or so     *)
(* waits (a queue without workers stays open), or the shutdown so waits.    *)
Starved(r) ==
    \/ \E w \in Workers : job[w] = r /\ Awaits(w)
    \/ \A w \in Workers : ClassOf(w) = path[r] => pc[w] = "panicked" \/ Awaits(w)
    \/ main = "stopping" /\ \E w \in Workers : Awaits(w)

(* No request waits for ever, whatever fails on the way: it is answered or  *)
(* reset, unless it ends up starved for good.                               *)
EveryRequestDecided ==
    \A r \in Requests : []<>(status[r] # "waiting") \/ <>[]Starved(r)

(* A signal leads to exit although clients keep the queues supplied, unless *)
(* one worker waits for ever for a client's body or a guest's answer.       *)
ShutdownCompletes ==
    []<>(main # "stopping") \/ \E w \in Workers : <>[]Awaits(w)
===============================================================================
