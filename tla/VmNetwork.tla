------------------------------- MODULE VmNetwork -------------------------------
(***************************************************************************)
(* The host's network as the frontend leaves it: tap devices and iptables  *)
(* rules, changed one sudo command at a time                               *)
(* (servers/firecracker/frontend/src/network.rs) by main and by the        *)
(* workers in parallel.  The host outlives the frontend, so what a killed  *)
(* process left behind is what the next one finds; the next one may have   *)
(* another pool size and another network device.  Ids may be some of the    *)
(* pool's ids only: every worker runs the same scripts on its own device.  *)
(***************************************************************************)
EXTENDS Integers, Sequences, VmAddresses

CONSTANTS Ids,      \* worker ids, of 0 .. n - 1
          Nics,     \* devices Args::nic_ip may select
          MaxRuns   \* bound: how often the frontend is started

ASSUME NetworkAssumption == MaxRuns \in Nat

VARIABLES
    taps,     \* ids whose tap device exists
    addrs,    \* ids whose tap has its address
    links,    \* ids whose tap is up
    accept,   \* FORWARD rules per worker id and device
    nat,      \* POSTROUTING MASQUERADE rules per device
    track,    \* FORWARD rules for established connections
    forward,  \* net.ipv4.ip_forward
    phase,    \* of the frontend process
    pool,     \* ids of its workers
    nic,      \* its network device
    worker,   \* state of each worker
    todo,     \* commands a worker's current script has left
    script,   \* commands main's current script has left
    runs      \* runs started

host == <<taps, addrs, links, accept, nat, track, forward>>
vars == <<host, phase, pool, nic, worker, todo, script, runs>>

Phases == {"down", "setup", "creating", "serving", "stopping", "teardown", "exited"}
WorkerStates == {"absent", "creating", "up", "destroying", "gone", "panicked"}

-------------------------------------------------------------------------------
(* The scripts.  A setup first runs the teardown, whose commands may fail.  *)
(* The mutants leave a command out, or run the teardown last.               *)
LinkDownOnly == <<"link del">>
TeardownVm == <<"link del", "accept del">>
SetupVmOnly == <<"tap add", "addr add", "link up", "accept add">>
SetupVm == TeardownVm \o <<"tap add", "addr add", "link up", "accept add">>

TeardownServer == <<"forward off", "nat del", "track del">>
SetupServerOnly == <<"forward on", "nat add", "track add">>
SetupServerFirst == <<"forward on", "nat add", "track add">> \o TeardownServer
SetupServer == TeardownServer \o <<"forward on", "nat add", "track add">>

(* --delete removes one matching rule, or fails and changes nothing; its    *)
(* mutant assumes that there is one.                                        *)
DeleteBlindly(n) == n - 1
DeleteOne(n) == IF n = 0 THEN 0 ELSE n - 1

RunVmCommand(c, i) ==
    /\ taps' = CASE c = "link del" -> taps \ {i}
                 [] c = "tap add"  -> taps \cup {i}
                 [] OTHER          -> taps
    /\ addrs' = CASE c = "link del" -> addrs \ {i}
                  [] c = "addr add" -> addrs \cup {i}
                  [] OTHER          -> addrs
    /\ links' = CASE c = "link del" -> links \ {i}
                  [] c = "link up"  -> links \cup {i}
                  [] OTHER          -> links
    /\ accept' = CASE c = "accept del" -> [accept EXCEPT ![i][nic] = DeleteOne(@)]
                   [] c = "accept add" -> [accept EXCEPT ![i][nic] = @ + 1]
                   [] OTHER            -> accept
    /\ UNCHANGED <<nat, track, forward>>

RunServerCommand(c) ==
    /\ forward' = CASE c = "forward on"  -> TRUE
                    [] c = "forward off" -> FALSE
                    [] OTHER             -> forward
    /\ nat' = CASE c = "nat del" -> [nat EXCEPT ![nic] = DeleteOne(@)]
                [] c = "nat add" -> [nat EXCEPT ![nic] = @ + 1]
                [] OTHER         -> nat
    /\ track' = CASE c = "track del" -> DeleteOne(track)
                  [] c = "track add" -> track + 1
                  [] OTHER           -> track
    /\ UNCHANGED <<taps, addrs, links, accept>>

-------------------------------------------------------------------------------
Init ==
    /\ taps = {} /\ addrs = {} /\ links = {}
    /\ accept = [i \in Ids |-> [n \in Nics |-> 0]]
    /\ nat = [n \in Nics |-> 0]
    /\ track = 0
    /\ forward = FALSE
    /\ phase = "down"
    /\ pool = {}
    /\ nic \in Nics
    /\ worker = [i \in Ids |-> "absent"]
    /\ todo = [i \in Ids |-> <<>>]
    /\ script = <<>>
    /\ runs = 0

(* main up to setup_server_network: ids count from zero. *)
Start(n) ==
    /\ phase \in {"down", "exited"} /\ runs < MaxRuns
    /\ phase' = "setup"
    /\ pool' = {i \in Ids : i < n}
    /\ nic' \in Nics
    /\ worker' = [i \in Ids |-> "absent"]
    /\ script' = SetupServer
    /\ runs' = runs + 1
    /\ UNCHANGED <<host, todo>>

ServerCommand ==
    /\ script # <<>>
    /\ RunServerCommand(Head(script))
    /\ script' = Tail(script)
    /\ UNCHANGED <<phase, pool, nic, worker, todo, runs>>

(* setup_server_network returned: the worker tasks start. *)
Spawn ==
    /\ phase = "setup" /\ script = <<>>
    /\ phase' = "creating"
    /\ worker' = [i \in Ids |-> IF i \in pool THEN "creating" ELSE "absent"]
    /\ todo' = [i \in Ids |-> IF i \in pool THEN SetupVm ELSE <<>>]
    /\ UNCHANGED <<host, pool, nic, script, runs>>

(* sudo panics if the command fails: `ip tuntap add` does if the device is  *)
(* there, `ip addr add` if the address is, and the latter and `ip link set` *)
(* if the device is not; the teardown's commands go through sudo_unchecked. *)
Fails(i) ==
    \/ Head(todo[i]) = "tap add" /\ i \in taps
    \/ Head(todo[i]) = "addr add" /\ (i \notin taps \/ i \in addrs)
    \/ Head(todo[i]) = "link up" /\ i \notin taps

VmCommand(i) ==
    /\ todo[i] # <<>> /\ ~Fails(i)
    /\ RunVmCommand(Head(todo[i]), i)
    /\ todo' = [todo EXCEPT ![i] = Tail(@)]
    /\ worker' = [worker EXCEPT ![i] =
                    IF Len(todo[i]) > 1 THEN @ ELSE
                    IF @ = "creating" THEN "up" ELSE "gone"]
    /\ UNCHANGED <<phase, pool, nic, script, runs>>

(* The worker's task ends where it stands: a failed command, or any other   *)
(* unwrap of create and serve.                                              *)
Panic(i) ==
    /\ worker[i] \in {"creating", "up", "destroying"}
    /\ worker' = [worker EXCEPT ![i] = "panicked"]
    /\ todo' = [todo EXCEPT ![i] = <<>>]
    /\ UNCHANGED <<host, phase, pool, nic, script, runs>>

(* create failed after the network was set up, and is called again. *)
Retry(i) ==
    /\ phase = "creating" /\ worker[i] = "up"
    /\ worker' = [worker EXCEPT ![i] = "creating"]
    /\ todo' = [todo EXCEPT ![i] = SetupVm]
    /\ UNCHANGED <<host, phase, pool, nic, script, runs>>

ServerReady ==
    /\ phase = "creating" /\ \A i \in pool : worker[i] = "up"
    /\ phase' = "serving"
    /\ UNCHANGED <<host, pool, nic, worker, todo, script, runs>>

Cancel ==
    /\ phase = "serving"
    /\ phase' = "stopping"
    /\ worker' = [i \in Ids |-> IF worker[i] = "up" THEN "destroying" ELSE worker[i]]
    /\ todo' = [i \in Ids |-> IF worker[i] = "up" THEN TeardownVm ELSE <<>>]
    /\ UNCHANGED <<host, pool, nic, script, runs>>

(* tracker.wait() counts a panicked task as finished. *)
WorkersDone ==
    /\ phase = "stopping" /\ \A i \in pool : worker[i] \in {"gone", "panicked"}
    /\ phase' = "teardown"
    /\ script' = TeardownServer
    /\ UNCHANGED <<host, pool, nic, worker, todo, runs>>

Exit ==
    /\ phase = "teardown" /\ script = <<>>
    /\ phase' = "exited"
    /\ UNCHANGED <<host, pool, nic, worker, todo, script, runs>>

(* SIGKILL, or a panic of main: the process is gone, the host stays as is.  *)
(* A command that was under way has ended, or never begun, when the next    *)
(* run starts: nobody starts the frontend again that fast.                  *)
Crash ==
    /\ phase \notin {"down", "exited"}
    /\ phase' = "down"
    /\ worker' = [i \in Ids |-> "absent"]
    /\ todo' = [i \in Ids |-> <<>>]
    /\ script' = <<>>
    /\ UNCHANGED <<host, pool, nic, runs>>

MaxId == CHOOSE m \in Ids : \A i \in Ids : i <= m

Next ==
    \/ \E n \in 0..(MaxId + 1) : Start(n)
    \/ ServerCommand \/ Spawn \/ ServerReady \/ Cancel \/ WorkersDone \/ Exit \/ Crash
    \/ \E i \in Ids : VmCommand(i) \/ Panic(i) \/ Retry(i)

Spec == Init /\ [][Next]_vars

-------------------------------------------------------------------------------
(* Every variable stays in its range, and rules do not pile up.             *)
TypeOK ==
    /\ taps \subseteq Ids /\ addrs \subseteq Ids /\ links \subseteq Ids
    /\ accept \in [Ids -> [Nics -> Nat]]
    /\ nat \in [Nics -> Nat]
    /\ track \in Nat
    /\ forward \in BOOLEAN
    /\ phase \in Phases
    /\ pool \subseteq Ids
    /\ nic \in Nics
    /\ worker \in [Ids -> WorkerStates]
    /\ \A i \in Ids : Len(todo[i]) <= Len(SetupVm)
    /\ Len(script) <= Len(SetupServer)
    /\ runs \in 0..MaxRuns

(* However often the frontend is killed and started again, and create       *)
(* retried, a rule exists at most once: each setup deletes one first, so    *)
(* the one --delete of a teardown is enough to remove it.                   *)
RulesNeverPileUp ==
    /\ \A i \in Ids, n \in Nics : accept[i][n] <= 1
    /\ \A n \in Nics : nat[n] <= 1
    /\ track <= 1

(* No worker meets a tap or an address that is there, whoever left it, nor  *)
(* misses one: no checked command fails, and no worker panics, for what an  *)
(* earlier run, a retry or a panic left on the host.                        *)
SetupSucceeds == \A i \in Ids : todo[i] # <<>> => ~Fails(i)

(* While the server serves, the traffic of every worker that is up is       *)
(* forwarded: its tap is there, addressed and up, and its rule and the      *)
(* server's rules are in place, whatever teardowns of earlier runs and of   *)
(* retries went before.                                                     *)
ServedTrafficFlows ==
    \A i \in Ids : phase = "serving" /\ worker[i] = "up" =>
        /\ i \in taps \cap addrs \cap links /\ accept[i][nic] = 1
        /\ forward /\ nat[nic] = 1 /\ track = 1

(* Whichever taps exist, of this run or left by another: a guest behind one *)
(* finds its own id and its own host from its address (register_ready), and *)
(* shares neither tap, guest nor MAC address with another.                  *)
GuestsFindTheirHost ==
    \A i \in taps :
        /\ RegisteredId(get_vm_ip(i)) = i
        /\ RegisterHost(get_vm_ip(i)) = get_tap_ip(i)
        /\ \A j \in taps \ {i} :
             /\ {get_vm_ip(i), get_tap_ip(i)} \cap {get_vm_ip(j), get_tap_ip(j)} = {}
             /\ get_tap_mac(i) # get_tap_mac(j)

(* After a clean exit the run left nothing: for its device no server rule,  *)
(* no tap and no rule of a worker that did not panic.  What is left is of   *)
(* killed runs: workers with larger ids, or another device.                 *)
CleanExitLeavesNothing ==
    phase = "exited" =>
        /\ ~forward /\ nat[nic] = 0 /\ track = 0
        /\ \A i \in pool : worker[i] = "gone" => i \notin taps /\ accept[i][nic] = 0
===============================================================================
