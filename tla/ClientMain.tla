------------------------------ MODULE ClientMain ------------------------------
(***************************************************************************)
(* The client from its command line to its exit (tokio_main in             *)
(* client/src/main.rs): it waits for the server and the storage, registers *)
(* functions and compositions with a Dandelion server                      *)
(* (client/src/registration.rs), takes the adaptive model's pretest, and   *)
(* runs the experiment that was asked for, composed of ClosedLoop and      *)
(* RateSearch.                                                             *)
(***************************************************************************)
EXTENDS ClosedLoop, RateSearch, SequencesExt

CONSTANT MaxRefused  \* bound: registrations the server refuses

VARIABLES
    stage,    \* where tokio_main is
    posted,   \* how many of Registrations were sent
    refused   \* those that were answered with an error status

setupVars == <<stage, posted, refused>>
vars == <<args, setupVars, loopVars, searchVars>>

ASSUME ClientMainAssumption == MaxRefused \in Nat

Stages == {"service", "storage", "register", "pretest", "experiment",
           "ok", "err", "panicked"}

-------------------------------------------------------------------------------
(* registration.rs.  A name is a base name and a copy: the hot one or the   *)
(* number of a cold one.                                                    *)

Hot == -1
Name(kind, base, copy) == [kind |-> kind, base |-> base, copy |-> copy]

(* format_name over all copies, hot first; the mutant counts from one.      *)
CopiesFromOne(kind, base) ==
    <<Name(kind, base, Hot)>> \o [i \in 1..args.cold_instances |-> Name(kind, base, i)]
Copies(kind, base) ==
    <<Name(kind, base, Hot)>> \o [i \in 1..args.cold_instances |-> Name(kind, base, i - 1)]

(* The functions of an application, in the order they are registered.       *)
Functions ==
    IF args.request_type = "Matmul" THEN <<"Matmul">> ELSE <<"handle", "fan_out", "render">>

FunctionNames ==
    FlattenSeq([i \in 1..Len(Functions) |-> Copies("function", Functions[i])])

Registers == args.target = "Dandelion" /\ args.workload_path

(* Functions before the compositions that name them.                        *)
Registrations ==
    IF Registers THEN FunctionNames \o Copies("composition", args.request_type) ELSE <<>>

(* create_compositon: copy c of the composition calls copy c of each.       *)
Calls(composition) ==
    {Name("function", base, composition.copy) : base \in Range(Functions)}

(* What FunctionId::get_name can give the experiment (for a pure hot one up *)
(* to the exception that PureHotNeverCold of RequestMix shows).             *)
Drawable ==
    {Name("composition", args.request_type, c) :
        c \in {Hot} \cup (IF args.pure_hot THEN {} ELSE 0..(args.cold_instances - 1))}

(* The engines register_composition knows binaries for, and what            *)
(* input_sets expects: it panics without, before anything is posted.        *)
Supported ==
    /\ args.request_type = "MiddlewareApp" => args.engine \in {"Process", "Kvm"}
    /\ args.request_type # "Matmul" => args.storage_ip

-------------------------------------------------------------------------------
(* tokio_main *)

(* Cold requests need a cold copy; otherwise the client panics first.       *)
Enough == args.cold_instances > 0 \/ args.pure_hot

Init ==
    /\ args \in Commands
    /\ stage = IF Enough THEN "service" ELSE "panicked"
    /\ posted = 0
    /\ refused = {}
    /\ LoopInit
    /\ SearchInit

Panic(s) ==
    /\ stage = s
    /\ stage' = "panicked"
    /\ UNCHANGED <<args, posted, refused, loopVars, searchVars>>

(* check_service_ready polls until a status of success or the timeout.      *)
ServiceReady ==
    /\ stage = "service"
    /\ stage' = IF args.storage_ip THEN "storage" ELSE "register"
    /\ UNCHANGED <<args, posted, refused, loopVars, searchVars>>

StorageReady ==
    /\ stage = "storage"
    /\ stage' = "register"
    /\ UNCHANGED <<args, posted, refused, loopVars, searchVars>>

NotReady == \E s \in {"service", "storage"} : Panic(s)

(* One POST; an error status is only logged, an error of the transport is   *)
(* unwrapped.                                                               *)
Register(ok) ==
    /\ stage = "register" /\ posted < Len(Registrations) /\ Supported
    /\ ok \/ Cardinality(refused) < MaxRefused
    /\ posted' = posted + 1
    /\ refused' = IF ok THEN refused ELSE refused \cup {posted + 1}
    /\ UNCHANGED <<args, stage, loopVars, searchVars>>

(* A lost connection, or a command line that cannot be served.              *)
RegisterPanics ==
    /\ posted < Len(Registrations)
    /\ MayFail \/ ~Supported
    /\ Panic("register")

Registered == posted = Len(Registrations)

Begin ==
    CASE args.experiment_model = "OpenSweep" ->
           BeginSweep /\ UNCHANGED loopVars
      [] args.experiment_model = "OpenAdaptive" ->
           BeginAdaptive /\ UNCHANGED loopVars
      [] args.experiment_model = "OpenLoop" ->
           UNCHANGED <<loopVars, searchVars>>
      [] OTHER ->
           /\ StartMeasurement(1)
           /\ UNCHANGED <<last_throughput, repetition, files, searchVars>>

SetUpDone ==
    /\ stage = "register" /\ Registered
    /\ IF args.experiment_model = "OpenAdaptive"
         THEN /\ stage' = "pretest"
              /\ StartMeasurement(1)
              /\ UNCHANGED <<last_throughput, repetition, files, searchVars>>
         ELSE stage' = "experiment" /\ Begin
    /\ UNCHANGED <<args, posted, refused>>

(* The pretest is one measurement with one client; its worst latency is the *)
(* experiment's timeout.                                                    *)
Pretest ==
    /\ stage = "pretest"
    /\ MeasurementStep
    /\ UNCHANGED <<args, setupVars, searchVars>>

PretestDone ==
    /\ stage = "pretest" /\ loop = "measured"
    /\ stage' = "experiment"
    /\ Begin
    /\ UNCHANGED <<args, posted, refused>>

PretestFails == loop = "err" /\ Panic("pretest")

ClosedLoopStep ==
    /\ stage = "experiment" /\ args.experiment_model \in {"ClosedPeak", "ClosedUnloaded"}
    /\ ~LoopReturned /\ PeakStep
    /\ UNCHANGED <<args, setupVars, searchVars>>

(* Client tasks run as long as the process.                                 *)
ClientTask(c) ==
    /\ stage \in {"pretest", "experiment"} /\ ~LoopReturned
    /\ ClientStep(c)
    /\ UNCHANGED <<args, setupVars, searchVars>>

RateSearchStep ==
    /\ stage = "experiment"
    /\ SearchStep
    /\ UNCHANGED <<args, setupVars, loopVars>>

(* What the experiment returned is what main returns; a panic of a run is   *)
(* one of main, which awaits the run in its own task.                       *)
Return(result) ==
    /\ stage = "experiment"
    /\ CASE args.experiment_model = "OpenLoop" -> result \in {"ok", "err", "panicked"}
         [] args.experiment_model \in {"OpenSweep", "OpenAdaptive"} -> result = phase
         [] OTHER -> result = loop
    /\ stage' = result
    /\ UNCHANGED <<args, posted, refused, loopVars, searchVars>>

Ended == stage \in {"ok", "err", "panicked"}
Exited == Ended /\ UNCHANGED vars

SetUp ==
    \/ ServiceReady \/ StorageReady \/ NotReady
    \/ \E ok \in BOOLEAN : Register(ok)
    \/ RegisterPanics \/ SetUpDone

Main ==
    \/ SetUp
    \/ Pretest \/ PretestDone \/ PretestFails
    \/ ClosedLoopStep \/ RateSearchStep
    \/ \E result \in {"ok", "err", "panicked"} : Return(result)

Next == Main \/ (\E c \in Clients : ClientTask(c)) \/ Exited

Spec == Init /\ [][Next]_vars

(* main is polled again, also by the timeouts of check_service_ready and of *)
(* the requests; the runtime runs every client task; a rate's run returns   *)
(* (RunReturns of OpenLoop).                                                *)
FairSpec == Spec /\ WF_vars(Main) /\ \A c \in Clients : WF_vars(ClientTask(c))

-------------------------------------------------------------------------------
(* Every variable stays in its range.                                       *)
TypeOK ==
    /\ args \in Commands
    /\ stage \in Stages
    /\ posted \in 0..Len(Registrations)
    /\ refused \subseteq 1..posted
    /\ LoopTypeOK
    /\ SearchTypeOK

(* A composition is posted after every function its text calls, and when    *)
(* the experiment starts every name that it may draw has been posted, so    *)
(* only what the server refused (and the client logged) can be missing.     *)
RegisteredBeforeUse ==
    LET Sent == [i \in 1..posted |-> Registrations[i]]
    IN  /\ \A i \in 1..posted : Sent[i].kind = "composition" =>
             \A f \in Calls(Sent[i]) : \E j \in 1..(i - 1) : Sent[j] = f
        /\ stage = "experiment" /\ Registers => Drawable \subseteq Range(Sent)
        /\ stage = "experiment" /\ ~args.pure_hot => args.cold_instances > 0

(* Whatever the server does, the client exits: it does not wait for ever    *)
(* for a service, a record or a better throughput, nor double, bisect or    *)
(* repeat for ever.                                                         *)
ExperimentEnds == <>Ended
===============================================================================
