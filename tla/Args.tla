--------------------------------- MODULE Args ---------------------------------
(* The command line of the client (Args in client/src/main.rs), as far as   *)
(* it decides what the client does.  Numbers that several runs share are    *)
(* constants of the modules that use them.                                  *)
EXTENDS Integers

CONSTANT Commands  \* the command lines considered

VARIABLE args

ExperimentModels == {"OpenLoop", "OpenSweep", "OpenAdaptive", "ClosedUnloaded", "ClosedPeak"}
TargetTypes == {"Dandelion", "Firecracker"}   \* Firecracker: any target without registration
EngineTypes == {"Process", "RWasm", "Cheri", "Kvm"}
RequestTypes == {"Matmul", "MiddlewareApp", "PythonApp"}  \* Matmul: any type of one function

AllArgs ==
    [experiment_model : ExperimentModels,
     target           : TargetTypes,
     engine           : EngineTypes,   \* of a Dandelion target
     request_type     : RequestTypes,
     pure_hot         : BOOLEAN,       \* hot_percent >= 1.0
     cold_instances   : Nat,
     workload_path    : BOOLEAN,       \* given
     storage_ip       : BOOLEAN,       \* given
     stats            : BOOLEAN]       \* record_stats()

ASSUME ArgsAssumption == Commands \subseteq AllArgs
===============================================================================
