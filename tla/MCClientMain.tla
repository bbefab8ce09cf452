---------------------------- MODULE MCClientMain ----------------------------
(* Every experiment model, request type and kind of set-up once: three      *)
(* requests per measurement, up to five clients, rates in steps of 10 and 3 *)
(* for a server of at most 60 per second.                                   *)
EXTENDS ClientMain

Command(model, target, type, cold) ==
    [experiment_model |-> model, target |-> target, engine |-> "Kvm",
     request_type |-> type, pure_hot |-> cold = 0, cold_instances |-> cold,
     workload_path |-> TRUE, storage_ip |-> FALSE, stats |-> FALSE]

SomeCommands ==
    { [Command("ClosedPeak", "Firecracker", "Matmul", 1) EXCEPT !.stats = TRUE],
      Command("ClosedUnloaded", "Firecracker", "Matmul", 0),
      Command("OpenSweep", "Firecracker", "Matmul", 1),
      [Command("OpenSweep", "Dandelion", "Matmul", 2) EXCEPT !.workload_path = FALSE],
      [Command("OpenSweep", "Dandelion", "Matmul", 0) EXCEPT !.pure_hot = FALSE],
      Command("OpenAdaptive", "Firecracker", "Matmul", 0),
      [Command("OpenLoop", "Dandelion", "MiddlewareApp", 2) EXCEPT !.storage_ip = TRUE],
      [Command("OpenLoop", "Dandelion", "MiddlewareApp", 1) EXCEPT !.storage_ip = TRUE,
                                                                   !.engine = "RWasm"],
      [Command("OpenLoop", "Dandelion", "PythonApp", 1) EXCEPT !.storage_ip = TRUE],
      Command("OpenAdaptive", "Dandelion", "Matmul", 2) }

TwoMedians == {1, 20}
===============================================================================
