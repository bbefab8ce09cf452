------------------------- MODULE FirecrackerPoolProofs -------------------------
(***************************************************************************)
(* Theorems about FirecrackerPool, for every number of workers, clients,   *)
(* permits and panics.                                                     *)
(***************************************************************************)
EXTENDS FirecrackerPool, FiniteSetTheorems, TLAPS

-------------------------------------------------------------------------------
(* Types.  The upper bound of permits follows from their conservation, below.   *)
LooseTypes ==
    /\ main \in {"binding", "barrier", "accepting", "stopping", "exited", "panicked"}
    /\ arrived \subseteq Parties
    /\ permits \in Nat
    /\ pc \in [Workers -> Locations]
    /\ vm \in [Workers -> {"off", "running"}]
    /\ guest \in [Workers -> {"down", "up"}]
    /\ snap \in [Workers -> {"down", "up"}]
    /\ warned \subseteq Workers
    /\ orphans \subseteq Workers \X {"create", "serve"}
    /\ net \in [Workers -> BOOLEAN]
    /\ queue \in [Classes -> Seq(Requests)]
    /\ job \in [Workers -> Requests \cup {None}]
    /\ conns \subseteq Requests
    /\ status \in [Requests -> {"new", "waiting", "abandoned", "ok", "err", "reset"}]
    /\ path \in [Requests -> Classes]
    /\ streaming \subseteq Requests

LEMMA LooseTypesInit == Init => LooseTypes
  BY PoolAssumption DEF Init, LooseTypes, Locations, Creating, Classes

LEMMA LooseTypesStep == LooseTypes /\ [Next]_vars => LooseTypes'
  <1> SUFFICES ASSUME LooseTypes, [Next]_vars PROVE LooseTypes'
    OBVIOUS
  <1> USE PoolAssumption DEF LooseTypes
  <1>1. ASSUME UNCHANGED vars PROVE LooseTypes'
    BY <1>1 DEF vars, vmVars, clientVars
  <1>2. ASSUME MainStep PROVE LooseTypes'
    BY <1>2 DEF MainStep, Bind, BindFails, ServerReady, Signal, Exit, Parties, vars, vmVars, clientVars
  <1>3. ASSUME NEW r \in Requests, ClientStep(r) PROVE LooseTypes'
    <2>1. CASE Accept(r)
      BY <2>1 DEF Accept, vmVars
    <2>2. CASE Disconnect(r)
      BY <2>2 DEF Disconnect, vmVars
    <2>3. CASE SendBody(r)
      BY <2>3 DEF SendBody, vmVars
    <2>4. ASSUME NEW c \in Classes, Submit(r, c) PROVE LooseTypes'
      BY <2>4 DEF Submit, vmVars
    <2> QED
      BY <1>3, <2>1, <2>2, <2>3, <2>4 DEF ClientStep
  <1>4. ASSUME NEW w \in Workers, WorkerStep(w) PROVE LooseTypes'
    <2>a. w \in Parties /\ ClassOf(w) \in Classes
      BY DEF Parties, ClassOf, Classes
    <2> USE DEF vmVars, clientVars, Goto, Locations, Creating, Serving
    <2>b. ASSUME ArriveFrom(w)
          PROVE  permits' \in Nat /\ arrived' \subseteq Parties /\ pc' \in [Workers -> Locations]
      BY <2>b, <2>a DEF ArriveFrom, Release
    <2>c. ASSUME NEW l \in Locations, Goto(w, l), UNCHANGED <<arrived, permits>>
          PROVE  permits' \in Nat /\ arrived' \subseteq Parties /\ pc' \in [Workers -> Locations]
      BY <2>c
    <2>d. ASSUME NEW left \in {"off", "running"}, DropVmm(w, left)
          PROVE  /\ orphans' \subseteq Workers \X {"create", "serve"}
                 /\ vm' \in [Workers -> {"off", "running"}] /\ guest' \in [Workers -> {"down", "up"}]
      BY <2>d DEF DropVmm, VmOff
    <2>e. ASSUME NEW r \in Requests \cup {None}, NEW outcome \in {"ok", "err"}, Answered(r, outcome)
          PROVE  /\ status' \in [Requests -> {"new", "waiting", "abandoned", "ok", "err", "reset"}]
                 /\ streaming' \subseteq Requests
      <3>1. status' = [status EXCEPT ![r] = IF @ = "waiting" THEN outcome ELSE "new"]
        BY <2>e DEF Answered
      <3>2. status' \in [Requests -> {"new", "waiting", "abandoned", "ok", "err", "reset"}]
        BY <3>1
      <3> QED
        BY <2>e, <3>2 DEF Answered
    <2>f. ASSUME DropWork(w)
          PROVE  /\ job' \in [Workers -> Requests \cup {None}]
                 /\ status' \in [Requests -> {"new", "waiting", "abandoned", "ok", "err", "reset"}]
                 /\ streaming' \subseteq Requests
      <3>1. job[w] \in Requests \cup {None}
        OBVIOUS
      <3>2. UNCHANGED <<status, streaming>> \/ Answered(job[w], "err")
        BY <2>f DEF DropWork
      <3>3. job' \in [Workers -> Requests \cup {None}]
        BY <2>f DEF DropWork
      <3> QED
        BY <3>1, <3>2, <3>3, <2>e
    <2>g. ASSUME NEW left \in {"off", "running"}, StopAfterFailure(w, left)
          PROVE  /\ pc' \in [Workers -> Locations] /\ vm' \in [Workers -> {"off", "running"}]
                 /\ UNCHANGED <<guest, orphans, job, status, streaming>>
      BY <2>g DEF StopAfterFailure
    <2>h. ASSUME NEW outcome \in {"ok", "err"}, Relayed(w, outcome) PROVE LooseTypes'
      <3>1. job[w] \in Requests \cup {None}
        OBVIOUS
      <3>2. /\ status' \in [Requests -> {"new", "waiting", "abandoned", "ok", "err", "reset"}]
            /\ streaming' \subseteq Requests
        BY <2>h, <2>e, <3>1 DEF Relayed
      <3>3. job' \in [Workers -> Requests \cup {None}] /\ pc' \in [Workers -> Locations]
        BY <2>h DEF Relayed
      <3> QED
        BY <2>h, <3>2, <3>3 DEF Relayed
    <2>1. CASE AcquireForCreate(w)
      BY <2>1 DEF AcquireForCreate, Acquire
    <2>18. CASE AcquireForDestroy(w)
      BY <2>18 DEF AcquireForDestroy, Acquire
    <2>2. CASE SetupNetwork(w)
      <3>1. permits' \in Nat /\ arrived' \subseteq Parties /\ pc' \in [Workers -> Locations]
        BY <2>2, <2>b, <2>c DEF SetupNetwork
      <3> QED
        BY <2>2, <3>1 DEF SetupNetwork
    <2>3. CASE BootOk(w) \/ GuestUp(w)
      BY <2>3 DEF BootOk, GuestUp
    <2>4. CASE CreateFails(w)
      <3>1. PICK left \in {"off", "running"} : DropVmm(w, left)
        BY <2>4 DEF CreateFails, FailedStart
      <3>2. permits' \in Nat /\ pc' \in [Workers -> Locations]
        BY <2>4 DEF CreateFails, Release
      <3> QED
        BY <2>4, <2>d, <3>1, <3>2 DEF CreateFails
    <2>5. CASE TestReady(w)
      <3>1. warned' \subseteq Workers
        BY <2>5 DEF TestReady, Probed
      <3>2. permits' \in Nat /\ arrived' \subseteq Parties /\ pc' \in [Workers -> Locations]
        BY <2>5, <2>b, <2>c DEF TestReady
      <3> QED
        BY <2>5, <3>1, <3>2 DEF TestReady
    <2>6. CASE TakeSnapshot(w)
      BY <2>6, <2>a DEF TakeSnapshot, ArriveFrom, Release, VmOff
    <2>7. CASE PassBarrier(w) \/ SeeCancelled(w) \/ ReadBody(w)
      BY <2>7 DEF PassBarrier, SeeCancelled, ReadBody
    <2>8. CASE TakeWork(w)
      BY <2>8, <2>a DEF TakeWork
    <2>9. CASE StartCold(w) \/ LaunchVmm(w)
      BY <2>9 DEF StartCold, LaunchVmm
    <2>10. CASE LoadSnapshot(w)
      BY <2>10 DEF LoadSnapshot
    <2>11. CASE StartColdFails(w)
      <3>1. PICK left \in {"off", "running"} : StopAfterFailure(w, left)
        BY <2>11 DEF StartColdFails, FailedStart
      <3> QED
        BY <2>11, <2>g, <3>1 DEF StartColdFails
    <2>12. CASE LoadFails(w)
      BY <2>12, <2>g DEF LoadFails
    <2>13. CASE BodyFails(w) \/ Forward(w)
      BY <2>13, <2>h DEF BodyFails, Forward
    <2>14. CASE StopServer(w)
      BY <2>14 DEF StopServer
    <2>15. CASE KillVm(w)
      <3>1. /\ vm' \in [Workers -> {"off", "running"}] /\ guest' \in [Workers -> {"down", "up"}]
            /\ pc' \in [Workers -> Locations]
        BY <2>15 DEF KillVm, VmOff
      <3> QED
        BY <2>15, <2>f, <3>1 DEF KillVm
    <2>16. CASE Destroy(w)
      <3>1. vm' \in [Workers -> {"off", "running"}] /\ guest' \in [Workers -> {"down", "up"}]
        BY <2>16 DEF Destroy, VmOff
      <3>2. permits' \in Nat /\ pc' \in [Workers -> Locations] /\ net' \in [Workers -> BOOLEAN]
        BY <2>16 DEF Destroy, Release
      <3> QED
        BY <2>16, <3>1, <3>2 DEF Destroy
    <2>17. CASE Panic(w)
      <3>a. vm[w] \in {"off", "running"}
        OBVIOUS
      <3>1. PICK left \in {"off", "running"} : DropVmm(w, left)
        BY <2>17, <3>a DEF Panic, FailedStart
      <3>2. permits' \in Nat /\ pc' \in [Workers -> Locations]
        BY <2>17 DEF Panic, Release
      <3> QED
        BY <2>17, <2>d, <2>f, <3>1, <3>2 DEF Panic
    <2> QED
      BY <1>4, <2>1, <2>2, <2>3, <2>4, <2>5, <2>6, <2>7, <2>8, <2>9, <2>10, <2>11, <2>12,
         <2>13, <2>14, <2>15, <2>16, <2>17, <2>18 DEF WorkerStep
  <1> QED
    BY <1>1, <1>2, <1>3, <1>4 DEF Next, Terminated

-------------------------------------------------------------------------------
(* Permits. *)
Holders == {w \in Workers : pc[w] \in Holding}

LEMMA WorkersFinite == IsFiniteSet(Workers)
  BY PoolAssumption, FS_Union DEF Workers

(* A worker that moves changes the number of holders by what its two       *)
(* locations say, and nobody else's permit.                                *)
LEMMA HoldersMove ==
  ASSUME LooseTypes, NEW w \in Workers, NEW l \in Locations, Goto(w, l)
  PROVE  /\ pc[w] \notin Holding /\ l \in Holding => Cardinality(Holders') = Cardinality(Holders) + 1
         /\ pc[w] \in Holding /\ l \notin Holding => Cardinality(Holders') = Cardinality(Holders) - 1
         /\ (pc[w] \in Holding <=> l \in Holding) => Cardinality(Holders') = Cardinality(Holders)
  <1>1. IsFiniteSet(Holders)
    BY WorkersFinite, FS_Subset DEF Holders
  <1>2. pc' = [pc EXCEPT ![w] = l] /\ pc \in [Workers -> Locations]
    BY DEF Goto, LooseTypes
  <1>3. ASSUME pc[w] \notin Holding, l \in Holding
        PROVE  Cardinality(Holders') = Cardinality(Holders) + 1
    <2>1. Holders' = Holders \cup {w} /\ w \notin Holders
      BY <1>2, <1>3 DEF Holders
    <2> QED
      BY <1>1, <2>1, FS_AddElement
  <1>4. ASSUME pc[w] \in Holding, l \notin Holding
        PROVE  Cardinality(Holders') = Cardinality(Holders) - 1
    <2>1. Holders' = Holders \ {w} /\ w \in Holders
      BY <1>2, <1>4 DEF Holders
    <2> QED
      BY <1>1, <2>1, FS_RemoveElement
  <1>5. ASSUME pc[w] \in Holding <=> l \in Holding
        PROVE  Cardinality(Holders') = Cardinality(Holders)
    <2>1. Holders' = Holders
      BY <1>2, <1>5 DEF Holders
    <2> QED
      BY <2>1
  <1> QED
    BY <1>3, <1>4, <1>5

LEMMA PermitsInit == Init => PermitsConserved
  <1> SUFFICES ASSUME Init PROVE PermitsConserved
    OBVIOUS
  <1>1. {w \in Workers : pc[w] \in Holding} = {}
    BY DEF Init, Holding
  <1>2. Cardinality({w \in Workers : pc[w] \in Holding}) = 0
    BY <1>1, FS_EmptySet
  <1>3. permits = Permits /\ Permits \in Nat
    BY PoolAssumption DEF Init
  <1> QED
    BY <1>2, <1>3 DEF PermitsConserved

LEMMA PermitsStep == LooseTypes /\ PermitsConserved /\ [Next]_vars => PermitsConserved'
  <1> SUFFICES ASSUME LooseTypes, PermitsConserved, [Next]_vars PROVE PermitsConserved'
    OBVIOUS
  <1>a. /\ permits + Cardinality(Holders) = Permits
        /\ PermitsConserved' <=> permits' + Cardinality(Holders') = Permits
        /\ permits \in Nat
        /\ Cardinality(Holders) \in Int
    BY WorkersFinite, FS_Subset, FS_CardinalityType DEF Holders, PermitsConserved, LooseTypes
  <1>b. UNCHANGED <<pc, permits>> => PermitsConserved'
    BY <1>a DEF Holders
  <1>1. ASSUME UNCHANGED vars \/ MainStep PROVE PermitsConserved'
    BY <1>1, <1>b DEF vars, MainStep, Bind, BindFails, ServerReady, Signal, Exit
  <1>2. ASSUME NEW r \in Requests, ClientStep(r) PROVE PermitsConserved'
    BY <1>2, <1>b DEF ClientStep, Accept, Disconnect, SendBody, Submit
  <1>3. ASSUME NEW w \in Workers, WorkerStep(w) PROVE PermitsConserved'
    <2> USE DEF Holding, Locations, Creating, Serving
    <2>1. CASE AcquireForCreate(w) \/ AcquireForDestroy(w)
      <3>1. permits' = permits - 1 /\ Cardinality(Holders') = Cardinality(Holders) + 1
        BY <2>1, HoldersMove DEF AcquireForCreate, AcquireForDestroy, Acquire
      <3> QED
        BY <3>1, <1>a
    <2>2. ASSUME permits' = permits + 1, pc[w] \in Holding,
                 NEW l \in Locations \ Holding, Goto(w, l)
          PROVE  PermitsConserved'
      <3>1. Cardinality(Holders') = Cardinality(Holders) - 1
        BY <2>2, HoldersMove
      <3> QED
        BY <2>2, <3>1, <1>a
    <2>3. ASSUME UNCHANGED permits, NEW l \in Locations, Goto(w, l),
                 pc[w] \in Holding <=> l \in Holding
          PROVE  PermitsConserved'
      <3>1. Cardinality(Holders') = Cardinality(Holders)
        BY <2>3, HoldersMove
      <3> QED
        BY <2>3, <3>1, <1>a
    <2>4. CASE SetupNetwork(w) \/ TestReady(w) \/ TakeSnapshot(w)
      BY <2>2, <2>3, <2>4 DEF SetupNetwork, TestReady, TakeSnapshot, ArriveFrom, Release
    <2>5. CASE CreateFails(w) \/ Destroy(w)
      BY <2>2, <2>5 DEF CreateFails, Destroy, Release
    <2>6. CASE GuestUp(w)
      BY <2>6, <1>b DEF GuestUp
    <2>7. CASE BootOk(w) \/ PassBarrier(w) \/ SeeCancelled(w)
      BY <2>3, <2>7 DEF BootOk, PassBarrier, SeeCancelled
    <2>8. CASE StartCold(w) \/ LaunchVmm(w) \/ LoadSnapshot(w)
      BY <2>3, <2>8 DEF StartCold, LaunchVmm, LoadSnapshot
    <2>9. CASE StartColdFails(w) \/ LoadFails(w)
      BY <2>3, <2>9 DEF StartColdFails, LoadFails, StopAfterFailure
    <2>10. CASE TakeWork(w) \/ ReadBody(w)
      BY <2>3, <2>10 DEF TakeWork, ReadBody
    <2>11. CASE BodyFails(w) \/ Forward(w)
      BY <2>3, <2>11 DEF BodyFails, Forward, Relayed
    <2>12. CASE StopServer(w) \/ KillVm(w)
      BY <2>3, <2>12 DEF StopServer, KillVm
    <2>13. CASE Panic(w)
      BY <2>2, <2>3, <2>13 DEF Panic, Release
    <2> QED
      BY <1>3, <2>1, <2>4, <2>5, <2>6, <2>7, <2>8, <2>9, <2>10, <2>11, <2>12, <2>13 DEF WorkerStep
  <1> QED
    BY <1>1, <1>2, <1>3 DEF Next, Terminated

-------------------------------------------------------------------------------
(* The barrier. *)
PastBarrier == Serving \cup {"idle", "destroy", "destroying", "done"}

(* Who has arrived has left create; nobody passes before all have arrived. *)
BarrierInv ==
    /\ \A w \in Workers : w \in arrived => pc[w] \notin Creating
    /\ \A w \in Workers : pc[w] \in PastBarrier => Released
    /\ main \in {"accepting", "stopping", "exited"} => Released
    /\ conns # {} => Released

LEMMA BarrierInit == Init => BarrierInv
  BY DEF Init, BarrierInv, PastBarrier, Serving, Creating

LEMMA BarrierStep == LooseTypes /\ BarrierInv /\ [Next]_vars => BarrierInv'
  <1> SUFFICES ASSUME LooseTypes, BarrierInv, [Next]_vars PROVE BarrierInv'
    OBVIOUS
  <1> USE DEF BarrierInv, Released, vmVars, clientVars
  <1>1. ASSUME UNCHANGED vars PROVE BarrierInv'
    BY <1>1 DEF vars
  <1>2. ASSUME MainStep PROVE BarrierInv'
    BY <1>2, PoolAssumption
    DEF MainStep, Bind, BindFails, ServerReady, Signal, Exit, Parties, LooseTypes, Workers
  <1>3. ASSUME NEW r \in Requests, ClientStep(r) PROVE BarrierInv'
    BY <1>3 DEF ClientStep, Accept, Disconnect, SendBody, Submit
  <1>4. ASSUME NEW w \in Workers, WorkerStep(w) PROVE BarrierInv'
    <2> USE DEF LooseTypes, Goto, Creating, Serving, PastBarrier
    <2>1. ASSUME ArriveFrom(w), pc[w] \in Creating, UNCHANGED <<main, conns>>
          PROVE  BarrierInv'
      BY <2>1 DEF ArriveFrom, Parties
    <2>2. ASSUME Goto(w, "boot") \/ Goto(w, "snapshot"), pc[w] \in Creating,
                 UNCHANGED <<main, arrived, conns>>
          PROVE  BarrierInv'
      BY <2>2
    <2>3. CASE SetupNetwork(w)
      BY <2>1, <2>2, <2>3 DEF SetupNetwork
    <2>4. CASE TestReady(w) \/ TakeSnapshot(w)
      BY <2>1, <2>2, <2>4 DEF TestReady, TakeSnapshot
    <2>5. CASE AcquireForCreate(w) \/ BootOk(w) \/ CreateFails(w) \/ GuestUp(w)
      BY <2>5 DEF AcquireForCreate, BootOk, CreateFails, GuestUp
    <2>6. CASE PassBarrier(w) \/ TakeWork(w) \/ ReadBody(w)
      BY <2>6 DEF PassBarrier, TakeWork, ReadBody
    <2>7. CASE StartCold(w) \/ LaunchVmm(w) \/ LoadSnapshot(w)
      BY <2>7 DEF StartCold, LaunchVmm, LoadSnapshot
    <2>8. CASE StartColdFails(w) \/ LoadFails(w)
      BY <2>8 DEF StartColdFails, LoadFails, StopAfterFailure
    <2>9. CASE BodyFails(w) \/ Forward(w)
      BY <2>9 DEF BodyFails, Forward, Relayed
    <2>10. CASE StopServer(w) \/ KillVm(w)
      BY <2>10 DEF StopServer, KillVm
    <2>11. CASE SeeCancelled(w) \/ AcquireForDestroy(w) \/ Destroy(w)
      BY <2>11 DEF SeeCancelled, AcquireForDestroy, Destroy
    <2>12. CASE Panic(w)
      BY <2>12 DEF Panic
    <2> QED
      BY <1>4, <2>3, <2>4, <2>5, <2>6, <2>7, <2>8, <2>9, <2>10, <2>11, <2>12 DEF WorkerStep
  <1> QED
    BY <1>1, <1>2, <1>3, <1>4 DEF Next, Terminated

LEMMA BarrierImplies == LooseTypes /\ BarrierInv => NothingBeforeBarrier
  BY DEF BarrierInv, NothingBeforeBarrier, PastBarrier, Released, Parties, Creating, Serving

-------------------------------------------------------------------------------
(* The virtual machines. *)
Created == {"barrier", "idle", "destroy", "destroying"} \cup Serving

(* VmMatchesRole and RelayToReadyVm are not inductive: that a relaying VM   *)
(* is ready comes from the probe a hot worker made before the barrier, or   *)
(* from the snapshot a cold one took then.                                  *)
HotInv(w) ==
    /\ pc[w] \notin {"snapshot", "start", "load", "stop", "kill"}
    /\ pc[w] \in Created => vm[w] = "running" /\ (guest[w] = "up" \/ w \in warned)

ColdInv(w) ==
    /\ pc[w] \notin {"probe", "snapshot", "load", "relay", "forward", "stop", "kill"} => vm[w] = "off"
    /\ UseSnapshots =>
         /\ pc[w] = "snapshot" => guest[w] = "up" \/ w \in warned
         /\ pc[w] \in Created => snap[w] = "up" \/ w \in warned
         /\ pc[w] \in {"relay", "forward"} => guest[w] = "up" \/ w \in warned

VmInv ==
    \A w \in Workers :
        /\ pc[w] = "probe" => vm[w] = "running"
        /\ <<w, "serve">> \in orphans => pc[w] = "panicked"
        /\ w \in Hot => HotInv(w)
        /\ w \in Cold => ColdInv(w)

LEMMA VmInit == Init => VmInv
  BY DEF Init, VmInv, HotInv, ColdInv, Created, Serving

LEMMA VmStep == LooseTypes /\ VmInv /\ [Next]_vars => VmInv'
  <1> SUFFICES ASSUME LooseTypes, VmInv, [Next]_vars PROVE VmInv'
    OBVIOUS
  <1> USE PoolAssumption DEF VmInv, HotInv, ColdInv, vmVars
  <1>a. UNCHANGED <<pc, vmVars>> => VmInv'
    OBVIOUS
  <1>1. ASSUME UNCHANGED vars \/ MainStep PROVE VmInv'
    BY <1>1, <1>a DEF vars, MainStep, Bind, BindFails, ServerReady, Signal, Exit
  <1>2. ASSUME NEW r \in Requests, ClientStep(r) PROVE VmInv'
    BY <1>2, <1>a DEF ClientStep, Accept, Disconnect, SendBody, Submit
  <1>3. ASSUME NEW w \in Workers, WorkerStep(w) PROVE VmInv'
    <2>a. w \in Hot \/ w \in Cold
      BY DEF Workers
    <2> USE DEF LooseTypes, Goto, Created, Serving
    <2>1. CASE AcquireForCreate(w)
      BY <2>1 DEF AcquireForCreate
    <2>2. CASE SetupNetwork(w)
      <3>1. /\ pc[w] = "network" /\ UNCHANGED vmVars
            /\ \/ Goto(w, "boot")
               \/ ~(w \in Hot \/ UseSnapshots) /\ ArriveFrom(w)
        BY <2>2, Zenon DEF SetupNetwork
      <3>2. CASE Goto(w, "boot")
        BY <3>1, <3>2
      <3>3. CASE ~(w \in Hot \/ UseSnapshots) /\ ArriveFrom(w)
        BY <3>1, <3>3, <2>a DEF ArriveFrom
      <3> QED
        BY <3>1, <3>2, <3>3
    <2>3. CASE BootOk(w)
      BY <2>3 DEF BootOk
    <2>4. CASE CreateFails(w)
      <3>1. PICK left : DropVmm(w, left)
        BY <2>4 DEF CreateFails
      <3>2. \A v \in Workers : <<v, "serve">> \in orphans' <=> <<v, "serve">> \in orphans
        BY <2>4, <3>1 DEF CreateFails, DropVmm, Creating
      <3>3. UNCHANGED <<snap, warned>> /\ VmOff(w)
        BY <2>4, <3>1 DEF CreateFails, DropVmm
      <3> QED
        BY <2>4, <3>2, <3>3 DEF CreateFails, VmOff
    <2>5. CASE GuestUp(w)
      BY <2>5 DEF GuestUp
    <2>6. CASE TestReady(w)
      <3>a. /\ pc[w] = "probe" /\ vm[w] = "running"
            /\ UNCHANGED <<vm, guest, snap, orphans>>
            /\ guest[w] = "up" \/ w \in warned'
            /\ \A v \in Workers : v # w => (v \in warned' <=> v \in warned)
        BY <2>6 DEF TestReady, Probed
      <3>1. CASE w \in Hot /\ Goto(w, "barrier")
        BY <3>a, <3>1
      <3>2. CASE w \notin Hot /\ Goto(w, "snapshot")
        BY <3>a, <3>2
      <3> QED
        BY <2>6, <3>1, <3>2 DEF TestReady, ArriveFrom
    <2>7. CASE TakeSnapshot(w)
      BY <2>7 DEF TakeSnapshot, ArriveFrom, VmOff
    <2>8. CASE PassBarrier(w)
      BY <2>8 DEF PassBarrier
    <2>9. CASE TakeWork(w)
      BY <2>9, <2>a DEF TakeWork
    <2>10. CASE StartCold(w)
      BY <2>10 DEF StartCold
    <2>11. CASE LaunchVmm(w)
      BY <2>11 DEF LaunchVmm
    <2>12. CASE LoadSnapshot(w)
      BY <2>12, <2>a DEF LoadSnapshot
    <2>13. CASE StartColdFails(w) \/ LoadFails(w)
      <3>1. /\ pc[w] \in {"start", "load"} /\ Goto(w, "kill")
            /\ \E left : vm' = [vm EXCEPT ![w] = left]
            /\ UNCHANGED <<guest, snap, warned, orphans>>
        BY <2>13 DEF StartColdFails, LoadFails, StopAfterFailure
      <3> QED
        BY <3>1
    <2>14. CASE ReadBody(w)
      BY <2>14, <2>a DEF ReadBody
    <2>15. CASE BodyFails(w) \/ Forward(w)
      <3>1. pc[w] \in {"relay", "forward"} /\ UNCHANGED vmVars
        BY <2>15 DEF BodyFails, Forward, Relayed
      <3>2. CASE w \in Hot /\ Goto(w, "idle")
        BY <3>1, <3>2
      <3>3. CASE w \notin Hot /\ Goto(w, "stop")
        BY <3>1, <3>3
      <3> QED
        BY <2>15, <3>2, <3>3 DEF BodyFails, Forward, Relayed
    <2>16. CASE StopServer(w)
      BY <2>16 DEF StopServer
    <2>17. CASE KillVm(w)
      BY <2>17 DEF KillVm, VmOff
    <2>18. CASE SeeCancelled(w)
      BY <2>18 DEF SeeCancelled
    <2>21. CASE AcquireForDestroy(w)
      BY <2>21 DEF AcquireForDestroy
    <2>19. CASE Destroy(w)
      BY <2>19 DEF Destroy, VmOff
    <2>20. CASE Panic(w)
      <3>1. PICK left : DropVmm(w, left)
        BY <2>20 DEF Panic
      <3>2. \A v \in Workers : v # w => (<<v, "serve">> \in orphans' <=> <<v, "serve">> \in orphans)
        BY <3>1 DEF DropVmm
      <3>3. UNCHANGED <<snap, warned>> /\ VmOff(w) /\ Goto(w, "panicked")
        BY <2>20, <3>1 DEF Panic, DropVmm
      <3> QED
        BY <3>2, <3>3 DEF VmOff
    <2> QED
      BY <1>3, <2>1, <2>2, <2>3, <2>4, <2>5, <2>6, <2>7, <2>8, <2>9, <2>10, <2>11, <2>12,
         <2>13, <2>14, <2>15, <2>16, <2>17, <2>18, <2>19, <2>20, <2>21 DEF WorkerStep
  <1> QED
    BY <1>1, <1>2, <1>3 DEF Next, Terminated

-------------------------------------------------------------------------------
(* The requests.  RequestInOnePlace counts; that the counts are right when a *)
(* Work moves needs to know where every other one is and who may hold one.  *)
(* A queued request is still owed an answer, by a worker of the queue's     *)
(* class, and is queued once and not taken.                                 *)
Queues == \A c \in Classes : \A i \in 1..Len(queue[c]) :
    /\ Outstanding(queue[c][i]) /\ path[queue[c][i]] = c
    /\ \A j \in 1..Len(queue[c]) : queue[c][i] = queue[c][j] => i = j
    /\ \A w \in Workers : job[w] # queue[c][i]

(* So is a request a worker has taken, by that worker alone. *)
Jobs == \A w \in Workers :
    /\ job[w] # None =>
         /\ pc[w] \in {"start", "load", "relay", "forward", "kill"}
         /\ Outstanding(job[w]) /\ path[job[w]] = ClassOf(w)
         /\ \A v \in Workers : job[v] = job[w] => v = w
    /\ pc[w] \in {"start", "load", "relay", "forward"} => job[w] # None

InQueue(r) == \E c \in Classes : \E i \in 1..Len(queue[c]) : queue[c][i] = r
AtWork(r) == \E w \in Workers : job[w] = r

(* Every request that is owed an answer is somewhere. *)
NoneLost == \A r \in Requests : Outstanding(r) => InQueue(r) \/ AtWork(r)

(* Nobody hangs up and stays; nothing is asked for before the accept loop.  *)
Clients ==
    /\ \A r \in conns : status[r] # "abandoned"
    /\ main \in {"binding", "barrier", "panicked"} =>
         conns = {} /\ \A r \in Requests : ~Outstanding(r)

RequestInv == Clients /\ (Alive => Queues /\ Jobs /\ NoneLost)

LEMMA RequestInit == Init => RequestInv
  BY DEF Init, RequestInv, Clients, Queues, Jobs, NoneLost, Outstanding, Alive

LEMMA QueuedRequests ==
  ASSUME LooseTypes
  PROVE  /\ \A c \in Classes : Len(queue[c]) \in Nat
         /\ \A c \in Classes : \A i \in 1..Len(queue[c]) : queue[c][i] \in Requests
  BY DEF LooseTypes

(* Most steps of a worker neither take a request nor let one go. *)
LEMMA WorkerMoves ==
  ASSUME LooseTypes, RequestInv, Alive, NEW w \in Workers, NEW l \in Locations, Goto(w, l),
         job[w] # None => l \in {"start", "load", "relay", "forward", "kill"},
         l \in {"start", "load", "relay", "forward"} => job[w] # None,
         UNCHANGED <<main, queue, job, clientVars>>
  PROVE  RequestInv'
  <1>1. Queues /\ Jobs /\ NoneLost /\ Clients
    BY DEF RequestInv
  <1>2. pc' = [pc EXCEPT ![w] = l] /\ pc \in [Workers -> Locations]
    BY DEF Goto, LooseTypes
  <1> USE DEF clientVars
  <1>3. Queues' /\ NoneLost' /\ Clients'
    BY <1>1 DEF Queues, NoneLost, Clients, Outstanding, InQueue, AtWork
  <1>4. Jobs'
    BY <1>1, <1>2 DEF Jobs, Outstanding
  <1> QED
    BY <1>3, <1>4 DEF RequestInv

(* The request a worker has taken is answered, or its Work dropped. *)
LEMMA WorkerDecides ==
  ASSUME LooseTypes, RequestInv, Alive, NEW w \in Workers, NEW l \in Locations, Goto(w, l),
         job[w] # None, NEW outcome \in {"ok", "err"}, Answered(job[w], outcome),
         job' = [job EXCEPT ![w] = None],
         l \notin {"start", "load", "relay", "forward"},
         UNCHANGED <<main, queue, conns, path>>
  PROVE  RequestInv'
  <1>1. PICK q \in Requests : q = job[w] /\ q # None
    BY DEF LooseTypes
  <1>2. Queues /\ Jobs /\ NoneLost /\ Clients
    BY DEF RequestInv
  <1>3. status' = [status EXCEPT ![q] = IF @ = "waiting" THEN outcome ELSE "new"]
    BY <1>1 DEF Answered
  <1>4. status'[q] \notin {"waiting", "abandoned"} /\ \A r \in Requests : r # q => status'[r] = status[r]
    BY <1>3 DEF LooseTypes
  <1>5. job'[w] = None /\ pc'[w] = l /\ \A v \in Workers : v # w => job'[v] = job[v] /\ pc'[v] = pc[v]
    BY DEF LooseTypes, Goto
  <1>6. \A v \in Workers : v # w => job[v] # q
    BY <1>1, <1>2 DEF Jobs
  <1>7. \A c \in Classes : \A i \in 1..Len(queue[c]) : queue[c][i] # q
    BY <1>1, <1>2 DEF Queues
  <1>8. Clients'
    BY <1>2, <1>4 DEF Clients, Outstanding, LooseTypes
  <1>9. Queues'
    BY <1>2, <1>4, <1>5, <1>7, PoolAssumption, QueuedRequests DEF Queues, Outstanding
  <1>10. Jobs'
    <2> SUFFICES ASSUME NEW v \in Workers
                 PROVE  /\ job'[v] # None =>
                             /\ pc'[v] \in {"start", "load", "relay", "forward", "kill"}
                             /\ status'[job'[v]] \in {"waiting", "abandoned"}
                             /\ path[job'[v]] = ClassOf(v)
                             /\ \A u \in Workers : job'[u] = job'[v] => u = v
                        /\ pc'[v] \in {"start", "load", "relay", "forward"} => job'[v] # None
      BY DEF Jobs, Outstanding, ClassOf
    <2>1. CASE v = w
      BY <2>1, <1>5
    <2>2. CASE v # w
      BY <2>2, <1>2, <1>4, <1>5, <1>6 DEF Jobs, Outstanding, LooseTypes
    <2> QED
      BY <2>1, <2>2
  <1>11. NoneLost'
    <2> SUFFICES ASSUME NEW r \in Requests, status'[r] \in {"waiting", "abandoned"}, ~InQueue(r)'
                 PROVE  AtWork(r)'
      BY DEF NoneLost, Outstanding
    <2>1. r # q /\ Outstanding(r) /\ ~InQueue(r)
      BY <1>4 DEF Outstanding, InQueue
    <2>2. PICK v \in Workers : job[v] = r
      BY <1>2, <2>1 DEF NoneLost, AtWork
    <2> QED
      BY <1>1, <1>5, <2>1, <2>2 DEF AtWork
  <1> QED
    BY <1>8, <1>9, <1>10, <1>11 DEF RequestInv

LEMMA WorkIsTaken ==
  ASSUME LooseTypes, RequestInv, Alive, NEW w \in Workers, TakeWork(w)
  PROVE  RequestInv'
  <1>1. Queues /\ Jobs /\ NoneLost /\ Clients
    BY DEF RequestInv
  <1>2. PICK c \in Classes : c = ClassOf(w)
    BY DEF ClassOf, Classes
  <1>3. PICK h \in Requests : h = Head(queue[c])
    BY <1>2 DEF TakeWork, LooseTypes
  <1>4. /\ Len(queue[c]) >= 1 /\ queue[c][1] = h
        /\ Len(queue'[c]) = Len(queue[c]) - 1
        /\ \A i \in 1..Len(queue'[c]) : queue'[c][i] = queue[c][i + 1]
    BY <1>2, <1>3 DEF TakeWork, LooseTypes
  <1>5. \A d \in Classes : d # c => queue'[d] = queue[d]
    BY <1>2 DEF TakeWork, LooseTypes
  <1>6. job[w] = None /\ job'[w] = h /\ \A v \in Workers : v # w => job'[v] = job[v] /\ pc'[v] = pc[v]
    BY <1>1, <1>2, <1>3 DEF TakeWork, Goto, LooseTypes, Jobs
  <1>7. /\ Outstanding(h) /\ path[h] = c
        /\ \A v \in Workers : job[v] # h
        /\ \A d \in Classes : \A i \in 1..Len(queue[d]) : queue[d][i] = h => d = c /\ i = 1
    BY <1>1, <1>4, QueuedRequests DEF Queues
  <1>8. Clients'
    BY <1>1 DEF Clients, TakeWork, clientVars, Outstanding
  <1>9. Queues'
    <2> SUFFICES ASSUME NEW d \in Classes, NEW i \in 1..Len(queue'[d])
                 PROVE  /\ status'[queue'[d][i]] \in {"waiting", "abandoned"}
                        /\ path'[queue'[d][i]] = d
                        /\ \A j \in 1..Len(queue'[d]) : queue'[d][i] = queue'[d][j] => i = j
                        /\ \A v \in Workers : job'[v] # queue'[d][i]
      BY DEF Queues, Outstanding
    <2>a. status' = status /\ path' = path
      BY DEF TakeWork, clientVars
    <2>1. CASE d = c
      BY <2>1, <2>a, <1>1, <1>4, <1>6, <1>7, QueuedRequests DEF Queues, Outstanding
    <2>2. CASE d # c
      BY <2>2, <2>a, <1>1, <1>5, <1>6, <1>7, QueuedRequests DEF Queues, Outstanding
    <2> QED
      BY <2>1, <2>2
  <1>10. Jobs'
    <2>1. pc'[w] \in {"start", "load", "relay", "forward"}
      BY DEF TakeWork, Goto, LooseTypes
    <2> SUFFICES ASSUME NEW v \in Workers
                 PROVE  /\ job'[v] # None =>
                             /\ pc'[v] \in {"start", "load", "relay", "forward", "kill"}
                             /\ Outstanding(job'[v]) /\ path[job'[v]] = ClassOf(v)
                             /\ \A u \in Workers : job'[u] = job'[v] => u = v
                        /\ pc'[v] \in {"start", "load", "relay", "forward"} => job'[v] # None
      BY DEF Jobs, Outstanding, ClassOf, TakeWork, clientVars
    <2>2. CASE v = w
      BY <2>1, <2>2, <1>2, <1>3, <1>6, <1>7, PoolAssumption
    <2>3. CASE v # w
      BY <2>3, <1>1, <1>6, <1>7 DEF Jobs
    <2> QED
      BY <2>2, <2>3
  <1>11. NoneLost'
    <2> SUFFICES ASSUME NEW r \in Requests, Outstanding(r), ~AtWork(r)' PROVE InQueue(r)'
      BY DEF NoneLost, Outstanding, TakeWork, clientVars
    <2>1. r # h /\ ~AtWork(r)
      BY <1>3, <1>6, PoolAssumption DEF AtWork
    <2>2a. PICK d \in Classes : \E i \in 1..Len(queue[d]) : queue[d][i] = r
      BY <1>1, <2>1 DEF NoneLost, InQueue
    <2>2. PICK i \in 1..Len(queue[d]) : queue[d][i] = r
      BY <2>2a
    <2>3. CASE d = c
      <3>1. i - 1 \in 1..Len(queue'[c]) /\ queue'[c][i - 1] = r
        BY <1>4, <2>1, <2>2, <2>3, QueuedRequests
      <3> QED
        BY <3>1 DEF InQueue
    <2>4. CASE d # c
      BY <1>5, <2>2, <2>4 DEF InQueue
    <2> QED
      BY <2>3, <2>4
  <1> QED
    BY <1>8, <1>9, <1>10, <1>11 DEF RequestInv

LEMMA RequestComes ==
  ASSUME LooseTypes, RequestInv, NEW r \in Requests, NEW c \in Classes, Submit(r, c)
  PROVE  RequestInv'
  <1>1. Queues /\ Jobs /\ NoneLost /\ Clients
    BY DEF RequestInv, Submit
  <1>2. /\ Len(queue'[c]) = Len(queue[c]) + 1 /\ queue'[c][Len(queue[c]) + 1] = r
        /\ \A i \in 1..Len(queue[c]) : queue'[c][i] = queue[c][i]
        /\ \A d \in Classes : d # c => queue'[d] = queue[d]
    BY DEF Submit, LooseTypes
  <1>3. /\ status'[r] = "waiting" /\ path'[r] = c
        /\ \A q \in Requests : q # r => status'[q] = status[q] /\ path'[q] = path[q]
        /\ job' = job /\ pc' = pc /\ main' = main /\ conns' = conns
    BY DEF Submit, LooseTypes
  <1>4. /\ \A d \in Classes : \A i \in 1..Len(queue[d]) : queue[d][i] # r
        /\ \A w \in Workers : job[w] # r
    BY <1>1, PoolAssumption DEF Submit, Queues, Jobs
  <1>5. Clients'
    BY <1>1, <1>3 DEF Clients, Submit, Outstanding, LooseTypes
  <1>6. Queues'
    <2> SUFFICES ASSUME NEW d \in Classes, NEW i \in 1..Len(queue'[d])
                 PROVE  /\ status'[queue'[d][i]] \in {"waiting", "abandoned"} /\ path'[queue'[d][i]] = d
                        /\ \A j \in 1..Len(queue'[d]) : queue'[d][i] = queue'[d][j] => i = j
                        /\ \A v \in Workers : job[v] # queue'[d][i]
      BY <1>3 DEF Queues, Outstanding
    <2>1. CASE d = c /\ i = Len(queue[c]) + 1
      BY <2>1, <1>2, <1>3, <1>4, QueuedRequests
    <2>2. CASE d = c /\ i # Len(queue[c]) + 1
      <3>1. i \in 1..Len(queue[c])
        BY <2>2, <1>2, QueuedRequests
      <3>2. PICK q \in Requests : q = queue[c][i] /\ q = queue'[c][i] /\ q # r
        BY <3>1, <1>2, <1>4, QueuedRequests
      <3>a. /\ Outstanding(queue[c][i]) /\ path[queue[c][i]] = c
            /\ \A j \in 1..Len(queue[c]) : queue[c][i] = queue[c][j] => i = j
            /\ \A v \in Workers : job[v] # queue[c][i]
        BY <3>1, <1>1 DEF Queues
      <3>3. status'[q] \in {"waiting", "abandoned"} /\ path'[q] = c /\ \A v \in Workers : job[v] # q
        BY <3>2, <3>a, <1>3 DEF Outstanding
      <3>4. ASSUME NEW j \in 1..Len(queue'[c]), queue'[c][j] = q PROVE i = j
        <4>1. j \in 1..Len(queue[c]) /\ queue[c][j] = q
          BY <3>2, <3>4, <1>2, QueuedRequests
        <4> QED
          BY <3>2, <3>a, <4>1
      <3> QED
        BY <2>2, <3>2, <3>3, <3>4
    <2>3. CASE d # c
      BY <2>3, <1>1, <1>2, <1>3, <1>4, QueuedRequests DEF Queues, Outstanding
    <2> QED
      BY <2>1, <2>2, <2>3
  <1>7. Jobs'
    BY <1>1, <1>3, <1>4 DEF Jobs, Outstanding, LooseTypes, ClassOf
  <1>8. NoneLost'
    <2> SUFFICES ASSUME NEW q \in Requests, Outstanding(q)', ~AtWork(q)' PROVE InQueue(q)'
      BY DEF NoneLost
    <2>1. CASE q = r
      <3>1. Len(queue[c]) + 1 \in 1..Len(queue'[c])
        BY <1>2, QueuedRequests
      <3> QED
        BY <3>1, <2>1, <1>2 DEF InQueue
    <2>2. CASE q # r
      <3>1. Outstanding(q) /\ ~AtWork(q)
        BY <1>3, <2>2 DEF Outstanding, AtWork
      <3>2a. PICK d \in Classes : \E i \in 1..Len(queue[d]) : queue[d][i] = q
        BY <1>1, <3>1 DEF NoneLost, InQueue
      <3>2. PICK i \in 1..Len(queue[d]) : queue[d][i] = q
        BY <3>2a
      <3>3. i \in 1..Len(queue'[d]) /\ queue'[d][i] = q
        BY <1>2, <3>2, QueuedRequests
      <3> QED
        BY <3>3 DEF InQueue
    <2> QED
      BY <2>1, <2>2
  <1> QED
    BY <1>5, <1>6, <1>7, <1>8 DEF RequestInv

LEMMA RequestStep == LooseTypes /\ RequestInv /\ [Next]_vars => RequestInv'
  <1> SUFFICES ASSUME LooseTypes, RequestInv, [Next]_vars PROVE RequestInv'
    OBVIOUS
  <1>a. UNCHANGED <<main, pc, queue, job, conns, status, path>> => RequestInv'
    BY DEF RequestInv, Alive, Clients, Queues, Jobs, NoneLost, InQueue, AtWork, Outstanding
  <1>1. ASSUME UNCHANGED vars PROVE RequestInv'
    BY <1>1, <1>a DEF vars, clientVars
  <1>2. ASSUME MainStep PROVE RequestInv'
    <2>1. CASE Exit
      BY <2>1 DEF Exit, RequestInv, Alive, Clients
    <2>2. CASE Bind \/ BindFails \/ ServerReady \/ Signal
      <3>1. /\ UNCHANGED <<pc, queue, job, clientVars>>
            /\ Alive
            /\ main' \in {"binding", "barrier", "panicked"} => main \in {"binding", "barrier"}
        BY <2>2 DEF Bind, BindFails, ServerReady, Signal, Alive
      <3> QED
        BY <3>1 DEF RequestInv, Clients, Queues, Jobs, NoneLost, InQueue, AtWork, Outstanding,
                    clientVars
    <2> QED
      BY <1>2, <2>1, <2>2 DEF MainStep
  <1>3. ASSUME NEW r \in Requests, ClientStep(r) PROVE RequestInv'
    <2>1. CASE Accept(r)
      BY <2>1 DEF Accept, RequestInv, Alive, Clients, Queues, Jobs, NoneLost, InQueue, AtWork,
                  Outstanding
    <2>2. CASE Disconnect(r)
      <3>1. /\ status[r] # "abandoned"
            /\ Queues /\ Jobs /\ NoneLost /\ Clients
        BY <2>2 DEF Disconnect, RequestInv, Clients
      <3>2. \A q \in Requests : Outstanding(q)' <=> Outstanding(q)
        BY <2>2, <3>1 DEF Disconnect, Outstanding, LooseTypes
      <3>3. UNCHANGED <<main, pc, queue, job, path>>
        BY <2>2 DEF Disconnect
      <3>4. Queues'
        BY <3>1, <3>2, <3>3, QueuedRequests DEF Queues
      <3>5. Jobs'
        BY <3>1, <3>2, <3>3 DEF Jobs, LooseTypes
      <3>6. NoneLost'
        BY <3>1, <3>2, <3>3 DEF NoneLost, InQueue, AtWork
      <3>7. Clients'
        BY <2>2, <3>1, <3>2 DEF Clients, Disconnect, LooseTypes
      <3> QED
        BY <3>4, <3>5, <3>6, <3>7 DEF RequestInv
    <2>3. CASE SendBody(r)
      BY <2>3, <1>a DEF SendBody
    <2>4. ASSUME NEW c \in Classes, Submit(r, c) PROVE RequestInv'
      BY <2>4, RequestComes
    <2> QED
      BY <1>3, <2>1, <2>2, <2>3, <2>4 DEF ClientStep
  <1>4. ASSUME NEW w \in Workers, Alive, WorkerStep(w) PROVE RequestInv'
    <2> USE <1>4 DEF Locations, Creating, Serving
    <2>a. /\ job[w] # None => pc[w] \in {"start", "load", "relay", "forward", "kill"}
          /\ pc[w] \in {"start", "load", "relay", "forward"} => job[w] # None
      BY DEF RequestInv, Jobs
    <2>1. ASSUME NEW l \in Locations, Goto(w, l), pc[w] \notin {"start", "load", "relay", "forward", "kill"},
                 l \notin {"start", "load", "relay", "forward"}, UNCHANGED <<main, queue, job, clientVars>>
          PROVE  RequestInv'
      BY <2>1, <2>a, WorkerMoves
    <2>2. CASE AcquireForCreate(w) \/ BootOk(w) \/ CreateFails(w)
      BY <2>1, <2>2 DEF AcquireForCreate, BootOk, CreateFails
    <2>3. CASE SetupNetwork(w) \/ TestReady(w) \/ TakeSnapshot(w)
      BY <2>1, <2>3 DEF SetupNetwork, TestReady, TakeSnapshot, ArriveFrom
    <2>4. CASE GuestUp(w)
      BY <2>4, <1>a DEF GuestUp, clientVars
    <2>5. CASE PassBarrier(w) \/ StopServer(w) \/ SeeCancelled(w) \/ AcquireForDestroy(w)
                 \/ Destroy(w)
      BY <2>1, <2>5 DEF PassBarrier, StopServer, SeeCancelled, AcquireForDestroy, Destroy
    <2>6. CASE StartCold(w) \/ LaunchVmm(w) \/ LoadSnapshot(w) \/ ReadBody(w)
      BY <2>6, <2>a, WorkerMoves DEF StartCold, LaunchVmm, LoadSnapshot, ReadBody
    <2>12. CASE StartColdFails(w) \/ LoadFails(w)
      BY <2>12, <2>a, WorkerMoves DEF StartColdFails, LoadFails, StopAfterFailure, clientVars
    <2>7. CASE TakeWork(w)
      BY <2>7, WorkIsTaken
    <2>13. ASSUME NEW outcome \in {"ok", "err"}, Relayed(w, outcome), job[w] # None
           PROVE  RequestInv'
      <3>1. PICK l \in {"idle", "stop"} : Goto(w, l)
        BY <2>13 DEF Relayed
      <3> QED
        BY <2>13, <3>1, WorkerDecides DEF Relayed
    <2>8. CASE BodyFails(w) \/ Forward(w)
      BY <2>8, <2>a, <2>13 DEF BodyFails, Forward
    <2>9. ASSUME DropWork(w), UNCHANGED <<main, queue, conns, path>>,
                 NEW l \in {"idle", "panicked"}, Goto(w, l)
          PROVE  RequestInv'
      <3>1. CASE job[w] = None
        <4>1. job' = job
          BY <2>9, <3>1 DEF DropWork, LooseTypes
        <4> QED
          BY <2>9, <3>1, <4>1, WorkerMoves DEF DropWork, clientVars
      <3>2. CASE job[w] # None
        BY <2>9, <3>2, WorkerDecides DEF DropWork
      <3> QED
        BY <3>1, <3>2
    <2>10. CASE KillVm(w)
      BY <2>9, <2>10 DEF KillVm
    <2>11. CASE Panic(w)
      BY <2>9, <2>11 DEF Panic
    <2> QED
      BY <2>2, <2>3, <2>4, <2>5, <2>6, <2>7, <2>8, <2>10, <2>11, <2>12 DEF WorkerStep
  <1> QED
    BY <1>1, <1>2, <1>3, <1>4 DEF Next, Terminated

LEMMA RequestInvImplies == LooseTypes /\ RequestInv => RequestInOnePlace
  <1> SUFFICES ASSUME LooseTypes, RequestInv, Alive, NEW r \in Requests
               PROVE  /\ Places(r) = IF Outstanding(r) THEN 1 ELSE 0
                      /\ \A c \in Classes : \A i \in 1..Len(queue[c]) : queue[c][i] = r => path[r] = c
                      /\ \A w \in Workers : job[w] = r => path[r] = ClassOf(w)
    BY DEF RequestInOnePlace
  <1>1. Queues /\ Jobs /\ NoneLost /\ r # None
    BY PoolAssumption DEF RequestInv
  <1> DEFINE Slots(c) == {i \in 1..Len(queue[c]) : queue[c][i] = r}
             Takers == {w \in Workers : job[w] = r}
  <1>2. Places(r) = Cardinality(Slots("hot")) + Cardinality(Slots("cold")) + Cardinality(Takers)
    BY DEF Places
  <1>3. \A c \in Classes : \A i \in Slots(c) : Slots(c) = {i} /\ Outstanding(r) /\ path[r] = c /\ Takers = {}
    BY <1>1 DEF Queues
  <1>4. \A w \in Takers : Takers = {w} /\ Outstanding(r)
    BY <1>1 DEF Jobs
  <1>5. Slots("hot") = {} /\ Slots("cold") = {} /\ Takers = {} => ~Outstanding(r)
    BY <1>1 DEF NoneLost, InQueue, AtWork, Classes
  <1>6. "hot" \in Classes /\ "cold" \in Classes
    BY DEF Classes
  <1>7. Cardinality({}) = 0
    BY FS_EmptySet
  <1> HIDE DEF Slots, Takers
  <1>8. Places(r) = IF Outstanding(r) THEN 1 ELSE 0
    <2>1. CASE Slots("hot") # {}
      <3>1. PICK i : i \in Slots("hot")
        BY <2>1
      <3>2. Slots("hot") = {i} /\ Outstanding(r) /\ Takers = {} /\ Slots("cold") = {}
        BY <3>1, <1>3, <1>6
      <3>3. Cardinality(Slots("hot")) = 1
        BY <3>2, FS_Singleton
      <3> QED
        BY <3>2, <3>3, <1>2, <1>7
    <2>2. CASE Slots("cold") # {}
      <3>1. PICK i : i \in Slots("cold")
        BY <2>2
      <3>2. Slots("cold") = {i} /\ Outstanding(r) /\ Takers = {} /\ Slots("hot") = {}
        BY <3>1, <1>3, <1>6
      <3>3. Cardinality(Slots("cold")) = 1
        BY <3>2, FS_Singleton
      <3> QED
        BY <3>2, <3>3, <1>2, <1>7
    <2>3. CASE Slots("hot") = {} /\ Slots("cold") = {} /\ Takers # {}
      <3>1. PICK w : w \in Takers
        BY <2>3
      <3>2. Takers = {w} /\ Outstanding(r)
        BY <3>1, <1>4
      <3>3. Cardinality(Takers) = 1
        BY <3>2, FS_Singleton
      <3> QED
        BY <3>2, <3>3, <2>3, <1>2, <1>7
    <2>4. CASE Slots("hot") = {} /\ Slots("cold") = {} /\ Takers = {}
      BY <2>4, <1>2, <1>5, <1>7
    <2> QED
      BY <2>1, <2>2, <2>3, <2>4
  <1> QED
    BY <1>1, <1>8 DEF Queues, Jobs

-------------------------------------------------------------------------------
(* The shutdown. *)
(* Main exits when every task has ended, and who has ended has stopped and   *)
(* torn down what it had; a cold worker has no VM when it comes to destroy.  *)
ShutdownInv ==
    /\ main = "exited" => \A w \in Workers : Finished(w)
    /\ \A w \in Workers : pc[w] = "done" => ~net[w] /\ (w \in Hot => vm[w] = "off")

LEMMA ShutdownInit == Init => ShutdownInv
  BY DEF Init, ShutdownInv

LEMMA ShutdownStep == LooseTypes /\ ShutdownInv /\ [Next]_vars => ShutdownInv'
  <1> SUFFICES ASSUME LooseTypes, ShutdownInv, [Next]_vars PROVE ShutdownInv'
    OBVIOUS
  <1> USE PoolAssumption DEF ShutdownInv, Finished, vmVars
  <1>1. ASSUME UNCHANGED vars PROVE ShutdownInv'
    BY <1>1 DEF vars
  <1>2. ASSUME MainStep PROVE ShutdownInv'
    BY <1>2 DEF MainStep, Bind, BindFails, ServerReady, Signal, Exit
  <1>3. ASSUME NEW r \in Requests, ClientStep(r) PROVE ShutdownInv'
    BY <1>3 DEF ClientStep, Accept, Disconnect, SendBody, Submit
  <1>4. ASSUME NEW w \in Workers, Alive, WorkerStep(w) PROVE ShutdownInv'
    <2>a. w \in Hot \/ w \in Cold
      BY DEF Workers
    <2>b. main # "exited"
      BY <1>4 DEF Alive
    <2> USE <2>b DEF LooseTypes, Goto
    <2>1. CASE AcquireForCreate(w)
      BY <2>1 DEF AcquireForCreate
    <2>2. CASE SetupNetwork(w)
      BY <2>2 DEF SetupNetwork, ArriveFrom
    <2>3. CASE BootOk(w)
      BY <2>3 DEF BootOk
    <2>4. CASE CreateFails(w)
      BY <2>4 DEF CreateFails, DropVmm, VmOff
    <2>5. CASE GuestUp(w)
      BY <2>5 DEF GuestUp
    <2>6. CASE TestReady(w)
      BY <2>6 DEF TestReady, ArriveFrom
    <2>7. CASE TakeSnapshot(w)
      BY <2>7 DEF TakeSnapshot, ArriveFrom, VmOff
    <2>8. CASE PassBarrier(w) \/ TakeWork(w) \/ ReadBody(w)
      BY <2>8 DEF PassBarrier, TakeWork, ReadBody
    <2>9. CASE StartCold(w) \/ LaunchVmm(w) \/ LoadSnapshot(w)
      BY <2>9 DEF StartCold, LaunchVmm, LoadSnapshot
    <2>10. CASE StartColdFails(w) \/ LoadFails(w)
      BY <2>10 DEF StartColdFails, LoadFails, StopAfterFailure
    <2>11. CASE BodyFails(w) \/ Forward(w)
      BY <2>11 DEF BodyFails, Forward, Relayed
    <2>12. CASE StopServer(w)
      BY <2>12 DEF StopServer
    <2>13. CASE KillVm(w)
      BY <2>13 DEF KillVm, VmOff
    <2>14. CASE SeeCancelled(w) \/ AcquireForDestroy(w)
      BY <2>14 DEF SeeCancelled, AcquireForDestroy
    <2>15. CASE Destroy(w)
      BY <2>15 DEF Destroy, VmOff
    <2>16. CASE Panic(w)
      BY <2>16 DEF Panic, DropVmm, VmOff
    <2> QED
      BY <1>4, <2>1, <2>2, <2>3, <2>4, <2>5, <2>6, <2>7, <2>8, <2>9, <2>10, <2>11, <2>12,
         <2>13, <2>14, <2>15, <2>16 DEF WorkerStep
  <1> QED
    BY <1>1, <1>2, <1>3, <1>4 DEF Next, Terminated

LEMMA ShutdownImplies == LooseTypes /\ PermitsConserved /\ VmInv /\ ShutdownInv => CleanShutdown
  <1> SUFFICES ASSUME LooseTypes, PermitsConserved, VmInv, ShutdownInv, main = "exited"
               PROVE  CleanShutdown
    BY DEF CleanShutdown
  <1>1. {w \in Workers : pc[w] \in Holding} = {}
    BY DEF ShutdownInv, Finished, Holding
  <1>2. Cardinality({w \in Workers : pc[w] \in Holding}) = 0
    BY <1>1, FS_EmptySet
  <1>3. permits = Permits
    BY <1>2 DEF PermitsConserved, LooseTypes
  <1>4. \A w \in Workers \ Panicked : pc[w] = "done"
    BY DEF ShutdownInv, Finished, Panicked
  <1>5. \A w \in Workers : pc[w] = "done" => vm[w] = "off" /\ ~net[w]
    BY DEF ShutdownInv, VmInv, ColdInv, Workers
  <1> QED
    BY <1>3, <1>4, <1>5 DEF CleanShutdown

-------------------------------------------------------------------------------
(* The refinement: what each step of the pool is to its clients.  Taking,   *)
(* answering and dropping Work are steps of the service; so are the steps   *)
(* of the clients and of main, but bind, whose failure is Stop.             *)
LEMMA ServiceInit == Init => Service!Init
  BY DEF Init, Service!Init, phaseBar, Workers, Service!Workers, Classes, Service!Classes

(* Every step of the pool is a step of the service, or hidden from it. *)
LEMMA ServiceStep == LooseTypes /\ RequestInv /\ [Next]_vars => [Service!Next]_(Service!vars)
  <1> SUFFICES ASSUME LooseTypes, RequestInv, [Next]_vars PROVE [Service!Next]_(Service!vars)
    OBVIOUS
  <1> USE DEF vmVars, clientVars
  <1>a. UNCHANGED <<main, job, status, path>> => UNCHANGED Service!vars
    BY DEF Service!vars, phaseBar
  <1>b. /\ Service!Workers = Workers /\ Service!Classes = Classes
        /\ \A w \in Workers : Service!ClassOf(w) = ClassOf(w)
        /\ \A r : Service!Outstanding(r) = Outstanding(r)
    BY DEF Service!Workers, Workers, Service!Classes, Classes, Service!ClassOf, ClassOf,
           Service!Outstanding, Outstanding
  <1>c. /\ phaseBar \in {"open", "closing"} <=> main \in {"accepting", "stopping"}
        /\ Alive /\ (conns # {} \/ \E r \in Requests : Outstanding(r)) =>
             main \in {"accepting", "stopping"}
        /\ UNCHANGED main => UNCHANGED phaseBar
    BY DEF phaseBar, RequestInv, Clients, LooseTypes, Alive
  <1>1. ASSUME UNCHANGED vars PROVE UNCHANGED Service!vars
    BY <1>1, <1>a DEF vars
  <1>2. ASSUME MainStep PROVE [Service!Next]_(Service!vars)
    <2>1. CASE Bind
      BY <2>1 DEF Bind, Service!vars, phaseBar
    <2>2. CASE BindFails
      <3>1. status = [r \in Requests |-> IF status[r] = "waiting" THEN "reset" ELSE status[r]]
        BY <2>2 DEF BindFails, RequestInv, Clients, Outstanding, LooseTypes
      <3>2. Service!Stop
        BY <2>2, <3>1 DEF BindFails, Service!Stop, phaseBar
      <3> QED
        BY <3>2 DEF Service!Next
    <2>3. CASE ServerReady
      BY <2>3 DEF ServerReady, Service!Next, Service!Open, phaseBar
    <2>4. CASE Signal
      BY <2>4 DEF Signal, Service!Next, Service!Close, phaseBar
    <2>5. CASE Exit
      BY <2>5 DEF Exit, Service!Next, Service!Stop, phaseBar
    <2> QED
      BY <1>2, <2>1, <2>2, <2>3, <2>4, <2>5 DEF MainStep
  <1>3. ASSUME NEW r \in Requests, ClientStep(r) PROVE [Service!Next]_(Service!vars)
    <2>1. CASE Accept(r)
      BY <2>1, <1>a DEF Accept
    <2>4. CASE SendBody(r)
      BY <2>4, <1>a DEF SendBody
    <2>2. CASE Disconnect(r)
      <3>1. status[r] # "abandoned" /\ phaseBar \in {"open", "closing"}
        BY <2>2, <1>c DEF Disconnect, RequestInv, Clients
      <3>2. Service!Disconnect(r)
        BY <2>2, <3>1, <1>c DEF Disconnect, Service!Disconnect
      <3> QED
        BY <3>2 DEF Service!Next
    <2>3. ASSUME NEW c \in Classes, Submit(r, c) PROVE Service!Next
      <3>1. phaseBar \in {"open", "closing"}
        BY <2>3, <1>c DEF Submit
      <3>2. Service!Submit(r, c)
        BY <2>3, <3>1, <1>b, <1>c DEF Submit, Service!Submit
      <3> QED
        BY <3>2, <1>b DEF Service!Next
    <2> QED
      BY <1>3, <2>1, <2>2, <2>3, <2>4 DEF ClientStep
  <1>4. ASSUME NEW w \in Workers, Alive, WorkerStep(w) PROVE [Service!Next]_(Service!vars)
    <2>1. ASSUME NEW outcome \in {"ok", "err"}, job[w] # None, Answered(job[w], outcome),
                 job' = [job EXCEPT ![w] = None], UNCHANGED <<main, path>>
          PROVE  Service!Next
      <3>1. phaseBar \in {"open", "closing"}
        BY <2>1, <1>4, <1>c DEF RequestInv, Jobs, LooseTypes
      <3>2. Service!Decide(w, outcome)
        BY <2>1, <3>1, <1>c DEF Service!Decide, Answered
      <3> QED
        BY <2>1, <3>2, <1>b DEF Service!Next
    <2>2. ASSUME DropWork(w), UNCHANGED <<main, path>> PROVE [Service!Next]_(Service!vars)
      <3>1. CASE job[w] = None
        BY <2>2, <3>1, <1>a DEF DropWork, LooseTypes
      <3>2. CASE job[w] # None
        BY <2>1, <2>2, <3>2 DEF DropWork
      <3> QED
        BY <3>1, <3>2
    <2>3. CASE TakeWork(w)
      <3>1. PICK c \in Classes : c = ClassOf(w)
        BY DEF ClassOf, Classes
      <3>2. PICK r \in Requests : r = Head(queue[c]) /\ r = queue[c][1] /\ 1 \in 1..Len(queue[c])
        BY <2>3, <3>1 DEF TakeWork, LooseTypes
      <3>3. Outstanding(r) /\ path[r] = c /\ \A v \in Workers : job[v] # r
        BY <3>2, <1>4 DEF RequestInv, Queues
      <3>4. job[w] = None /\ phaseBar \in {"open", "closing"}
        BY <2>3, <3>3, <1>4, <1>c DEF TakeWork, RequestInv, Jobs
      <3>5. Service!Take(w, r)
        BY <2>3, <3>1, <3>2, <3>3, <3>4, <1>b, <1>c DEF TakeWork, Service!Take
      <3> QED
        BY <3>5, <1>b DEF Service!Next
    <2>4. CASE BodyFails(w) \/ Forward(w)
      <3>1. PICK outcome \in {"ok", "err"} : Relayed(w, outcome)
        BY <2>4 DEF BodyFails, Forward
      <3>2. job[w] # None
        BY <2>4, <1>4 DEF BodyFails, Forward, RequestInv, Jobs
      <3> QED
        BY <2>1, <3>1, <3>2 DEF Relayed
    <2>5. CASE KillVm(w) \/ Panic(w)
      BY <2>2, <2>5 DEF KillVm, Panic
    <2>6. CASE \/ AcquireForCreate(w) \/ SetupNetwork(w) \/ BootOk(w) \/ CreateFails(w)
               \/ GuestUp(w) \/ TestReady(w) \/ TakeSnapshot(w) \/ PassBarrier(w)
      BY <2>6, <1>a DEF AcquireForCreate, SetupNetwork, BootOk, CreateFails, GuestUp, TestReady,
                        TakeSnapshot, PassBarrier
    <2>7. CASE \/ StartCold(w) \/ LaunchVmm(w) \/ LoadSnapshot(w) \/ ReadBody(w)
               \/ StopServer(w) \/ SeeCancelled(w) \/ AcquireForDestroy(w) \/ Destroy(w)
      BY <2>7, <1>a DEF StartCold, LaunchVmm, LoadSnapshot, ReadBody, StopServer, SeeCancelled,
                        AcquireForDestroy, Destroy
    <2>8. CASE StartColdFails(w) \/ LoadFails(w)
      BY <2>8, <1>a DEF StartColdFails, LoadFails, StopAfterFailure
    <2> QED
      BY <1>4, <2>3, <2>4, <2>5, <2>6, <2>7, <2>8 DEF WorkerStep
  <1> QED
    BY <1>1, <1>2, <1>3, <1>4 DEF Next, Terminated

-------------------------------------------------------------------------------
(* The inductive invariant, and what it gives. *)
PoolInv ==
    /\ LooseTypes /\ PermitsConserved /\ BarrierInv /\ VmInv
    /\ RequestInv /\ ShutdownInv

(* Every reachable state of the pool satisfies the inductive invariant.      *)
THEOREM PoolInvariant == Spec => []PoolInv
  <1>1. Init => PoolInv
    BY LooseTypesInit, PermitsInit, BarrierInit, VmInit, RequestInit, ShutdownInit DEF PoolInv
  <1>2. PoolInv /\ [Next]_vars => PoolInv'
    BY LooseTypesStep, PermitsStep, BarrierStep, VmStep, RequestStep, ShutdownStep DEF PoolInv
  <1> QED
    BY <1>1, <1>2, PTL DEF Spec

(* Types, permits included: never negative, never more than were made.      *)
THEOREM TypeCorrect == Spec => []TypeOK
  <1>1. PoolInv => TypeOK
    <2> SUFFICES ASSUME PoolInv PROVE permits \in 0..Permits
      BY DEF PoolInv, LooseTypes, TypeOK
    <2>1. Cardinality(Holders) \in Nat /\ permits + Cardinality(Holders) = Permits
      BY WorkersFinite, FS_Subset, FS_CardinalityType DEF Holders, PoolInv, PermitsConserved
    <2> QED
      BY <2>1, PoolAssumption DEF PoolInv, LooseTypes
  <1> QED
    BY <1>1, PoolInvariant, PTL

(* The semaphore: every permit is free or held by one worker in its scope,  *)
(* through failed creations, panics and shutdown.                           *)
THEOREM PermitsAreConserved == Spec => []PermitsConserved
  <1>1. PoolInv => PermitsConserved
    BY DEF PoolInv
  <1> QED
    BY <1>1, PoolInvariant, PTL

(* No worker serves and no client is accepted before all are created. *)
THEOREM BarrierIsSafe == Spec => []NothingBeforeBarrier
  <1>1. PoolInv => NothingBeforeBarrier
    BY BarrierImplies DEF PoolInv
  <1> QED
    BY <1>1, PoolInvariant, PTL

(* Hot workers keep their VM, cold ones have one only while they need it,   *)
(* and serving loses none: a VMM launched by a start that then fails is     *)
(* stopped like any other.                                                  *)
THEOREM VmsMatchRoles == Spec => []VmMatchesRole
  <1>1. PoolInv => VmMatchesRole
    BY DEF PoolInv, VmInv, HotInv, ColdInv, VmMatchesRole, Created, Serving
  <1> QED
    BY <1>1, PoolInvariant, PTL

(* Requests are relayed to VMs that were ready, or warned about. *)
THEOREM RelaysToReadyVms == Spec => []RelayToReadyVm
  <1>1. PoolInv => RelayToReadyVm
    BY DEF PoolInv, VmInv, HotInv, ColdInv, RelayToReadyVm, Created, Serving, Workers
  <1> QED
    BY <1>1, PoolInvariant, PTL

(* A request the client is owed an answer to is queued once or with one     *)
(* worker, of its class: no failed start, panic or hang-up loses or doubles *)
(* it while the process lives.                                              *)
THEOREM RequestsInOnePlace == Spec => []RequestInOnePlace
  <1>1. PoolInv => RequestInOnePlace
    BY RequestInvImplies DEF PoolInv
  <1> QED
    BY <1>1, PoolInvariant, PTL

(* At a clean exit all permits are back, and no worker that did not panic   *)
(* holds a VM or a network, whatever failed and was retried before.         *)
THEOREM ShutdownIsClean == Spec => []CleanShutdown
  <1>1. PoolInv => CleanShutdown
    BY ShutdownImplies DEF PoolInv
  <1> QED
    BY <1>1, PoolInvariant, PTL

(* To its clients the pool is RequestService: a request is taken by at most *)
(* one worker, idle and of its class, and is decided once.                  *)
THEOREM PoolImplementsService == Spec => ImplementsService
  <1>1. Init => Service!Init
    BY ServiceInit
  <1>2. PoolInv /\ [Next]_vars => [Service!Next]_(Service!vars)
    BY ServiceStep DEF PoolInv
  <1> QED
    BY <1>1, <1>2, PoolInvariant, PTL DEF Spec, ImplementsService, Service!Spec
===============================================================================
