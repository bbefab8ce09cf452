---------------------------- MODULE VmNetworkProofs ----------------------------
(***************************************************************************)
(* Theorems about the addresses of VmAddresses, and about VmNetwork for    *)
(* every pool, every set of devices and every number of runs.              *)
(***************************************************************************)
EXTENDS VmNetwork, SequenceTheorems, TLAPS

-------------------------------------------------------------------------------
(* The bytes of the addresses of VM 64 * q + k: no carry between the two.  *)
BytesOf(id, q, k) ==
    /\ id = 64 * q + k
    /\ get_vm_ip(id) = <<q % 256, 4 * k + 2>>
    /\ get_tap_ip(id) = <<q % 256, 4 * k + 1>>

LEMMA Bytes ==
  ASSUME NEW id \in Nat
  PROVE  \E q \in Nat : \E k \in 0..63 : BytesOf(id, q, k)
  <1> DEFINE k == id % 64
             q == id \div 64
  <1>1. id = 64 * q + k /\ q \in Nat /\ k \in 0..63
    OBVIOUS
  <1>2. ASSUME NEW a \in {1, 2}
        PROVE  (id * 4 + a) % 256 = 4 * k + a /\ (id * 4 + a) \div 256 = q
    <2>1. id * 4 + a = 256 * q + (4 * k + a) /\ 4 * k + a \in 0..255
      BY <1>1
    <2> QED
      BY <2>1, <1>1
  <1>3. get_vm_ip(id) = <<q % 256, 4 * k + 2>> /\ get_tap_ip(id) = <<q % 256, 4 * k + 1>>
    BY <1>2 DEF get_vm_ip, get_tap_ip, HostPart
  <1> QED
    BY <1>1, <1>3 DEF BytesOf

(* A guest registers the id it was created with. *)
THEOREM RegisteredIdIsVmId ==
  ASSUME NEW id \in 0..(MaxVms - 1)
  PROVE  RegisteredId(get_vm_ip(id)) = id
  <1>0. id \in Nat
    BY DEF MaxVms
  <1>p. PICK q \in Nat : \E k \in 0..63 : BytesOf(id, q, k)
    BY <1>0, Bytes
  <1>k. PICK k \in 0..63 : BytesOf(id, q, k)
    BY <1>p
  <1>1. id = 64 * q + k /\ get_vm_ip(id) = <<q % 256, 4 * k + 2>>
    BY <1>k DEF BytesOf
  <1>2. q \in 0..255
    BY <1>1 DEF MaxVms
  <1>3. q % 256 = q
    BY <1>2
  <1>a. get_vm_ip(id)[1] = q /\ get_vm_ip(id)[2] = 4 * k + 2 /\ id \in Nat
    BY <1>1, <1>3 DEF MaxVms
  <1>4. RegisteredId(get_vm_ip(id)) = (q * 256 + (4 * k + 2) - 2) \div 4
    BY <1>a DEF RegisteredId
  <1>5. q * 256 + (4 * k + 2) - 2 = 4 * id
    BY <1>1
  <1>6. (4 * id) \div 4 = id
    BY <1>a
  <1> QED
    BY <1>4, <1>5, <1>6

(* It posts the id to the tap of its own VM: the low byte never borrows. *)
THEOREM RegistersWithOwnTap ==
  ASSUME NEW id \in Nat
  PROVE  /\ get_vm_ip(id)[2] >= 1
         /\ RegisterHost(get_vm_ip(id)) = get_tap_ip(id)
  <1>p. PICK q \in Nat : \E k \in 0..63 : BytesOf(id, q, k)
    BY Bytes
  <1>k. PICK k \in 0..63 : BytesOf(id, q, k)
    BY <1>p
  <1>1. get_vm_ip(id) = <<q % 256, 4 * k + 2>> /\ get_tap_ip(id) = <<q % 256, 4 * k + 1>>
    BY <1>k DEF BytesOf
  <1>a. get_vm_ip(id)[1] = q % 256 /\ get_vm_ip(id)[2] = 4 * k + 2
    BY <1>1
  <1>2. RegisterHost(get_vm_ip(id)) = <<q % 256, 4 * k + 2 - 1>>
    BY <1>a DEF RegisterHost
  <1>3. 4 * k + 2 - 1 = 4 * k + 1 /\ 4 * k + 2 >= 1
    OBVIOUS
  <1> QED
    BY <1>1, <1>a, <1>2, <1>3

(* Two machines of one pool never share an address. *)
THEOREM AddressesDiffer ==
  ASSUME NEW i \in 0..(MaxVms - 1), NEW j \in 0..(MaxVms - 1), i # j
  PROVE  get_vm_ip(i) # get_vm_ip(j)
  BY RegisteredIdIsVmId

(* The id of a /16 is in its tap's MAC address. *)
Value(address) == 256 * address[1] + address[2]

LEMMA MacHasId ==
  ASSUME NEW id \in 0..(MaxVms - 1)
  PROVE  Value(get_tap_mac(id)) = id
  <1>0. id \in Nat /\ id <= 16383
    BY DEF MaxVms
  <1> DEFINE a == id \div 256
             b == id % 256
  <1>1. id = 256 * a + b /\ a \in Nat /\ b \in 0..255
    BY <1>0
  <1>2. get_tap_mac(id) = <<a % 256, b>>
    BY DEF get_tap_mac
  <1> HIDE DEF a, b
  <1>3. a <= 63
    BY <1>0, <1>1
  <1>4. a % 256 = a
    BY <1>1, <1>3
  <1>5. get_tap_mac(id) = <<a, b>>
    BY <1>2, <1>4
  <1>6. get_tap_mac(id)[1] = a /\ get_tap_mac(id)[2] = b
    BY <1>5
  <1> QED
    BY <1>1, <1>6 DEF Value

(* And four times the id, with the number of the host, in its addresses.    *)
LEMMA AddressesHaveId ==
  ASSUME NEW id \in 0..(MaxVms - 1)
  PROVE  Value(get_vm_ip(id)) = 4 * id + 2 /\ Value(get_tap_ip(id)) = 4 * id + 1
  <1>0. id \in Nat /\ id <= 16383
    BY DEF MaxVms
  <1>p. PICK q \in Nat : \E k \in 0..63 : BytesOf(id, q, k)
    BY <1>0, Bytes
  <1>k. PICK k \in 0..63 : BytesOf(id, q, k)
    BY <1>p
  <1>1. id = 64 * q + k
    BY <1>k DEF BytesOf
  <1>2. get_vm_ip(id) = <<q % 256, 4 * k + 2>> /\ get_tap_ip(id) = <<q % 256, 4 * k + 1>>
    BY <1>k DEF BytesOf
  <1>a. 64 * q + k <= 16383
    BY <1>0, <1>1
  <1>3. q <= 255
    BY <1>a
  <1>4. q % 256 = q
    BY <1>3
  <1>5. get_vm_ip(id) = <<q, 4 * k + 2>> /\ get_tap_ip(id) = <<q, 4 * k + 1>>
    BY <1>2, <1>4
  <1>6. /\ get_vm_ip(id)[1] = q /\ get_vm_ip(id)[2] = 4 * k + 2
        /\ get_tap_ip(id)[1] = q /\ get_tap_ip(id)[2] = 4 * k + 1
    BY <1>5
  <1> QED
    BY <1>1, <1>6 DEF Value

(* Nor does a guest's address clash with a tap's, a tap's with another's,   *)
(* or a tap's MAC address with another's.                                   *)
THEOREM TapsDiffer ==
  ASSUME NEW i \in 0..(MaxVms - 1), NEW j \in 0..(MaxVms - 1), i # j
  PROVE  /\ {get_vm_ip(i), get_tap_ip(i)} \cap {get_vm_ip(j), get_tap_ip(j)} = {}
         /\ get_tap_mac(i) # get_tap_mac(j)
  <1>0. i \in Nat /\ j \in Nat
    BY DEF MaxVms
  <1>1. Value(get_vm_ip(i)) = 4 * i + 2 /\ Value(get_tap_ip(i)) = 4 * i + 1
    BY AddressesHaveId
  <1>2. Value(get_vm_ip(j)) = 4 * j + 2 /\ Value(get_tap_ip(j)) = 4 * j + 1
    BY AddressesHaveId
  <1>3. Value(get_tap_mac(i)) = i
    BY MacHasId
  <1>a. Value(get_tap_mac(j)) = j
    BY MacHasId
  <1>4. 4 * i + 2 # 4 * j + 2 /\ 4 * i + 1 # 4 * j + 1 /\ 4 * i + 2 # 4 * j + 1 /\ 4 * i + 1 # 4 * j + 2
    BY <1>0
  <1>5. /\ get_vm_ip(i) # get_vm_ip(j) /\ get_tap_ip(i) # get_tap_ip(j)
        /\ get_vm_ip(i) # get_tap_ip(j) /\ get_tap_ip(i) # get_vm_ip(j)
    BY <1>1, <1>2, <1>4
  <1>6. get_tap_mac(i) # get_tap_mac(j)
    BY <1>3, <1>a
  <1> QED
    BY <1>5, <1>6

-------------------------------------------------------------------------------
(* The scripts.  What is left of script s when its first k - 1 commands have *)
(* run.                                                                      *)
Left(s, k) == SubSeq(s, k, Len(s))

LEMMA CommandsLeft ==
  ASSUME NEW S, NEW s \in Seq(S)
  PROVE  /\ \A k \in 1..Len(s) : /\ Left(s, k) # <<>> /\ Len(Left(s, k)) = Len(s) - k + 1
                               /\ Head(Left(s, k)) = s[k]
                               /\ Tail(Left(s, k)) = Left(s, k + 1)
         /\ Left(s, 1) = s
         /\ Left(s, Len(s) + 1) = <<>>
  <1>1. ASSUME NEW k \in 1..Len(s)
        PROVE  /\ Left(s, k) # <<>> /\ Len(Left(s, k)) = Len(s) - k + 1
               /\ Head(Left(s, k)) = s[k]
               /\ Tail(Left(s, k)) = Left(s, k + 1)
    <2>1. Len(s) \in Nat /\ \A i \in 1..Len(s) : s[i] \in S
      OBVIOUS
    <2>2. \A i \in k..Len(s) : s[i] \in S
      BY <2>1
    <2>3. Len(Left(s, k)) = Len(s) - k + 1
      BY <2>1, <2>2, SubSeqProperties DEF Left
    <2>4. Head(Left(s, k)) = s[k] /\ Tail(Left(s, k)) = Left(s, k + 1)
      BY <2>1, <2>2, HeadTailOfSubSeq DEF Left
    <2> QED
      BY <2>1, <2>3, <2>4
  <1>2. Left(s, Len(s) + 1) = <<>> /\ Left(s, 1) = s
    BY SubSeqEmpty, SubSeqFull DEF Left
  <1> QED
    BY <1>1, <1>2

(* The scripts, command by command. *)
Commands == {"link del", "tap add", "addr add", "link up", "accept del", "accept add",
             "forward off", "forward on", "nat del", "nat add", "track del", "track add"}

LEMMA VmScripts ==
  /\ SetupVm \in Seq(Commands) /\ Len(SetupVm) = 6
  /\ SetupVm[1] = "link del" /\ SetupVm[2] = "accept del" /\ SetupVm[3] = "tap add"
  /\ SetupVm[4] = "addr add" /\ SetupVm[5] = "link up" /\ SetupVm[6] = "accept add"
  /\ TeardownVm \in Seq(Commands) /\ Len(TeardownVm) = 2
  /\ TeardownVm[1] = "link del" /\ TeardownVm[2] = "accept del"
  <1> DEFINE adds == <<"tap add", "addr add", "link up", "accept add">>
  <1>1. TeardownVm \in Seq(Commands) /\ adds \in Seq(Commands)
    BY DEF TeardownVm, Commands
  <1>2. Len(TeardownVm) = 2 /\ TeardownVm[1] = "link del" /\ TeardownVm[2] = "accept del"
    BY DEF TeardownVm
  <1>3. /\ Len(adds) = 4 /\ adds[1] = "tap add" /\ adds[2] = "addr add"
        /\ adds[3] = "link up" /\ adds[4] = "accept add"
    OBVIOUS
  <1>4. SetupVm = TeardownVm \o adds
    BY DEF SetupVm
  <1> HIDE DEF adds
  <1>5. /\ SetupVm \in Seq(Commands)
        /\ Len(SetupVm) = Len(TeardownVm) + Len(adds)
        /\ \A i \in 1..Len(TeardownVm) + Len(adds) :
             SetupVm[i] = IF i <= Len(TeardownVm) THEN TeardownVm[i] ELSE adds[i - Len(TeardownVm)]
    BY <1>1, <1>4, ConcatProperties
  <1>a. Len(TeardownVm) = 2 /\ Len(adds) = 4
    BY <1>2, <1>3
  <1>6. /\ Len(SetupVm) = 6
        /\ \A i \in 1..6 : SetupVm[i] = IF i <= 2 THEN TeardownVm[i] ELSE adds[i - 2]
    BY <1>a, <1>5
  <1>7. /\ SetupVm[1] = TeardownVm[1] /\ SetupVm[2] = TeardownVm[2]
        /\ SetupVm[3] = adds[1] /\ SetupVm[4] = adds[2]
        /\ SetupVm[5] = adds[3] /\ SetupVm[6] = adds[4]
    BY <1>6
  <1> QED
    BY <1>1, <1>2, <1>3, <1>5, <1>6, <1>7

LEMMA ServerScripts ==
  /\ SetupServer \in Seq(Commands) /\ Len(SetupServer) = 6
  /\ SetupServer[1] = "forward off" /\ SetupServer[2] = "nat del" /\ SetupServer[3] = "track del"
  /\ SetupServer[4] = "forward on" /\ SetupServer[5] = "nat add" /\ SetupServer[6] = "track add"
  /\ TeardownServer \in Seq(Commands) /\ Len(TeardownServer) = 3
  /\ TeardownServer[1] = "forward off" /\ TeardownServer[2] = "nat del"
  /\ TeardownServer[3] = "track del"
  <1> DEFINE adds == <<"forward on", "nat add", "track add">>
  <1>1. TeardownServer \in Seq(Commands) /\ adds \in Seq(Commands)
    BY DEF TeardownServer, Commands
  <1>2. /\ Len(TeardownServer) = 3
        /\ TeardownServer[1] = "forward off" /\ TeardownServer[2] = "nat del"
        /\ TeardownServer[3] = "track del"
    BY DEF TeardownServer
  <1>3. Len(adds) = 3 /\ adds[1] = "forward on" /\ adds[2] = "nat add" /\ adds[3] = "track add"
    OBVIOUS
  <1>4. SetupServer = TeardownServer \o adds
    BY DEF SetupServer
  <1> HIDE DEF adds
  <1>5. /\ SetupServer \in Seq(Commands)
        /\ Len(SetupServer) = Len(TeardownServer) + Len(adds)
        /\ \A i \in 1..Len(TeardownServer) + Len(adds) :
             SetupServer[i] = IF i <= Len(TeardownServer) THEN TeardownServer[i]
                              ELSE adds[i - Len(TeardownServer)]
    BY <1>1, <1>4, ConcatProperties
  <1>a. Len(TeardownServer) = 3 /\ Len(adds) = 3
    BY <1>2, <1>3
  <1>6. /\ Len(SetupServer) = 6
        /\ \A i \in 1..6 : SetupServer[i] = IF i <= 3 THEN TeardownServer[i] ELSE adds[i - 3]
    BY <1>a, <1>5
  <1>7. /\ SetupServer[1] = TeardownServer[1] /\ SetupServer[2] = TeardownServer[2]
        /\ SetupServer[3] = TeardownServer[3]
        /\ SetupServer[4] = adds[1] /\ SetupServer[5] = adds[2] /\ SetupServer[6] = adds[3]
    BY <1>6
  <1> QED
    BY <1>1, <1>2, <1>3, <1>5, <1>6, <1>7

Command(s, k) == s[k]

(* Running a script of n commands from its head. *)
ScriptOf(s, n) ==
    /\ \A k \in 1..n : /\ Left(s, k) # <<>> /\ Len(Left(s, k)) = n + 1 - k
                       /\ Head(Left(s, k)) = Command(s, k)
                       /\ Tail(Left(s, k)) = Left(s, k + 1)
    /\ Left(s, 1) = s
    /\ Left(s, n + 1) = <<>>

LEMMA Scripts ==
    /\ ScriptOf(SetupVm, 6) /\ ScriptOf(TeardownVm, 2)
    /\ ScriptOf(SetupServer, 6) /\ ScriptOf(TeardownServer, 3)
  <1>1. ASSUME NEW s \in Seq(Commands), NEW n \in Nat, Len(s) = n
        PROVE  ScriptOf(s, n)
    BY <1>1, CommandsLeft DEF ScriptOf, Command
  <1>2. /\ SetupVm \in Seq(Commands) /\ Len(SetupVm) = 6 /\ 6 \in Nat
        /\ TeardownVm \in Seq(Commands) /\ Len(TeardownVm) = 2 /\ 2 \in Nat
    BY VmScripts
  <1>3. /\ SetupServer \in Seq(Commands) /\ Len(SetupServer) = 6 /\ 6 \in Nat
        /\ TeardownServer \in Seq(Commands) /\ Len(TeardownServer) = 3 /\ 3 \in Nat
    BY ServerScripts
  <1> QED
    BY <1>1, <1>2, <1>3

LEMMA VmCommands ==
  /\ Command(SetupVm, 1) = "link del" /\ Command(SetupVm, 2) = "accept del"
  /\ Command(SetupVm, 3) = "tap add" /\ Command(SetupVm, 4) = "addr add"
  /\ Command(SetupVm, 5) = "link up" /\ Command(SetupVm, 6) = "accept add"
  /\ Command(TeardownVm, 1) = "link del" /\ Command(TeardownVm, 2) = "accept del"
  BY VmScripts DEF Command

(* Which commands of the scripts can fail for what is on the host. *)
LEMMA CheckedCommands ==
  /\ \A k \in 1..6 : Command(SetupVm, k) = "tap add" => k = 3
  /\ \A k \in 1..6 : Command(SetupVm, k) = "addr add" => k = 4
  /\ \A k \in 1..6 : Command(SetupVm, k) = "link up" => k = 5
  /\ \A k \in 1..2 : Command(TeardownVm, k) \notin {"tap add", "addr add", "link up"}
  <1>1. ASSUME NEW k \in 1..6
        PROVE  /\ Command(SetupVm, k) = "tap add" => k = 3
               /\ Command(SetupVm, k) = "addr add" => k = 4
               /\ Command(SetupVm, k) = "link up" => k = 5
    <2>1. k = 1 \/ k = 2 \/ k = 3 \/ k = 4 \/ k = 5 \/ k = 6
      OBVIOUS
    <2> QED
      BY <2>1, VmCommands
  <1>2. ASSUME NEW k \in 1..2
        PROVE  Command(TeardownVm, k) \notin {"tap add", "addr add", "link up"}
    <2>1. k = 1 \/ k = 2
      OBVIOUS
    <2> QED
      BY <2>1, VmCommands
  <1> QED
    BY <1>1, <1>2

LEMMA ServerCommands ==
  /\ Command(SetupServer, 1) = "forward off" /\ Command(SetupServer, 2) = "nat del"
  /\ Command(SetupServer, 3) = "track del" /\ Command(SetupServer, 4) = "forward on"
  /\ Command(SetupServer, 5) = "nat add" /\ Command(SetupServer, 6) = "track add"
  /\ Command(TeardownServer, 1) = "forward off" /\ Command(TeardownServer, 2) = "nat del"
  /\ Command(TeardownServer, 3) = "track del"
  BY ServerScripts DEF Command

-------------------------------------------------------------------------------
(* The invariant. *)
DeviceTypes ==
    /\ taps \subseteq Ids /\ addrs \subseteq Ids /\ links \subseteq Ids
    /\ accept \in [Ids -> [Nics -> {0, 1}]]

NetTypes ==
    /\ DeviceTypes
    /\ nat \in [Nics -> {0, 1}]
    /\ track \in {0, 1}
    /\ forward \in BOOLEAN
    /\ phase \in Phases
    /\ pool \subseteq Ids
    /\ nic \in Nics
    /\ worker \in [Ids -> WorkerStates]
    /\ DOMAIN todo = Ids
    /\ runs \in 0..MaxRuns

(* How far worker i's script is, and what it has done to the host so far:   *)
(* the setup deletes before it adds, so it adds to nothing.                 *)
Creates(i, k) ==
    /\ todo[i] = Left(SetupVm, k)
    /\ k \in {2, 3} => i \notin taps
    /\ k \in {2, 3, 4} => i \notin addrs
    /\ k \in {3, 4, 5, 6} => accept[i][nic] = 0
    /\ k \in {4, 5, 6} => i \in taps
    /\ k \in {5, 6} => i \in addrs
    /\ k = 6 => i \in links

(* What the whole setup leaves. *)
Connected(i) == i \in taps \cap addrs \cap links /\ accept[i][nic] = 1

Destroys(i, k) == todo[i] = Left(TeardownVm, k) /\ (k = 2 => i \notin taps)

WorkerInv(i) ==
    /\ worker[i] = "creating" =>
         phase = "creating" /\ i \in pool /\ \E k \in 1..6 : Creates(i, k)
    /\ worker[i] = "destroying" =>
         phase = "stopping" /\ i \in pool /\ \E k \in 1..2 : Destroys(i, k)
    /\ worker[i] \notin {"creating", "destroying"} => todo[i] = <<>>
    /\ worker[i] = "up" =>
         phase \in {"creating", "serving"} /\ i \in pool /\ Connected(i)
    /\ worker[i] = "gone" =>
         phase \in {"stopping", "teardown", "exited"} /\ i \notin taps /\ accept[i][nic] = 0

(* Likewise for main's script and the server's rules. *)
SetsUp(k) ==
    /\ script = Left(SetupServer, k)
    /\ k \in {3, 4, 5} => nat[nic] = 0
    /\ k \in {4, 5, 6} => track = 0
    /\ k \in {5, 6, 7} => forward
    /\ k \in {6, 7} => nat[nic] = 1
    /\ k = 7 => track = 1

TearsDown(k) ==
    /\ script = Left(TeardownServer, k)
    /\ k \in {2, 3, 4} => ~forward
    /\ k \in {3, 4} => nat[nic] = 0
    /\ k = 4 => track = 0

ServerInv ==
    /\ phase = "setup" => \E k \in 1..7 : SetsUp(k)
    /\ phase = "teardown" => \E k \in 1..4 : TearsDown(k)
    /\ phase \notin {"setup", "teardown"} => script = <<>>
    /\ phase \in {"creating", "serving", "stopping"} => forward /\ nat[nic] = 1 /\ track = 1
    /\ phase = "exited" => ~forward /\ nat[nic] = 0 /\ track = 0

NetInv == NetTypes /\ ServerInv /\ \A i \in Ids : WorkerInv(i)

LEMMA NetInit == Init => NetInv
  <1> SUFFICES ASSUME Init PROVE NetInv
    OBVIOUS
  <1>1. NetTypes
    <2>0. runs = 0 /\ runs \in 0..MaxRuns
      BY NetworkAssumption DEF Init
    <2>1. track \in {0, 1} /\ forward \in BOOLEAN /\ DOMAIN todo = Ids
      BY DEF Init
    <2>2. DeviceTypes /\ nat \in [Nics -> {0, 1}] /\ pool \subseteq Ids /\ nic \in Nics
      BY DEF Init, DeviceTypes
    <2>3. worker \in [Ids -> WorkerStates] /\ phase \in Phases
      BY DEF Init, Phases, WorkerStates
    <2> QED
      BY <2>0, <2>1, <2>2, <2>3 DEF NetTypes
  <1>2. ServerInv
    BY DEF Init, ServerInv
  <1>3. ASSUME NEW i \in Ids PROVE WorkerInv(i)
    BY DEF Init, WorkerInv
  <1> QED
    BY <1>1, <1>2, <1>3 DEF NetInv

(* What one command of main does to the rules of its device. *)
LEMMA ServerEffects ==
  ASSUME NetTypes
  PROVE  /\ RunServerCommand("forward off") =>
              forward' = FALSE /\ nat' = nat /\ track' = track
         /\ RunServerCommand("nat del") =>
              forward' = forward /\ nat' = [nat EXCEPT ![nic] = 0] /\ track' = track
         /\ RunServerCommand("track del") =>
              forward' = forward /\ nat' = nat /\ track' = 0
         /\ RunServerCommand("forward on") =>
              forward' = TRUE /\ nat' = nat /\ track' = track
         /\ RunServerCommand("nat add") =>
              forward' = forward /\ nat' = [nat EXCEPT ![nic] = @ + 1] /\ track' = track
         /\ RunServerCommand("track add") =>
              forward' = forward /\ nat' = nat /\ track' = track + 1
  <1>0. nat \in [Nics -> {0, 1}] /\ nic \in Nics /\ track \in {0, 1}
    BY DEF NetTypes
  <1> USE DEF RunServerCommand
  <1>1. ASSUME RunServerCommand("forward off") PROVE forward' = FALSE /\ nat' = nat /\ track' = track
    BY <1>1
  <1>2. ASSUME RunServerCommand("nat del") PROVE forward' = forward /\ nat' = [nat EXCEPT ![nic] = 0] /\ track' = track
    <2>1. DeleteOne(nat[nic]) = 0
      BY <1>0 DEF DeleteOne
    <2> QED
      BY <1>2, <2>1
  <1>3. ASSUME RunServerCommand("track del") PROVE forward' = forward /\ nat' = nat /\ track' = 0
    BY <1>0, <1>3 DEF DeleteOne
  <1>4. ASSUME RunServerCommand("forward on") PROVE forward' = TRUE /\ nat' = nat /\ track' = track
    BY <1>4
  <1>5. ASSUME RunServerCommand("nat add") PROVE forward' = forward /\ nat' = [nat EXCEPT ![nic] = @ + 1] /\ track' = track
    BY <1>5
  <1>6. ASSUME RunServerCommand("track add") PROVE forward' = forward /\ nat' = nat /\ track' = track + 1
    BY <1>6
  <1> QED
    BY <1>1, <1>2, <1>3, <1>4, <1>5, <1>6

(* One command of main's setup, or of its teardown. *)
LEMMA SetsUpStep ==
  ASSUME NetTypes, ServerCommand, NEW k \in 1..7, SetsUp(k), UNCHANGED nic
  PROVE  /\ k + 1 \in 1..7 /\ SetsUp(k + 1)'
         /\ nat' \in [Nics -> {0, 1}] /\ track' \in {0, 1} /\ forward' \in BOOLEAN
  <1>1. k # 7 /\ script # <<>>
    BY Scripts DEF ServerCommand, SetsUp, ScriptOf
  <1>2. k \in 1..6
    BY <1>1
  <1>3. RunServerCommand(Command(SetupServer, k)) /\ script' = Left(SetupServer, k + 1)
    BY <1>2, Scripts DEF ServerCommand, SetsUp, ScriptOf
  <1>4. nat \in [Nics -> {0, 1}] /\ nic \in Nics /\ track \in {0, 1} /\ forward \in BOOLEAN
    BY DEF NetTypes
  <1>5. CASE k = 1
    <2>1. RunServerCommand("forward off")
      BY <1>3, <1>5, ServerCommands
    <2>2. forward' = FALSE /\ nat' = nat /\ track' = track
      BY <2>1, ServerEffects
    <2>3. k + 1 = 2 /\ script' = Left(SetupServer, 2)
      BY <1>3, <1>5
    <2>4. nat' \in [Nics -> {0, 1}] /\ track' \in {0, 1} /\ forward' \in BOOLEAN
      BY <1>4, <2>2
    <2>5. SetsUp(2)'
      BY <2>2, <2>3 DEF SetsUp
    <2> QED
      BY <2>3, <2>4, <2>5
  <1>6. CASE k = 2
    <2>1. RunServerCommand("nat del")
      BY <1>3, <1>6, ServerCommands
    <2>2. forward' = forward /\ nat' = [nat EXCEPT ![nic] = 0] /\ track' = track
      BY <2>1, ServerEffects
    <2> QED
      BY <1>3, <1>4, <1>6, <2>2 DEF SetsUp
  <1>7. CASE k = 3
    <2>1. RunServerCommand("track del")
      BY <1>3, <1>7, ServerCommands
    <2>2. forward' = forward /\ nat' = nat /\ track' = 0
      BY <2>1, ServerEffects
    <2> QED
      BY <1>3, <1>4, <1>7, <2>2 DEF SetsUp
  <1>8. CASE k = 4
    <2>1. RunServerCommand("forward on")
      BY <1>3, <1>8, ServerCommands
    <2>2. forward' = TRUE /\ nat' = nat /\ track' = track
      BY <2>1, ServerEffects
    <2> QED
      BY <1>3, <1>4, <1>8, <2>2 DEF SetsUp
  <1>9. CASE k = 5
    <2>1. RunServerCommand("nat add")
      BY <1>3, <1>9, ServerCommands
    <2>2. forward' = forward /\ nat' = [nat EXCEPT ![nic] = @ + 1] /\ track' = track
      BY <2>1, ServerEffects
    <2> QED
      BY <1>3, <1>4, <1>9, <2>2 DEF SetsUp
  <1>10. CASE k = 6
    <2>1. RunServerCommand("track add")
      BY <1>3, <1>10, ServerCommands
    <2>2. forward' = forward /\ nat' = nat /\ track' = track + 1
      BY <2>1, ServerEffects
    <2> QED
      BY <1>3, <1>4, <1>10, <2>2 DEF SetsUp
  <1> QED
    BY <1>2, <1>5, <1>6, <1>7, <1>8, <1>9, <1>10

LEMMA TearsDownStep ==
  ASSUME NetTypes, ServerCommand, NEW k \in 1..4, TearsDown(k), UNCHANGED nic
  PROVE  /\ k + 1 \in 1..4 /\ TearsDown(k + 1)'
         /\ nat' \in [Nics -> {0, 1}] /\ track' \in {0, 1} /\ forward' \in BOOLEAN
  <1>1. k # 4 /\ script # <<>>
    BY Scripts DEF ServerCommand, TearsDown, ScriptOf
  <1>2. k \in 1..3
    BY <1>1
  <1>3. RunServerCommand(Command(TeardownServer, k)) /\ script' = Left(TeardownServer, k + 1)
    BY <1>2, Scripts DEF ServerCommand, TearsDown, ScriptOf
  <1>4. nat \in [Nics -> {0, 1}] /\ nic \in Nics /\ track \in {0, 1} /\ forward \in BOOLEAN
    BY DEF NetTypes
  <1>5. CASE k = 1
    <2>1. RunServerCommand("forward off")
      BY <1>3, <1>5, ServerCommands
    <2>2. forward' = FALSE /\ nat' = nat /\ track' = track
      BY <2>1, ServerEffects
    <2>3. k + 1 = 2 /\ script' = Left(TeardownServer, 2)
      BY <1>3, <1>5
    <2>4. nat' \in [Nics -> {0, 1}] /\ track' \in {0, 1} /\ forward' \in BOOLEAN
      BY <1>4, <2>2
    <2>5. TearsDown(2)'
      BY <2>2, <2>3 DEF TearsDown
    <2> QED
      BY <2>3, <2>4, <2>5
  <1>6. CASE k = 2
    <2>1. RunServerCommand("nat del")
      BY <1>3, <1>6, ServerCommands
    <2>2. forward' = forward /\ nat' = [nat EXCEPT ![nic] = 0] /\ track' = track
      BY <2>1, ServerEffects
    <2> QED
      BY <1>3, <1>4, <1>6, <2>2 DEF TearsDown
  <1>7. CASE k = 3
    <2>1. RunServerCommand("track del")
      BY <1>3, <1>7, ServerCommands
    <2>2. forward' = forward /\ nat' = nat /\ track' = 0
      BY <2>1, ServerEffects
    <2> QED
      BY <1>3, <1>4, <1>7, <2>2 DEF TearsDown
  <1> QED
    BY <1>2, <1>5, <1>6, <1>7

LEMMA ServerCommandStep ==
  ASSUME NetInv, ServerCommand
  PROVE  NetInv'
  <1>1. /\ UNCHANGED <<taps, addrs, links, accept, phase, pool, nic, worker, todo, runs>>
        /\ NetTypes /\ ServerInv /\ \A i \in Ids : WorkerInv(i)
    BY DEF ServerCommand, RunServerCommand, NetInv
  <1>2. ServerInv' /\ nat' \in [Nics -> {0, 1}] /\ track' \in {0, 1} /\ forward' \in BOOLEAN
    <2>1. CASE phase = "setup"
      <3>1. PICK k \in 1..7 : SetsUp(k)
        BY <1>1, <2>1 DEF ServerInv
      <3>2. /\ k + 1 \in 1..7 /\ SetsUp(k + 1)'
            /\ nat' \in [Nics -> {0, 1}] /\ track' \in {0, 1} /\ forward' \in BOOLEAN
        BY <1>1, <3>1, SetsUpStep
      <3> QED
        BY <1>1, <2>1, <3>2 DEF ServerInv
    <2>2. CASE phase = "teardown"
      <3>1. PICK k \in 1..4 : TearsDown(k)
        BY <1>1, <2>2 DEF ServerInv
      <3>2. /\ k + 1 \in 1..4 /\ TearsDown(k + 1)'
            /\ nat' \in [Nics -> {0, 1}] /\ track' \in {0, 1} /\ forward' \in BOOLEAN
        BY <1>1, <3>1, TearsDownStep
      <3> QED
        BY <1>1, <2>2, <3>2 DEF ServerInv
    <2> QED
      BY <1>1, <2>1, <2>2 DEF ServerInv, ServerCommand
  <1>3. NetTypes'
    BY <1>1, <1>2 DEF NetTypes, DeviceTypes
  <1>4. ASSUME NEW i \in Ids PROVE WorkerInv(i)'
    BY <1>1 DEF WorkerInv, Connected, Creates, Destroys
  <1> QED
    BY <1>2, <1>3, <1>4 DEF NetInv

(* What one command of a worker does to its device and rule. *)
LEMMA VmEffects ==
  ASSUME NetTypes, NEW j \in Ids
  PROVE  /\ RunVmCommand("link del", j) =>
              taps' = taps \ {j} /\ addrs' = addrs \ {j} /\ links' = links \ {j} /\ accept' = accept
         /\ RunVmCommand("accept del", j) =>
              UNCHANGED <<taps, addrs, links>> /\ accept' = [accept EXCEPT ![j][nic] = 0]
         /\ RunVmCommand("tap add", j) =>
              taps' = taps \cup {j} /\ UNCHANGED <<addrs, links, accept>>
         /\ RunVmCommand("addr add", j) =>
              addrs' = addrs \cup {j} /\ UNCHANGED <<taps, links, accept>>
         /\ RunVmCommand("link up", j) =>
              links' = links \cup {j} /\ UNCHANGED <<taps, addrs, accept>>
         /\ RunVmCommand("accept add", j) =>
              UNCHANGED <<taps, addrs, links>> /\ accept' = [accept EXCEPT ![j][nic] = @ + 1]
  <1>0. accept \in [Ids -> [Nics -> {0, 1}]] /\ nic \in Nics
    BY DEF NetTypes, DeviceTypes
  <1> USE DEF RunVmCommand
  <1>1. ASSUME RunVmCommand("link del", j)
        PROVE  taps' = taps \ {j} /\ addrs' = addrs \ {j} /\ links' = links \ {j} /\ accept' = accept
    BY <1>1
  <1>2. ASSUME RunVmCommand("accept del", j)
        PROVE  UNCHANGED <<taps, addrs, links>> /\ accept' = [accept EXCEPT ![j][nic] = 0]
    <2>1. DeleteOne(accept[j][nic]) = 0
      BY <1>0 DEF DeleteOne
    <2> QED
      BY <1>2, <2>1
  <1>3. ASSUME RunVmCommand("tap add", j)
        PROVE  taps' = taps \cup {j} /\ UNCHANGED <<addrs, links, accept>>
    BY <1>3
  <1>4. ASSUME RunVmCommand("addr add", j)
        PROVE  addrs' = addrs \cup {j} /\ UNCHANGED <<taps, links, accept>>
    BY <1>4
  <1>5. ASSUME RunVmCommand("link up", j)
        PROVE  links' = links \cup {j} /\ UNCHANGED <<taps, addrs, accept>>
    BY <1>5
  <1>6. ASSUME RunVmCommand("accept add", j)
        PROVE  UNCHANGED <<taps, addrs, links>> /\ accept' = [accept EXCEPT ![j][nic] = @ + 1]
    BY <1>6
  <1> QED
    BY <1>1, <1>2, <1>3, <1>4, <1>5, <1>6

LEMMA CreatesStep ==
  ASSUME NetTypes, NEW j \in Ids, VmCommand(j), worker[j] = "creating",
         NEW k \in 1..6, Creates(j, k), UNCHANGED nic
  PROVE  /\ k < 6 => worker'[j] = "creating" /\ Creates(j, k + 1)'
         /\ k = 6 => worker'[j] = "up" /\ todo'[j] = <<>> /\ Connected(j)'
         /\ DeviceTypes'
  <1>1. /\ RunVmCommand(Command(SetupVm, k), j) /\ todo'[j] = Left(SetupVm, k + 1)
        /\ Len(todo[j]) = 7 - k
    <2>0. ScriptOf(SetupVm, 6) /\ todo[j] = Left(SetupVm, k)
      BY Scripts DEF Creates
    <2>1. /\ Head(todo[j]) = Command(SetupVm, k) /\ Tail(todo[j]) = Left(SetupVm, k + 1)
          /\ Len(todo[j]) = 6 + 1 - k
      BY <2>0 DEF ScriptOf
    <2>2. RunVmCommand(Head(todo[j]), j) /\ todo'[j] = Tail(todo[j])
      BY DEF VmCommand, NetTypes
    <2> QED
      BY <2>1, <2>2
  <1>2. worker'[j] = IF Len(todo[j]) > 1 THEN "creating" ELSE "up"
    BY DEF VmCommand, NetTypes
  <1>3. /\ k < 6 => worker'[j] = "creating"
        /\ k = 6 => worker'[j] = "up" /\ todo'[j] = <<>>
    BY <1>1, <1>2, Scripts DEF ScriptOf
  <1>4. /\ taps \subseteq Ids /\ addrs \subseteq Ids /\ links \subseteq Ids
        /\ accept \in [Ids -> [Nics -> {0, 1}]] /\ nic \in Nics
    BY DEF NetTypes, DeviceTypes
  <1>5. CASE k = 1
    <2>1. RunVmCommand("link del", j)
      BY <1>1, <1>5, VmCommands
    <2>2. taps' = taps \ {j} /\ addrs' = addrs \ {j} /\ links' = links \ {j} /\ accept' = accept
      BY <2>1, VmEffects
    <2>3. DeviceTypes'
      BY <2>2, <1>4, <1>5 DEF Creates, DeviceTypes
    <2>4. k + 1 = 2 /\ todo'[j] = Left(SetupVm, 2)
      BY <1>1, <1>5
    <2>5. Creates(j, 2)'
      BY <2>2, <2>4, <1>4, <1>5 DEF Creates
    <2> QED
      BY <2>3, <2>4, <2>5, <1>3, <1>5
  <1>6. CASE k = 2
    <2>1. RunVmCommand("accept del", j)
      BY <1>1, <1>6, VmCommands
    <2>2. UNCHANGED <<taps, addrs, links>> /\ accept' = [accept EXCEPT ![j][nic] = 0]
      BY <2>1, VmEffects
    <2>3. DeviceTypes'
      BY <2>2, <1>4, <1>6 DEF Creates, DeviceTypes
    <2>4. k + 1 = 3 /\ todo'[j] = Left(SetupVm, 3)
      BY <1>1, <1>6
    <2>5. Creates(j, 3)'
      BY <2>2, <2>4, <1>4, <1>6 DEF Creates
    <2> QED
      BY <2>3, <2>4, <2>5, <1>3, <1>6
  <1>7. CASE k = 3
    <2>1. RunVmCommand("tap add", j)
      BY <1>1, <1>7, VmCommands
    <2>2. taps' = taps \cup {j} /\ UNCHANGED <<addrs, links, accept>>
      BY <2>1, VmEffects
    <2>3. DeviceTypes'
      BY <2>2, <1>4, <1>7 DEF Creates, DeviceTypes
    <2>4. k + 1 = 4 /\ todo'[j] = Left(SetupVm, 4)
      BY <1>1, <1>7
    <2>5. Creates(j, 4)'
      BY <2>2, <2>4, <1>4, <1>7 DEF Creates
    <2> QED
      BY <2>3, <2>4, <2>5, <1>3, <1>7
  <1>8. CASE k = 4
    <2>1. RunVmCommand("addr add", j)
      BY <1>1, <1>8, VmCommands
    <2>2. addrs' = addrs \cup {j} /\ UNCHANGED <<taps, links, accept>>
      BY <2>1, VmEffects
    <2>3. DeviceTypes'
      BY <2>2, <1>4, <1>8 DEF Creates, DeviceTypes
    <2>4. k + 1 = 5 /\ todo'[j] = Left(SetupVm, 5)
      BY <1>1, <1>8
    <2>5. Creates(j, 5)'
      BY <2>2, <2>4, <1>4, <1>8 DEF Creates
    <2> QED
      BY <2>3, <2>4, <2>5, <1>3, <1>8
  <1>9. CASE k = 5
    <2>1. RunVmCommand("link up", j)
      BY <1>1, <1>9, VmCommands
    <2>2. links' = links \cup {j} /\ UNCHANGED <<taps, addrs, accept>>
      BY <2>1, VmEffects
    <2>3. DeviceTypes'
      BY <2>2, <1>4, <1>9 DEF Creates, DeviceTypes
    <2>4. k + 1 = 6 /\ todo'[j] = Left(SetupVm, 6)
      BY <1>1, <1>9
    <2>5. Creates(j, 6)'
      BY <2>2, <2>4, <1>4, <1>9 DEF Creates
    <2> QED
      BY <2>3, <2>4, <2>5, <1>3, <1>9
  <1>10. CASE k = 6
    <2>1. RunVmCommand("accept add", j)
      BY <1>1, <1>10, VmCommands
    <2>2. UNCHANGED <<taps, addrs, links>> /\ accept' = [accept EXCEPT ![j][nic] = @ + 1]
      BY <2>1, VmEffects
    <2>3. DeviceTypes'
      BY <2>2, <1>4, <1>10 DEF Creates, DeviceTypes
    <2>4. Connected(j)'
      BY <2>2, <1>4, <1>10 DEF Creates, Connected
    <2> QED
      BY <2>3, <2>4, <1>3, <1>10
  <1> QED
    BY <1>5, <1>6, <1>7, <1>8, <1>9, <1>10

LEMMA DestroysStep ==
  ASSUME NetTypes, NEW j \in Ids, VmCommand(j), worker[j] = "destroying",
         NEW k \in 1..2, Destroys(j, k), UNCHANGED nic
  PROVE  /\ k < 2 => worker'[j] = "destroying" /\ Destroys(j, k + 1)'
         /\ k = 2 => worker'[j] = "gone" /\ todo'[j] = <<>> /\ j \notin taps' /\ accept'[j][nic] = 0
         /\ DeviceTypes'
  <1>1. /\ RunVmCommand(Command(TeardownVm, k), j) /\ todo'[j] = Left(TeardownVm, k + 1)
        /\ Len(todo[j]) = 3 - k
    <2>0. ScriptOf(TeardownVm, 2) /\ todo[j] = Left(TeardownVm, k)
      BY Scripts DEF Destroys
    <2>1. /\ Head(todo[j]) = Command(TeardownVm, k) /\ Tail(todo[j]) = Left(TeardownVm, k + 1)
          /\ Len(todo[j]) = 2 + 1 - k
      BY <2>0 DEF ScriptOf
    <2>2. RunVmCommand(Head(todo[j]), j) /\ todo'[j] = Tail(todo[j])
      BY DEF VmCommand, NetTypes
    <2> QED
      BY <2>1, <2>2
  <1>2. worker'[j] = IF Len(todo[j]) > 1 THEN "destroying" ELSE "gone"
    BY DEF VmCommand, NetTypes
  <1>3. /\ k < 2 => worker'[j] = "destroying"
        /\ k = 2 => worker'[j] = "gone" /\ todo'[j] = <<>>
    BY <1>1, <1>2, Scripts DEF ScriptOf
  <1>4. /\ taps \subseteq Ids /\ addrs \subseteq Ids /\ links \subseteq Ids
        /\ accept \in [Ids -> [Nics -> {0, 1}]] /\ nic \in Nics
    BY DEF NetTypes, DeviceTypes
  <1>5. CASE k = 1
    <2>1. RunVmCommand("link del", j)
      BY <1>1, <1>5, VmCommands
    <2>2. taps' = taps \ {j} /\ addrs' = addrs \ {j} /\ links' = links \ {j} /\ accept' = accept
      BY <2>1, VmEffects
    <2>3. DeviceTypes'
      BY <2>2, <1>4, <1>5 DEF Destroys, DeviceTypes
    <2>4. k + 1 = 2 /\ todo'[j] = Left(TeardownVm, 2)
      BY <1>1, <1>5
    <2>5. Destroys(j, 2)'
      BY <2>2, <2>4, <1>4, <1>5 DEF Destroys
    <2> QED
      BY <2>3, <2>4, <2>5, <1>3, <1>5
  <1>6. CASE k = 2
    <2>1. RunVmCommand("accept del", j)
      BY <1>1, <1>6, VmCommands
    <2>2. UNCHANGED <<taps, addrs, links>> /\ accept' = [accept EXCEPT ![j][nic] = 0]
      BY <2>1, VmEffects
    <2>3. DeviceTypes'
      BY <2>2, <1>4, <1>6 DEF Destroys, DeviceTypes
    <2> QED
      BY <2>2, <2>3, <1>3, <1>4, <1>6 DEF Destroys
  <1> QED
    BY <1>5, <1>6

LEMMA VmCommandStep ==
  ASSUME NetInv, NEW j \in Ids, VmCommand(j)
  PROVE  NetInv'
  <1>1. /\ UNCHANGED <<nat, track, forward, phase, pool, nic, script, runs>>
        /\ NetTypes /\ ServerInv /\ \A i \in Ids : WorkerInv(i)
    BY DEF VmCommand, RunVmCommand, NetInv
  <1>2. worker[j] \in {"creating", "destroying"} /\ DOMAIN todo' = Ids
    BY <1>1 DEF VmCommand, WorkerInv, NetTypes
  <1>3. ASSUME NEW i \in Ids, i # j
        PROVE  /\ worker'[i] = worker[i] /\ todo'[i] = todo[i]
               /\ i \in taps' <=> i \in taps
               /\ i \in addrs' <=> i \in addrs
               /\ i \in links' <=> i \in links
               /\ accept'[i] = accept[i]
    <2>1. RunVmCommand(Head(todo[j]), j) /\ worker'[i] = worker[i] /\ todo'[i] = todo[i]
      BY <1>1, <1>3 DEF VmCommand, NetTypes
    <2>2. taps' \in {taps, taps \ {j}, taps \cup {j}}
      BY <2>1 DEF RunVmCommand
    <2>3. addrs' \in {addrs, addrs \ {j}, addrs \cup {j}}
      BY <2>1 DEF RunVmCommand
    <2>4. links' \in {links, links \ {j}, links \cup {j}}
      BY <2>1 DEF RunVmCommand
    <2>5. accept'[i] = accept[i]
      BY <2>1, <1>1, <1>3 DEF RunVmCommand, NetTypes, DeviceTypes
    <2> QED
      BY <2>1, <2>2, <2>3, <2>4, <2>5, <1>3
  <1>4. ASSUME NEW i \in Ids, i # j PROVE WorkerInv(i)'
    BY <1>1, <1>3, <1>4 DEF WorkerInv, Connected, Creates, Destroys
  <1>5. /\ DeviceTypes'
        /\ worker'[j] \in WorkerStates /\ WorkerInv(j)'
    <2>1. CASE worker[j] = "creating"
      <3>1. PICK k \in 1..6 : Creates(j, k)
        BY <1>1, <2>1 DEF WorkerInv
      <3>2. /\ DeviceTypes'
            /\ k < 6 => worker'[j] = "creating" /\ Creates(j, k + 1)'
            /\ k = 6 => worker'[j] = "up" /\ todo'[j] = <<>> /\ Connected(j)'
        BY <1>1, <2>1, <3>1, CreatesStep
      <3>3. CASE k < 6
        <4>1. k + 1 \in 1..6
          BY <3>3
        <4> QED
          BY <1>1, <2>1, <3>2, <3>3, <4>1 DEF WorkerInv, WorkerStates
      <3>4. CASE k = 6
        BY <1>1, <2>1, <3>1, <3>2, <3>4 DEF WorkerInv, WorkerStates
      <3> QED
        BY <3>3, <3>4
    <2>2. CASE worker[j] = "destroying"
      <3>1. PICK k \in 1..2 : Destroys(j, k)
        BY <1>1, <2>2 DEF WorkerInv
      <3>2. /\ DeviceTypes'
            /\ k < 2 => worker'[j] = "destroying" /\ Destroys(j, k + 1)'
            /\ k = 2 => worker'[j] = "gone" /\ todo'[j] = <<>> /\ j \notin taps' /\ accept'[j][nic] = 0
        BY <1>1, <2>2, <3>1, DestroysStep
      <3>3. CASE k < 2
        <4>1. k + 1 \in 1..2
          BY <3>3
        <4> QED
          BY <1>1, <2>2, <3>2, <3>3, <4>1 DEF WorkerInv, WorkerStates
      <3>4. CASE k = 2
        BY <1>1, <2>2, <3>2, <3>4 DEF WorkerInv, WorkerStates
      <3> QED
        BY <3>3, <3>4
    <2> QED
      BY <1>2, <2>1, <2>2
  <1>6. worker' \in [Ids -> WorkerStates]
    <2>1. PICK v : worker' = [worker EXCEPT ![j] = v]
      BY DEF VmCommand
    <2>2. worker \in [Ids -> WorkerStates] /\ worker'[j] = v
      BY <1>1, <2>1 DEF NetTypes
    <2> QED
      BY <1>5, <2>1, <2>2
  <1>7. NetTypes'
    BY <1>1, <1>2, <1>5, <1>6 DEF NetTypes
  <1>8. ServerInv'
    BY <1>1 DEF ServerInv, SetsUp, TearsDown
  <1> QED
    BY <1>4, <1>5, <1>7, <1>8 DEF NetInv

LEMMA NetStep == NetInv /\ [Next]_vars => NetInv'
  <1> SUFFICES ASSUME NetInv, [Next]_vars PROVE NetInv'
    OBVIOUS
  <1>t. NetTypes /\ ServerInv /\ \A i \in Ids : WorkerInv(i)
    BY DEF NetInv
  <1> USE DEF host, DeviceTypes, Connected
  <1>1. CASE UNCHANGED vars
    BY <1>1, <1>t DEF vars, NetInv, NetTypes, DeviceTypes, ServerInv, WorkerInv, Connected, Creates, Destroys, SetsUp, TearsDown
  <1>2. ASSUME NEW n, Start(n) PROVE NetInv'
    <2>1. NetTypes'
      BY <1>2, <1>t, NetworkAssumption DEF Start, NetTypes, Phases, WorkerStates
    <2>2. ServerInv'
      BY <1>2, <1>t, Scripts DEF Start, ServerInv, SetsUp, ScriptOf, NetTypes
    <2>3. ASSUME NEW i \in Ids PROVE WorkerInv(i)'
      BY <1>2, <1>t DEF Start, WorkerInv, NetTypes, WorkerStates
    <2> QED
      BY <2>1, <2>2, <2>3 DEF NetInv
  <1>3. CASE ServerCommand
    BY <1>3, <1>t, ServerCommandStep DEF NetInv
  <1>4. CASE Spawn
    <2>1. NetTypes'
      BY <1>4, <1>t DEF Spawn, NetTypes, Phases, WorkerStates
    <2>2. ServerInv'
      BY <1>4, <1>t, Scripts DEF Spawn, ServerInv, SetsUp, ScriptOf
    <2>3. ASSUME NEW i \in Ids PROVE WorkerInv(i)'
      BY <1>4, <1>t, Scripts DEF Spawn, WorkerInv, Creates, ScriptOf, NetTypes
    <2> QED
      BY <2>1, <2>2, <2>3 DEF NetInv
  <1>5. CASE ServerReady
    <2>1. NetTypes' /\ ServerInv'
      BY <1>5, <1>t DEF ServerReady, NetTypes, Phases, ServerInv
    <2>3. ASSUME NEW i \in Ids PROVE WorkerInv(i)'
      BY <1>5, <1>t DEF ServerReady, WorkerInv
    <2> QED
      BY <2>1, <2>3 DEF NetInv
  <1>6. CASE Cancel
    <2>1. NetTypes' /\ ServerInv'
      BY <1>6, <1>t DEF Cancel, NetTypes, Phases, WorkerStates, ServerInv
    <2>3. ASSUME NEW i \in Ids PROVE WorkerInv(i)'
      BY <1>6, <1>t, Scripts DEF Cancel, WorkerInv, Destroys, ScriptOf, NetTypes
    <2> QED
      BY <2>1, <2>3 DEF NetInv
  <1>7. CASE WorkersDone
    <2>1. NetTypes'
      BY <1>7, <1>t DEF WorkersDone, NetTypes, Phases
    <2>2. ServerInv'
      <3>1. TearsDown(1)'
        BY <1>7, Scripts DEF WorkersDone, TearsDown, ScriptOf
      <3> QED
        BY <1>7, <3>1 DEF WorkersDone, ServerInv
    <2>3. ASSUME NEW i \in Ids PROVE WorkerInv(i)'
      BY <1>7, <1>t DEF WorkersDone, WorkerInv, Creates, Destroys
    <2> QED
      BY <2>1, <2>2, <2>3 DEF NetInv
  <1>8. CASE Exit
    <2>1. NetTypes'
      BY <1>8, <1>t DEF Exit, NetTypes, Phases
    <2>2. ServerInv'
      <3>1. PICK k \in 1..4 : TearsDown(k)
        BY <1>8, <1>t DEF Exit, ServerInv
      <3>2. k = 4
        <4>1. k \notin 1..3
          BY <1>8, <3>1, Scripts DEF Exit, TearsDown, ScriptOf
        <4> QED
          BY <4>1
      <3> QED
        BY <1>8, <3>1, <3>2 DEF Exit, ServerInv, TearsDown
    <2>3. ASSUME NEW i \in Ids PROVE WorkerInv(i)'
      BY <1>8, <1>t DEF Exit, WorkerInv, Creates, Destroys
    <2> QED
      BY <2>1, <2>2, <2>3 DEF NetInv
  <1>9. CASE Crash
    <2>1. NetTypes' /\ ServerInv'
      BY <1>9, <1>t DEF Crash, NetTypes, Phases, WorkerStates, ServerInv
    <2>3. ASSUME NEW i \in Ids PROVE WorkerInv(i)'
      BY <1>9, <1>t DEF Crash, WorkerInv, NetTypes
    <2> QED
      BY <2>1, <2>3 DEF NetInv
  <1>10. ASSUME NEW j \in Ids, Panic(j) PROVE NetInv'
    <2>1. NetTypes' /\ ServerInv'
      BY <1>10, <1>t DEF Panic, NetTypes, WorkerStates, ServerInv, SetsUp, TearsDown
    <2>3. ASSUME NEW i \in Ids PROVE WorkerInv(i)'
      BY <1>10, <1>t DEF Panic, WorkerInv, Creates, Destroys, NetTypes
    <2> QED
      BY <2>1, <2>3 DEF NetInv
  <1>11. ASSUME NEW j \in Ids, Retry(j) PROVE NetInv'
    <2>1. NetTypes' /\ ServerInv'
      BY <1>11, <1>t DEF Retry, NetTypes, WorkerStates, ServerInv, SetsUp, TearsDown
    <2>3. ASSUME NEW i \in Ids PROVE WorkerInv(i)'
      <3>1. CASE i = j
        <4>1. worker'[i] = "creating" /\ todo'[i] = SetupVm /\ phase' = "creating" /\ i \in pool'
          BY <1>11, <1>t, <3>1 DEF Retry, WorkerInv, NetTypes
        <4>2. Creates(i, 1)'
          BY <4>1, Scripts DEF Creates, ScriptOf
        <4> QED
          BY <4>1, <4>2 DEF WorkerInv
      <3>2. CASE i # j
        BY <1>11, <1>t, <3>2 DEF Retry, WorkerInv, Creates, Destroys, NetTypes
      <3> QED
        BY <3>1, <3>2
    <2> QED
      BY <2>1, <2>3 DEF NetInv
  <1>12. ASSUME NEW j \in Ids, VmCommand(j) PROVE NetInv'
    BY <1>12, <1>t, VmCommandStep DEF NetInv
  <1> QED
    BY <1>1, <1>2, <1>3, <1>4, <1>5, <1>6, <1>7, <1>8, <1>9, <1>10, <1>11, <1>12 DEF Next

-------------------------------------------------------------------------------
(* The inductive invariant holds however often the frontend is killed. *)
THEOREM NetInvariant == Spec => []NetInv
  BY NetInit, NetStep, PTL DEF Spec

(* Types, and the lengths of the scripts. *)
THEOREM NetTypeCorrect == Spec => []TypeOK
  <1>1. NetInv => TypeOK
    <2> SUFFICES ASSUME NetInv PROVE TypeOK
      OBVIOUS
    <2>1. Len(SetupVm) = 6 /\ Len(SetupServer) = 6 /\ Len(<<>>) = 0
      BY VmScripts, ServerScripts
    <2>2. ASSUME NEW i \in Ids PROVE Len(todo[i]) <= 6
      <3>1. CASE worker[i] = "creating"
        <4>1. PICK k \in 1..6 : todo[i] = Left(SetupVm, k)
          BY <3>1 DEF NetInv, WorkerInv, Creates
        <4>2. Len(todo[i]) = 6 + 1 - k
          BY <4>1, Scripts DEF ScriptOf
        <4> QED
          BY <4>2
      <3>2. CASE worker[i] = "destroying"
        <4>1. PICK k \in 1..2 : todo[i] = Left(TeardownVm, k)
          BY <3>2 DEF NetInv, WorkerInv, Destroys
        <4>2. Len(todo[i]) = 2 + 1 - k
          BY <4>1, Scripts DEF ScriptOf
        <4> QED
          BY <4>2
      <3>3. CASE worker[i] \notin {"creating", "destroying"}
        BY <3>3, <2>1 DEF NetInv, WorkerInv
      <3> QED
        BY <3>1, <3>2, <3>3
    <2>3. Len(script) <= 6
      <3>1. CASE phase = "setup"
        <4>1. PICK k \in 1..7 : script = Left(SetupServer, k)
          BY <3>1 DEF NetInv, ServerInv, SetsUp
        <4>2. k \in 1..6 => Len(script) = 6 + 1 - k
          BY <4>1, Scripts DEF ScriptOf
        <4>3. k = 7 => Len(script) = 0
          BY <4>1, <2>1, Scripts DEF ScriptOf
        <4> QED
          BY <4>2, <4>3
      <3>2. CASE phase = "teardown"
        <4>1. PICK k \in 1..4 : script = Left(TeardownServer, k)
          BY <3>2 DEF NetInv, ServerInv, TearsDown
        <4>2. k \in 1..3 => Len(script) = 3 + 1 - k
          BY <4>1, Scripts DEF ScriptOf
        <4>3. k = 4 => Len(script) = 0
          BY <4>1, <2>1, Scripts DEF ScriptOf
        <4> QED
          BY <4>2, <4>3
      <3>3. CASE phase \notin {"setup", "teardown"}
        BY <3>3, <2>1 DEF NetInv, ServerInv
      <3> QED
        BY <3>1, <3>2, <3>3
    <2>4. NetTypes
      BY DEF NetInv
    <2>5. accept \in [Ids -> [Nics -> Nat]] /\ nat \in [Nics -> Nat] /\ track \in Nat
      BY <2>4 DEF NetTypes, DeviceTypes
    <2>6. /\ taps \subseteq Ids /\ addrs \subseteq Ids /\ links \subseteq Ids
          /\ forward \in BOOLEAN /\ phase \in Phases /\ pool \subseteq Ids
          /\ nic \in Nics /\ worker \in [Ids -> WorkerStates] /\ runs \in 0..MaxRuns
      BY <2>4 DEF NetTypes, DeviceTypes
    <2> QED
      BY <2>1, <2>2, <2>3, <2>5, <2>6 DEF TypeOK
  <1> QED
    BY <1>1, NetInvariant, PTL

(* No kill, restart, retry or change of device makes a rule exist twice. *)
THEOREM RulesExistOnce == Spec => []RulesNeverPileUp
  <1>1. NetInv => RulesNeverPileUp
    BY DEF NetInv, NetTypes, DeviceTypes, RulesNeverPileUp
  <1> QED
    BY <1>1, NetInvariant, PTL

(* No checked command of a worker's setup meets a tap or an address that is *)
(* there, or misses one: the unchecked delete comes first, and the commands *)
(* build on one another, whoever left what behind.                          *)
THEOREM SetupsSucceed == Spec => []SetupSucceeds
  <1>1. NetInv => SetupSucceeds
    <2> SUFFICES ASSUME NetInv, NEW i \in Ids, todo[i] # <<>>, Fails(i)
                 PROVE  FALSE
      BY DEF SetupSucceeds
    <2>1. WorkerInv(i)
      BY DEF NetInv
    <2>2. CASE worker[i] = "creating"
      <3>1. PICK k \in 1..6 : Creates(i, k)
        BY <2>1, <2>2 DEF WorkerInv
      <3>2. Head(todo[i]) = Command(SetupVm, k)
        BY <3>1, Scripts DEF Creates, ScriptOf
      <3>3. CASE Head(todo[i]) = "tap add" /\ i \in taps
        <4>0. Command(SetupVm, k) = "tap add"
          BY <3>2, <3>3
        <4>1. k = 3
          BY <4>0, CheckedCommands
        <4> QED
          BY <3>1, <3>3, <4>1 DEF Creates
      <3>4. CASE Head(todo[i]) = "addr add" /\ (i \notin taps \/ i \in addrs)
        <4>0. Command(SetupVm, k) = "addr add"
          BY <3>2, <3>4
        <4>1. k = 4
          BY <4>0, CheckedCommands
        <4> QED
          BY <3>1, <3>4, <4>1 DEF Creates
      <3>5. CASE Head(todo[i]) = "link up" /\ i \notin taps
        <4>0. Command(SetupVm, k) = "link up"
          BY <3>2, <3>5
        <4>1. k = 5
          BY <4>0, CheckedCommands
        <4> QED
          BY <3>1, <3>5, <4>1 DEF Creates
      <3> QED
        BY <3>3, <3>4, <3>5 DEF Fails
    <2>3. CASE worker[i] = "destroying"
      <3>1. PICK k \in 1..2 : Destroys(i, k)
        BY <2>1, <2>3 DEF WorkerInv
      <3>2. Head(todo[i]) = Command(TeardownVm, k)
        BY <3>1, Scripts DEF Destroys, ScriptOf
      <3>3. Head(todo[i]) \in {"tap add", "addr add", "link up"}
        BY DEF Fails
      <3> QED
        BY <3>2, <3>3, CheckedCommands
    <2> QED
      BY <2>1, <2>2, <2>3 DEF WorkerInv
  <1> QED
    BY <1>1, NetInvariant, PTL

(* While the server serves, everything a worker that is up needs on the     *)
(* host is there.                                                           *)
THEOREM TrafficFlows == Spec => []ServedTrafficFlows
  <1>1. NetInv => ServedTrafficFlows
    BY DEF NetInv, WorkerInv, Connected, ServerInv, ServedTrafficFlows
  <1> QED
    BY <1>1, NetInvariant, PTL

(* A clean exit takes down what its own run set up. *)
THEOREM ExitsClean == Spec => []CleanExitLeavesNothing
  <1>1. NetInv => CleanExitLeavesNothing
    BY DEF NetInv, NetTypes, WorkerInv, ServerInv, CleanExitLeavesNothing
  <1> QED
    BY <1>1, NetInvariant, PTL

(* In a pool of at most as many machines as there are /30 networks, every   *)
(* guest finds its own id and host, and shares no address.                  *)
THEOREM GuestsRegister ==
  ASSUME Ids \subseteq 0..(MaxVms - 1)
  PROVE  Spec => []GuestsFindTheirHost
  <1>1. NetInv => GuestsFindTheirHost
    <2> SUFFICES ASSUME NetInv, NEW i \in taps PROVE
            /\ RegisteredId(get_vm_ip(i)) = i
            /\ RegisterHost(get_vm_ip(i)) = get_tap_ip(i)
            /\ \A j \in taps \ {i} :
                 /\ {get_vm_ip(i), get_tap_ip(i)} \cap {get_vm_ip(j), get_tap_ip(j)} = {}
                 /\ get_tap_mac(i) # get_tap_mac(j)
      BY DEF GuestsFindTheirHost
    <2>1. taps \subseteq 0..(MaxVms - 1)
      BY DEF NetInv, NetTypes, DeviceTypes
    <2>2. i \in 0..(MaxVms - 1) /\ i \in Nat
      BY <2>1 DEF MaxVms
    <2>3. RegisteredId(get_vm_ip(i)) = i /\ RegisterHost(get_vm_ip(i)) = get_tap_ip(i)
      BY <2>2, RegisteredIdIsVmId, RegistersWithOwnTap
    <2>4. ASSUME NEW j \in taps \ {i}
          PROVE  /\ {get_vm_ip(i), get_tap_ip(i)} \cap {get_vm_ip(j), get_tap_ip(j)} = {}
                 /\ get_tap_mac(i) # get_tap_mac(j)
      BY <2>1, <2>2, TapsDiffer
    <2> QED
      BY <2>3, <2>4
  <1> QED
    BY <1>1, NetInvariant, PTL
===============================================================================
