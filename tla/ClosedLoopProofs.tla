---------------------------- MODULE ClosedLoopProofs ----------------------------
(***************************************************************************)
(* Lemmas about the steps of ClosedLoop, for every number of requests in a *)
(* measurement, first number of clients and bound on the throughput.  The  *)
(* specification whose steps these are, and the theorems, are in           *)
(* ClientMain and ClientMainProofs.                                        *)
(***************************************************************************)
EXTENDS ClosedLoop, FiniteSetTheorems, SequenceTheorems, TLAPS

(* Clients that hold a claim.                                               *)
Busy == In("request") \cup In("panicked")

LEMMA LoopConstants ==
    /\ Measurements \in Nat \ {0} /\ MaxThroughput \in Nat \ {0}
    /\ FirstClients \in Nat /\ FirstClients >= 2
    /\ 1 \in Clients /\ FirstClients \in Clients
    /\ Clients \subseteq Nat \ {0}
  BY ClosedLoopAssumption DEF FirstClients, Clients

LEMMA ClientsFinite == \A S \in SUBSET Clients : IsFiniteSet(S) /\ Cardinality(S) \in Nat
  <1>1. IsFiniteSet(Clients)
    BY LoopConstants, FS_Interval DEF Clients
  <1> QED
    BY <1>1, FS_Subset, FS_CardinalityType

-------------------------------------------------------------------------------
(* One measurement.  Clients race on the counter; what is claimed is with a *)
(* client, in the channel or collected, and each claim beyond the last      *)
(* ends its client.  So the channel has room for every record that is yet   *)
(* to come (no client ends with "err"), the caller that waits for           *)
(* Measurements records gets as many and no more, and, since it joins the   *)
(* clients first, none of them is left.                                     *)
Places == {"none", "loop", "request", "ended", "err", "panicked"}
MeasureTypes ==
    /\ loop \in {"idle", "joining", "measured", "stats", "ok", "err"}
    /\ client_number \in Clients
    /\ request_counter \in Nat
    /\ client \in [Clients -> Places]
    /\ channel \in Nat /\ failed \in Nat /\ received \in Nat
    /\ joined \in 0..client_number
Spawn ==
    /\ \A c \in Clients : c > client_number => client[c] = "none"
    /\ \A c \in Clients : client[c] # "err"
JoinedEnded == \A c \in 1..joined : client[c] = "ended"
OneTooMany == request_counter = Claims + Cardinality(In("ended"))
FewFail == failed <= channel + received
MeasureInv ==
    MeasureTypes /\ Spawn /\ JoinedEnded /\ OneTooMany /\ ClaimsAccounted /\ FewFail
        /\ MeasurementComplete

LEMMA ClaimBounds ==
    ASSUME MeasureTypes, ClaimsAccounted
    PROVE  /\ Claims \in Nat /\ Claims <= Measurements /\ Claims <= request_counter
           /\ Cardinality(Busy) \in Nat /\ Cardinality(In("ended")) \in Nat
           /\ Claims = Cardinality(Busy) + channel + received
           /\ channel + received <= Measurements
  <1>1. Claims \in Nat /\ Claims <= Measurements /\ Claims <= request_counter
    BY LoopConstants DEF MeasureTypes, Claims
  <1>2. Cardinality(Busy) \in Nat /\ Cardinality(In("ended")) \in Nat
    <2>1. Busy \in SUBSET Clients /\ In("ended") \in SUBSET Clients
      BY DEF Busy, In
    <2> QED
      BY <2>1, ClientsFinite
  <1>3. Claims = Cardinality(Busy) + channel + received
    BY DEF ClaimsAccounted, Busy
  <1> QED
    BY <1>1, <1>2, <1>3, LoopConstants DEF MeasureTypes

(* A client that has work leaves room for its record.                       *)
LEMMA RoomForRecord ==
    ASSUME MeasureTypes, ClaimsAccounted, NEW c \in Clients, client[c] = "request"
    PROVE  channel < Measurements /\ Cardinality(Busy) >= 1
  <1>1. Busy \in SUBSET Clients /\ c \in Busy
    BY DEF Busy, In
  <1>2. Cardinality(Busy) # 0
    BY <1>1, ClientsFinite, FS_EmptySet
  <1> QED
    BY <1>2, ClaimBounds, LoopConstants DEF MeasureTypes

(* Nothing of an earlier measurement is left in a new one.                  *)
LEMMA StartsClean ==
    ASSUME NEW n \in Clients, StartMeasurement(n)
    PROVE  MeasureInv'
  <1>1. MeasureTypes'
    BY LoopConstants DEF StartMeasurement, Spawned, MeasureTypes, Places
  <1>2. Spawn' /\ JoinedEnded' /\ FewFail'
    BY LoopConstants DEF StartMeasurement, Spawned, Spawn, JoinedEnded, FewFail
  <1>3. In("ended")' = {} /\ Busy' = {}
    BY DEF StartMeasurement, Spawned, In, Busy
  <1>4. Cardinality({}) = 0
    BY FS_EmptySet
  <1>5. Claims' = 0
    BY LoopConstants DEF Claims, StartMeasurement
  <1>6. OneTooMany'
    BY <1>3, <1>4, <1>5 DEF OneTooMany, StartMeasurement
  <1>7. ClaimsAccounted'
    BY <1>3, <1>4, <1>5 DEF ClaimsAccounted, Busy, StartMeasurement
  <1>8. MeasurementComplete'
    BY DEF MeasurementComplete, StartMeasurement
  <1> QED
    BY <1>1, <1>2, <1>6, <1>7, <1>8 DEF MeasureInv

(* Once judged, no client has anything left to do.                          *)
LEMMA AllStill ==
    ASSUME MeasureInv, loop \in {"measured", "stats"}, NEW c \in Clients
    PROVE  client[c] \in {"ended", "none"}
  <1>1. CASE c \in Active
    BY <1>1 DEF MeasureInv, MeasurementComplete
  <1>2. CASE c \notin Active
    BY <1>2, LoopConstants DEF MeasureInv, Spawn, Active, MeasureTypes
  <1> QED
    BY <1>1, <1>2

LEMMA ClaimMeasures ==
    ASSUME MeasureInv, NEW c \in Clients, Claim(c)
    PROVE  MeasureInv'
  <1>t. /\ client \in [Clients -> Places] /\ client[c] = "loop"
        /\ request_counter \in Nat
        /\ UNCHANGED <<loop, channel, failed, joined, received, peakVars>>
    BY DEF MeasureInv, MeasureTypes, Claim
  <1>n. loop \notin {"measured", "stats"}
    BY <1>t, AllStill
  <1>p. client' = [client EXCEPT ![c] = IF Claimed THEN "request" ELSE "ended"]
    BY DEF Claim, Goto
  <1>o. \A d \in Clients : d # c => client'[d] = client[d]
    BY <1>t, <1>p
  <1>e. MeasureTypes /\ ClaimsAccounted /\ OneTooMany
    BY DEF MeasureInv
  <1>1. MeasureTypes'
    BY <1>t, <1>p DEF MeasureInv, MeasureTypes, Claim, Places, peakVars
  <1>2. Spawn'
    BY <1>t, <1>p, <1>o DEF MeasureInv, Spawn, peakVars, Places
  <1>3. JoinedEnded'
    <2>1. 1..joined \subseteq Clients
      BY LoopConstants DEF MeasureInv, MeasureTypes, Clients
    <2> QED
      BY <1>t, <1>o, <2>1 DEF MeasureInv, JoinedEnded
  <1>4. OneTooMany' /\ ClaimsAccounted'
    <2>1. CASE Claimed
      <3>1. client'[c] = "request"
        BY <1>t, <1>p, <2>1
      <3>2. In("ended")' = In("ended") /\ Busy' = Busy \cup {c} /\ c \notin Busy
        BY <1>t, <1>o, <3>1 DEF In, Busy
      <3>3. Claims' = Claims + 1 /\ request_counter' = request_counter + 1
        BY <1>t, <2>1, LoopConstants DEF Claim, Claimed, Claims
      <3>4. Cardinality(Busy') = Cardinality(Busy) + 1
        <4>1. Busy \in SUBSET Clients
          BY DEF Busy, In
        <4> QED
          BY <3>2, <4>1, ClientsFinite, FS_AddElement
      <3>5. Claims + 1 = (Cardinality(Busy) + 1) + channel + received
        BY <1>e, ClaimBounds DEF MeasureTypes
      <3>6. ClaimsAccounted'
        BY <1>t, <3>3, <3>4, <3>5 DEF ClaimsAccounted, Busy
      <3>7. request_counter + 1 = (Claims + 1) + Cardinality(In("ended"))
        BY <1>t, <1>e, ClaimBounds DEF OneTooMany
      <3> QED
        BY <3>2, <3>3, <3>6, <3>7 DEF OneTooMany
    <2>2. CASE ~Claimed
      <3>1. client'[c] = "ended"
        BY <1>t, <1>p, <2>2
      <3>2. Busy' = Busy /\ In("ended")' = In("ended") \cup {c} /\ c \notin In("ended")
        BY <1>t, <1>o, <3>1 DEF In, Busy
      <3>3. Claims' = Claims /\ request_counter' = request_counter + 1
        BY <1>t, <2>2, LoopConstants DEF Claim, Claimed, Claims
      <3>4. Cardinality(In("ended")') = Cardinality(In("ended")) + 1
        <4>1. In("ended") \in SUBSET Clients
          BY DEF In
        <4> QED
          BY <3>2, <4>1, ClientsFinite, FS_AddElement
      <3>5. ClaimsAccounted'
        BY <1>t, <1>e, <3>2, <3>3 DEF ClaimsAccounted, Busy
      <3>6. request_counter + 1 = Claims + (Cardinality(In("ended")) + 1)
        BY <1>t, <1>e, ClaimBounds DEF OneTooMany
      <3> QED
        BY <3>3, <3>4, <3>5, <3>6 DEF OneTooMany
    <2> QED
      BY <2>1, <2>2
  <1>5. FewFail' /\ MeasurementComplete'
    BY <1>t, <1>n DEF MeasureInv, FewFail, MeasurementComplete
  <1> QED
    BY <1>1, <1>2, <1>3, <1>4, <1>5 DEF MeasureInv

LEMMA FinishMeasures ==
    ASSUME MeasureInv, NEW c \in Clients, NEW error \in {0, 1}, Finish(c, error)
    PROVE  MeasureInv'
  <1>e. MeasureTypes /\ ClaimsAccounted /\ OneTooMany /\ Spawn
    BY DEF MeasureInv
  <1>t. /\ client \in [Clients -> Places] /\ client[c] = "request"
        /\ channel \in Nat /\ failed \in Nat /\ received \in Nat
        /\ UNCHANGED <<loop, request_counter, joined, received, peakVars>>
    BY <1>e DEF MeasureTypes, Finish
  <1>n. loop \notin {"measured", "stats"}
    BY <1>t, AllStill
  <1>r. channel < Measurements /\ Cardinality(Busy) >= 1
    BY <1>e, <1>t, RoomForRecord
  <1>p. /\ channel' = channel + 1 /\ failed' = failed + error
        /\ client' = [client EXCEPT ![c] = "loop"]
    BY <1>r DEF Finish, Goto
  <1>o. client'[c] = "loop" /\ \A d \in Clients : d # c => client'[d] = client[d]
    BY <1>t, <1>p
  <1>1. MeasureTypes'
    BY <1>e, <1>t, <1>p DEF MeasureTypes, Places, peakVars
  <1>2. Spawn'
    BY <1>e, <1>t, <1>o DEF Spawn, peakVars
  <1>3. JoinedEnded'
    <2>1. 1..joined \subseteq Clients
      BY LoopConstants DEF MeasureInv, MeasureTypes, Clients
    <2> QED
      BY <1>t, <1>o, <2>1 DEF MeasureInv, JoinedEnded
  <1>4. OneTooMany' /\ ClaimsAccounted'
    <2>1. In("ended")' = In("ended") /\ Busy' = Busy \ {c} /\ c \in Busy
      BY <1>t, <1>o DEF In, Busy
    <2>2. Claims' = Claims
      BY <1>t DEF Claims
    <2>3. Cardinality(Busy') = Cardinality(Busy) - 1
      <3>1. Busy \in SUBSET Clients
        BY DEF Busy, In
      <3> QED
        BY <2>1, <3>1, ClientsFinite, FS_RemoveElement
    <2>4. Claims = (Cardinality(Busy) - 1) + (channel + 1) + received
      BY <1>e, <1>t, ClaimBounds
    <2>5. ClaimsAccounted'
      BY <1>t, <1>p, <2>2, <2>3, <2>4 DEF ClaimsAccounted, Busy
    <2> QED
      BY <1>e, <1>t, <2>1, <2>2, <2>5 DEF OneTooMany
  <1>5. FewFail'
    BY <1>t, <1>p DEF MeasureInv, FewFail
  <1>6. MeasurementComplete'
    BY <1>t, <1>n DEF MeasurementComplete
  <1> QED
    BY <1>1, <1>2, <1>3, <1>4, <1>5, <1>6 DEF MeasureInv

LEMMA PanicMeasures ==
    ASSUME MeasureInv, NEW c \in Clients, ClientPanics(c)
    PROVE  MeasureInv'
  <1>e. MeasureTypes /\ ClaimsAccounted /\ OneTooMany /\ Spawn
    BY DEF MeasureInv
  <1>t. /\ client \in [Clients -> Places] /\ client[c] = "request"
        /\ UNCHANGED <<loop, request_counter, channel, failed, joined, received, peakVars>>
    BY <1>e DEF MeasureTypes, ClientPanics
  <1>n. loop \notin {"measured", "stats"}
    BY <1>t, AllStill
  <1>p. client' = [client EXCEPT ![c] = "panicked"]
    BY DEF ClientPanics, Goto
  <1>o. client'[c] = "panicked" /\ \A d \in Clients : d # c => client'[d] = client[d]
    BY <1>t, <1>p
  <1>1. MeasureTypes'
    BY <1>e, <1>t, <1>p DEF MeasureTypes, Places, peakVars
  <1>2. Spawn'
    BY <1>e, <1>t, <1>o DEF Spawn, peakVars
  <1>3. JoinedEnded'
    <2>1. 1..joined \subseteq Clients
      BY LoopConstants DEF MeasureInv, MeasureTypes, Clients
    <2> QED
      BY <1>t, <1>o, <2>1 DEF MeasureInv, JoinedEnded
  <1>4. In("ended")' = In("ended") /\ Busy' = Busy /\ Claims' = Claims
    BY <1>t, <1>o DEF In, Busy, Claims
  <1>5. OneTooMany' /\ ClaimsAccounted'
    BY <1>e, <1>t, <1>4 DEF OneTooMany, ClaimsAccounted, Busy
  <1>6. FewFail' /\ MeasurementComplete'
    BY <1>t, <1>n DEF MeasureInv, FewFail, MeasurementComplete
  <1> QED
    BY <1>1, <1>2, <1>3, <1>5, <1>6 DEF MeasureInv

(* What only moves the caller on keeps the counts.                          *)
LEMMA CountsStay ==
    ASSUME UNCHANGED loadVars, received' = received
    PROVE  /\ In("ended")' = In("ended") /\ Busy' = Busy /\ Claims' = Claims
           /\ OneTooMany => OneTooMany'
           /\ ClaimsAccounted => ClaimsAccounted'
           /\ FewFail => FewFail'
  <1>1. In("ended")' = In("ended") /\ Busy' = Busy /\ Claims' = Claims
    BY DEF loadVars, In, Busy, Claims
  <1> QED
    BY <1>1 DEF loadVars, OneTooMany, ClaimsAccounted, FewFail, Busy

LEMMA JoinMeasures ==
    ASSUME MeasureInv, Join
    PROVE  MeasureInv'
  <1>t. UNCHANGED <<loadVars, received, peakVars>> /\ loop' \in {"joining", "err"}
    BY DEF Join
  <1>1. /\ joined \in 0..client_number /\ client_number \in Nat
        /\ joined' \in {joined, joined + 1}
        /\ joined' = joined + 1 => joined < client_number /\ client[joined + 1] = "ended"
    BY LoopConstants DEF MeasureInv, MeasureTypes, Join
  <1>2. MeasureTypes'
    BY <1>t, <1>1 DEF MeasureInv, MeasureTypes, loadVars, peakVars
  <1>3. Spawn' /\ MeasurementComplete'
    BY <1>t DEF MeasureInv, Spawn, MeasurementComplete, loadVars, peakVars
  <1>4. JoinedEnded'
    <2> SUFFICES ASSUME NEW c \in 1..joined' PROVE client[c] = "ended"
      BY <1>t DEF JoinedEnded, loadVars
    <2>1. c \in 1..joined \/ (joined' = joined + 1 /\ c = joined + 1)
      BY <1>1
    <2> QED
      BY <1>1, <2>1 DEF MeasureInv, JoinedEnded
  <1> QED
    BY <1>t, <1>2, <1>3, <1>4, CountsStay DEF MeasureInv

LEMMA CollectMeasures ==
    ASSUME MeasureInv, Collect
    PROVE  MeasureInv'
  <1>e. MeasureTypes /\ ClaimsAccounted /\ OneTooMany /\ Spawn /\ JoinedEnded /\ FewFail
    BY DEF MeasureInv
  <1>t. /\ UNCHANGED <<request_counter, client, failed, joined, peakVars>>
        /\ channel' = 0 /\ received' = received + channel
        /\ channel \in Nat /\ received \in Nat /\ failed \in Nat
        /\ loop' \in {"joining", "measured"}
        /\ loop' = "measured" => received + channel >= Measurements
    BY <1>e DEF MeasureTypes, Collect
  <1>1. MeasureTypes'
    BY <1>e, <1>t DEF MeasureTypes, peakVars
  <1>2. Spawn' /\ JoinedEnded'
    BY <1>e, <1>t DEF Spawn, JoinedEnded, peakVars
  <1>3. In("ended")' = In("ended") /\ Busy' = Busy /\ Claims' = Claims
    BY <1>t DEF In, Busy, Claims
  <1>4. OneTooMany'
    BY <1>e, <1>t, <1>3 DEF OneTooMany
  <1>5. ClaimsAccounted'
    <2>1. Claims = Cardinality(Busy) + 0 + (received + channel)
      BY <1>e, <1>t, ClaimBounds
    <2> QED
      BY <1>t, <1>3, <2>1 DEF ClaimsAccounted, Busy
  <1>6. FewFail'
    BY <1>e, <1>t DEF FewFail
  <1>7. MeasurementComplete'
    <2>1. received + channel <= Measurements
      BY <1>e, <1>t, ClaimBounds
    <2>2. \A c \in Active : client[c] = "ended"
      BY <1>e DEF Collect, AllJoined, JoinedEnded, Active
    <2> QED
      BY <1>t, <2>1, <2>2, LoopConstants DEF MeasurementComplete, Active, peakVars
  <1> QED
    BY <1>1, <1>2, <1>4, <1>5, <1>6, <1>7 DEF MeasureInv

(* run_closed_loop moves on without touching the measurement.               *)
LEMMA MoveOnMeasures ==
    ASSUME MeasureInv, UNCHANGED <<loadVars, joined, received, client_number>>,
           loop' \in {"ok", "err", "stats", loop},
           loop' = "stats" => loop \in {"measured", "stats"}
    PROVE  MeasureInv'
  <1>1. MeasureTypes' /\ Spawn' /\ JoinedEnded'
    BY DEF MeasureInv, MeasureTypes, Spawn, JoinedEnded, loadVars
  <1>2. MeasurementComplete'
    BY DEF MeasureInv, MeasurementComplete, loadVars, Active
  <1> QED
    BY <1>1, <1>2, CountsStay DEF MeasureInv

-------------------------------------------------------------------------------
(* The search for the peak.  Each file written has fewer clients than the   *)
(* measurement that runs, and at most the throughput the next one must      *)
(* beat; and as each accepted measurement raises the throughput, the number *)
(* of clients stays below FirstClients and the throughput together, which   *)
(* bounds the search.                                                       *)
Lines == [clients : Clients, throughput : 1..MaxThroughput]
PeakTypes ==
    /\ last_throughput \in 0..MaxThroughput
    /\ repetition \in 0..2
    /\ files \in Seq(Lines)
BaselineFirst ==
    /\ client_number = 1 /\ loop \in {"idle", "joining", "measured"} =>
         last_throughput = 0 /\ files = <<>>
    /\ loop = "stats" => last_throughput > 0
FewClients ==
    client_number > 1 =>
        /\ client_number < FirstClients + last_throughput
        /\ loop = "stats" => client_number + 1 < FirstClients + last_throughput
Behind ==
    \A i \in 1..Len(files) :
        /\ files[i].throughput <= last_throughput
        /\ files[i].clients <= client_number
        /\ loop \in {"joining", "measured"} => files[i].clients < client_number
PeakInv == PeakTypes /\ BaselineFirst /\ FewClients /\ Behind /\ FilesClimb
LoopInv == MeasureInv /\ PeakInv

(* One line more.                                                           *)
LEMMA LineAdded ==
    ASSUME NEW s \in Seq(Lines), NEW n \in Clients, NEW t \in 1..MaxThroughput,
           NEW r, r = Append(s, [clients |-> n, throughput |-> t])
    PROVE  /\ r \in Seq(Lines) /\ Len(s) \in Nat /\ Len(r) = Len(s) + 1
           /\ \A i \in 1..Len(r) : r[i].clients \in Nat /\ r[i].throughput \in Nat
           /\ \A i \in 1..Len(s) : r[i].clients = s[i].clients /\ r[i].throughput = s[i].throughput
           /\ r[Len(s) + 1].clients = n /\ r[Len(s) + 1].throughput = t
  <1> DEFINE line == [clients |-> n, throughput |-> t]
  <1>1. line \in Lines /\ line.clients = n /\ line.throughput = t
    BY DEF Lines
  <1> HIDE DEF line
  <1>2. /\ r \in Seq(Lines) /\ Len(s) \in Nat /\ Len(r) = Len(s) + 1
        /\ \A i \in 1..Len(s) : r[i] = s[i]
        /\ r[Len(s) + 1] = line
    BY <1>1, AppendProperties DEF line
  <1>3. ASSUME NEW i \in 1..Len(r) PROVE r[i].clients \in Nat /\ r[i].throughput \in Nat
    <2>1. r[i] \in Lines
      BY <1>2, ElementOfSeq
    <2>2. r[i].clients \in Clients /\ r[i].throughput \in 1..MaxThroughput
      BY <2>1 DEF Lines
    <2>3. r[i].throughput \in Nat
      BY <2>2
    <2> QED
      BY <2>2, <2>3, LoopConstants
  <1> QED
    BY <1>1, <1>2, <1>3

(* A line with more clients and more throughput than all before.            *)
LEMMA ClimbsOn ==
    ASSUME PeakTypes, FilesClimb, NEW n \in Clients, NEW t \in 1..MaxThroughput,
           files' = Append(files, [clients |-> n, throughput |-> t]),
           \A i \in 1..Len(files) : files[i].clients < n /\ files[i].throughput < t
    PROVE  /\ FilesClimb' /\ files' \in Seq(Lines)
           /\ \A i \in 1..Len(files') : files'[i].clients <= n /\ files'[i].throughput <= t
  <1> DEFINE L == Len(files)
  <1>1. /\ files' \in Seq(Lines) /\ L \in Nat /\ Len(files') = L + 1
        /\ \A i \in 1..Len(files') : files'[i].clients \in Nat /\ files'[i].throughput \in Nat
        /\ \A i \in 1..L : /\ files'[i].clients = files[i].clients
                           /\ files'[i].throughput = files[i].throughput
        /\ files'[L + 1].clients = n /\ files'[L + 1].throughput = t
    BY LineAdded DEF PeakTypes
  <1>2. n \in Nat /\ t \in Nat
    BY LoopConstants
  <1> HIDE DEF L
  <1>3. \A i \in 1..(L + 1) : i \in 1..L \/ i = L + 1
    BY <1>1
  <1>4. \A i \in 1..Len(files') : files'[i].clients <= n /\ files'[i].throughput <= t
    <2> SUFFICES ASSUME NEW i \in 1..Len(files')
                 PROVE  files'[i].clients <= n /\ files'[i].throughput <= t
      OBVIOUS
    <2>1. CASE i \in 1..L
      BY <1>1, <1>2, <2>1 DEF L
    <2>2. CASE i = L + 1
      BY <1>1, <1>2, <2>2
    <2> QED
      BY <1>1, <1>3, <2>1, <2>2
  <1>5. ASSUME NEW i \in 1..Len(files'), NEW j \in 1..Len(files'), i < j
        PROVE  files'[i].clients < files'[j].clients /\ files'[i].throughput < files'[j].throughput
    <2>1. i \in 1..L
      BY <1>1, <1>5
    <2>2. CASE j \in 1..L
      BY <1>1, <1>5, <2>1, <2>2 DEF FilesClimb, L
    <2>3. CASE j = L + 1
      BY <1>1, <2>1, <2>3 DEF L
    <2> QED
      BY <1>1, <1>3, <2>2, <2>3
  <1> QED
    BY <1>1, <1>4, <1>5 DEF FilesClimb

LEMMA ContinueMeasures ==
    ASSUME MeasureInv, loop \in {"measured", "stats"}, Continue(client_number),
           client_number > 1 => client_number + 1 \in Clients
    PROVE  /\ MeasureInv'
           /\ \/ loop' = "ok" /\ client_number' = client_number /\ client_number = 1
              \/ loop' = "joining" /\ client_number = 1 /\ client_number' = FirstClients
              \/ loop' = "joining" /\ client_number > 1 /\ client_number' = client_number + 1
  <1>1. client_number \in Nat \ {0}
    BY LoopConstants DEF MeasureInv, MeasureTypes
  <1>2. CASE UNCHANGED <<loadVars, joined, received, client_number>> /\ loop' = "ok" /\ client_number = 1
    BY <1>2, MoveOnMeasures
  <1>3. CASE client_number = 1 /\ StartMeasurement(FirstClients)
    <2>1. loop' = "joining" /\ client_number' = FirstClients
      BY <1>3 DEF StartMeasurement
    <2> QED
      BY <1>3, <2>1, StartsClean, LoopConstants
  <1>4. CASE client_number > 1 /\ StartMeasurement(client_number + 1)
    <2>1. loop' = "joining" /\ client_number' = client_number + 1
      BY <1>4 DEF StartMeasurement
    <2> QED
      BY <1>4, <2>1, StartsClean
  <1> QED
    BY <1>1, <1>2, <1>3, <1>4 DEF Continue

(* A file is written after a measurement that beats all before.             *)
LEMMA WriteClimbs ==
    ASSUME LoopInv, loop = "measured", NEW t \in 1..MaxThroughput, t > last_throughput,
           Write(t), repetition' \in 0..2
    PROVE  LoopInv'
  <1>1. /\ MeasureInv /\ PeakTypes /\ FilesClimb /\ client_number \in Clients
        /\ client_number \in Nat \ {0} /\ last_throughput \in Nat /\ t \in Nat /\ t > 0
    BY LoopConstants DEF LoopInv, PeakInv, PeakTypes, MeasureInv, MeasureTypes
  <1>2. \A i \in 1..Len(files) : files[i].clients < client_number /\ files[i].throughput < t
    <2> SUFFICES ASSUME NEW i \in 1..Len(files)
                 PROVE  files[i].clients < client_number /\ files[i].throughput < t
      OBVIOUS
    <2>1. files[i] \in Lines
      BY <1>1, ElementOfSeq DEF PeakTypes
    <2>2. files[i].throughput \in Nat
      BY <2>1, LoopConstants DEF Lines
    <2>3. files[i].throughput <= last_throughput /\ files[i].clients < client_number
      BY DEF LoopInv, PeakInv, Behind
    <2> QED
      BY <1>1, <2>2, <2>3
  <1>3. /\ last_throughput' = t
        /\ files' = Append(files, [clients |-> client_number, throughput |-> t])
    BY DEF Write
  <1>4. /\ FilesClimb' /\ files' \in Seq(Lines)
        /\ \A i \in 1..Len(files') :
             files'[i].clients <= client_number /\ files'[i].throughput <= t
    BY <1>1, <1>2, <1>3, ClimbsOn
  <1>5. PeakTypes'
    BY <1>3, <1>4, LoopConstants DEF PeakTypes
  <1>6. client_number > 1 => client_number + 1 < FirstClients + t
    BY <1>1, LoopConstants DEF LoopInv, PeakInv, FewClients
  <1>7. CASE loop' = "stats" /\ UNCHANGED <<loadVars, joined, received, client_number>>
    <2>1. MeasureInv'
      BY <1>1, <1>7, MoveOnMeasures
    <2>2. BaselineFirst' /\ Behind'
      BY <1>1, <1>3, <1>4, <1>7 DEF BaselineFirst, Behind
    <2>3. FewClients'
      BY <1>1, <1>3, <1>6, <1>7, LoopConstants DEF FewClients
    <2> QED
      BY <1>4, <1>5, <2>1, <2>2, <2>3 DEF LoopInv, PeakInv
  <1>8. CASE Continue(client_number)
    <2>1. client_number > 1 => client_number + 1 \in Clients
      BY <1>1, <1>6, LoopConstants DEF Clients
    <2>2. /\ MeasureInv'
          /\ \/ loop' = "ok" /\ client_number' = client_number /\ client_number = 1
             \/ loop' = "joining" /\ client_number = 1 /\ client_number' = FirstClients
             \/ loop' = "joining" /\ client_number > 1 /\ client_number' = client_number + 1
      BY <1>1, <1>8, <2>1, ContinueMeasures
    <2>3. BaselineFirst'
      BY <1>1, <2>2, LoopConstants DEF BaselineFirst
    <2>4. FewClients'
      BY <1>1, <1>3, <1>6, <2>2, LoopConstants DEF FewClients
    <2>5. client_number' >= client_number /\ (loop' = "joining" => client_number' > client_number)
      BY <1>1, <2>2, LoopConstants
    <2>6. Behind'
      <3> SUFFICES ASSUME NEW i \in 1..Len(files')
                   PROVE  /\ files'[i].throughput <= last_throughput'
                          /\ files'[i].clients <= client_number'
                          /\ loop' \in {"joining", "measured"} => files'[i].clients < client_number'
        BY DEF Behind
      <3>1. files'[i] \in Lines
        BY <1>4, ElementOfSeq
      <3>2. files'[i].clients \in Nat
        BY <3>1, LoopConstants DEF Lines
      <3>3. client_number' \in Nat
        BY <2>2, <1>1, LoopConstants
      <3> QED
        BY <1>1, <1>3, <1>4, <2>2, <2>5, <3>2, <3>3
    <2> QED
      BY <1>4, <1>5, <2>2, <2>3, <2>4, <2>6 DEF LoopInv, PeakInv
  <1> QED
    BY <1>7, <1>8 DEF Write

LEMMA JudgeClimbs ==
    ASSUME LoopInv, NEW t \in 1..MaxThroughput, Judge(t)
    PROVE  LoopInv'
  <1>t. /\ loop = "measured" /\ MeasureInv /\ client_number \in Clients
        /\ client_number \in Nat \ {0} /\ last_throughput \in Nat /\ t \in Nat /\ t > 0
        /\ repetition \in 0..2
    BY LoopConstants DEF Judge, LoopInv, PeakInv, PeakTypes, MeasureInv, MeasureTypes
  <1>1. CASE Baseline(t)
    <2>1. last_throughput = 0
      BY <1>t, <1>1 DEF Baseline, LoopInv, PeakInv, BaselineFirst
    <2> QED
      BY <1>t, <1>1, <2>1, WriteClimbs DEF Baseline
  <1>2. CASE Improve(t)
    BY <1>t, <1>2, WriteClimbs DEF Improve, Better
  <1>3. CASE Repeat(t)
    <2>1. /\ StartMeasurement(client_number) /\ UNCHANGED <<last_throughput, files>>
          /\ repetition' = repetition + 1 /\ repetition < 2 /\ client_number > 1
      BY <1>3 DEF Repeat, NextRepetition, WorthRepeating
    <2>2. MeasureInv'
      BY <1>t, <2>1, StartsClean
    <2>3. loop' = "joining" /\ client_number' = client_number
      BY <2>1 DEF StartMeasurement
    <2>4. PeakTypes' /\ BaselineFirst' /\ FewClients' /\ FilesClimb'
      BY <1>t, <2>1, <2>3
      DEF LoopInv, PeakInv, PeakTypes, BaselineFirst, FewClients, FilesClimb
    <2>5. Behind'
      BY <1>t, <2>1, <2>3 DEF LoopInv, PeakInv, Behind
    <2> QED
      BY <2>2, <2>4, <2>5 DEF LoopInv, PeakInv
  <1>4. CASE GiveUp(t)
    <2>1. /\ loop' = "ok" /\ client_number > 1
          /\ UNCHANGED <<loadVars, joined, received, client_number, last_throughput, files, repetition>>
      BY <1>4 DEF GiveUp, Stop
    <2>2. MeasureInv'
      BY <1>t, <2>1, MoveOnMeasures
    <2>3. PeakInv'
      BY <1>t, <2>1
      DEF LoopInv, PeakInv, PeakTypes, BaselineFirst, FewClients, FilesClimb, Behind
    <2> QED
      BY <2>2, <2>3 DEF LoopInv
  <1> QED
    BY <1>1, <1>2, <1>3, <1>4 DEF Judge

(* A step within a measurement leaves the search where it is.               *)
LEMMA PeakStays ==
    ASSUME PeakInv, UNCHANGED peakVars,
           loop' \in {loop, "err"} \/ (loop = "joining" /\ loop' = "measured")
    PROVE  PeakInv'
  BY DEF peakVars, PeakInv, PeakTypes, BaselineFirst, FewClients, FilesClimb, Behind

LEMMA WriteStatsClimbs ==
    ASSUME LoopInv, WriteStats
    PROVE  LoopInv'
  <1>t. /\ loop = "stats" /\ MeasureInv /\ client_number \in Clients
        /\ client_number \in Nat \ {0} /\ last_throughput \in 0..MaxThroughput
        /\ last_throughput \in Nat \ {0} /\ files \in Seq(Lines)
        /\ UNCHANGED <<last_throughput, repetition, files>> /\ Continue(client_number)
    BY LoopConstants
    DEF WriteStats, LoopInv, PeakInv, PeakTypes, BaselineFirst, MeasureInv, MeasureTypes
  <1>1. client_number > 1 => client_number + 1 < FirstClients + last_throughput
    BY <1>t DEF LoopInv, PeakInv, FewClients
  <1>2. client_number > 1 => client_number + 1 \in Clients
    BY <1>t, <1>1, LoopConstants DEF Clients
  <1>3. /\ MeasureInv'
        /\ \/ loop' = "ok" /\ client_number' = client_number /\ client_number = 1
           \/ loop' = "joining" /\ client_number = 1 /\ client_number' = FirstClients
           \/ loop' = "joining" /\ client_number > 1 /\ client_number' = client_number + 1
    BY <1>t, <1>2, ContinueMeasures
  <1>4. PeakTypes' /\ FilesClimb'
    BY <1>t DEF LoopInv, PeakInv, PeakTypes, FilesClimb
  <1>5. BaselineFirst'
    BY <1>t, <1>3, LoopConstants DEF BaselineFirst
  <1>6. FewClients'
    BY <1>t, <1>1, <1>3, LoopConstants DEF FewClients
  <1>7. Behind'
    <2> SUFFICES ASSUME NEW i \in 1..Len(files)
                 PROVE  /\ files[i].throughput <= last_throughput
                        /\ files[i].clients <= client_number'
                        /\ loop' \in {"joining", "measured"} => files[i].clients < client_number'
      BY <1>t DEF Behind
    <2>1. files[i] \in Lines
      BY <1>t, ElementOfSeq
    <2>2. files[i].clients \in Nat
      BY <2>1, LoopConstants DEF Lines
    <2>3. files[i].throughput <= last_throughput /\ files[i].clients <= client_number
      BY DEF LoopInv, PeakInv, Behind
    <2>4. client_number' \in Nat /\ client_number' >= client_number
          /\ (loop' = "joining" => client_number' > client_number)
      BY <1>t, <1>3, LoopConstants
    <2> QED
      BY <1>t, <1>3, <2>2, <2>3, <2>4
  <1> QED
    BY <1>3, <1>4, <1>5, <1>6, <1>7 DEF LoopInv, PeakInv

-------------------------------------------------------------------------------
(* All steps of the closed loop.                                            *)

LEMMA PeakStepKeeps ==
    ASSUME LoopInv, PeakStep
    PROVE  LoopInv'
  <1>1. CASE Join
    <2>1. UNCHANGED peakVars /\ (loop' = loop \/ loop' = "err")
      BY <1>1 DEF Join
    <2> QED
      BY <1>1, <2>1, JoinMeasures, PeakStays DEF LoopInv
  <1>2. CASE Collect
    <2>1. UNCHANGED peakVars /\ loop = "joining" /\ loop' \in {loop, "measured"}
      BY <1>2 DEF Collect
    <2> QED
      BY <1>2, <2>1, CollectMeasures, PeakStays DEF LoopInv
  <1>3. CASE WriteStats
    BY <1>3, WriteStatsClimbs
  <1>4. CASE StatsFail
    <2>1. UNCHANGED <<loadVars, joined, received, peakVars>> /\ loop' = "err"
      BY <1>4 DEF StatsFail
    <2>2. UNCHANGED client_number
      BY <2>1 DEF peakVars
    <2> QED
      BY <2>1, <2>2, MoveOnMeasures, PeakStays DEF LoopInv
  <1>5. ASSUME NEW t \in 1..MaxThroughput, Judge(t) PROVE LoopInv'
    BY <1>5, JudgeClimbs
  <1> QED
    BY <1>1, <1>2, <1>3, <1>4, <1>5 DEF PeakStep, MeasurementStep

LEMMA ClientStepKeeps ==
    ASSUME LoopInv, NEW c \in Clients, ClientStep(c)
    PROVE  LoopInv'
  <1>1. UNCHANGED peakVars /\ loop' = loop
    BY DEF ClientStep, Claim, ClientPanics, Finish
  <1>2. MeasureInv'
    BY ClaimMeasures, PanicMeasures, FinishMeasures DEF ClientStep, LoopInv
  <1> QED
    BY <1>1, <1>2, PeakStays DEF LoopInv

LEMMA LoopStays ==
    ASSUME LoopInv, UNCHANGED loopVars
    PROVE  LoopInv'
  <1>1. UNCHANGED <<loadVars, joined, received, client_number>> /\ UNCHANGED peakVars /\ loop' = loop
    BY DEF loopVars, peakVars
  <1> QED
    BY <1>1, MoveOnMeasures, PeakStays DEF LoopInv

(* The first measurement, of the experiment or of the pretest.              *)
LEMMA FirstMeasurement ==
    ASSUME LoopInv, loop = "idle", client_number = 1, StartMeasurement(1),
           UNCHANGED <<last_throughput, repetition, files>>
    PROVE  LoopInv'
  <1>1. MeasureInv'
    BY StartsClean, LoopConstants
  <1>2. loop' = "joining" /\ client_number' = 1
    BY DEF StartMeasurement
  <1>3. last_throughput = 0 /\ files = <<>>
    BY DEF LoopInv, PeakInv, BaselineFirst
  <1>4. PeakInv'
    BY <1>2, <1>3
    DEF LoopInv, PeakInv, PeakTypes, BaselineFirst, FewClients, FilesClimb, Behind
  <1> QED
    BY <1>1, <1>4 DEF LoopInv

LEMMA LoopInitially == LoopInit => LoopInv
  <1> SUFFICES ASSUME LoopInit PROVE LoopInv
    OBVIOUS
  <1>1. MeasureTypes
    BY LoopConstants DEF LoopInit, Spawned, MeasureTypes, Places
  <1>2. Spawn /\ JoinedEnded /\ FewFail
    BY LoopConstants DEF LoopInit, Spawned, Spawn, JoinedEnded, FewFail
  <1>3. In("ended") = {} /\ Busy = {}
    BY LoopConstants DEF LoopInit, Spawned, In, Busy
  <1>4. Cardinality({}) = 0
    BY FS_EmptySet
  <1>5. Claims = 0
    BY LoopConstants DEF Claims, LoopInit
  <1>6. OneTooMany /\ ClaimsAccounted
    <2>1. Cardinality(In("ended")) = 0 /\ Cardinality(Busy) = 0
      BY <1>3, <1>4
    <2>2. request_counter = 0 /\ channel = 0 /\ received = 0
      BY DEF LoopInit
    <2> QED
      BY <1>5, <2>1, <2>2 DEF OneTooMany, ClaimsAccounted, Busy
  <1>7. MeasurementComplete
    BY DEF MeasurementComplete, LoopInit
  <1>8. PeakInv
    BY LoopConstants
    DEF LoopInit, PeakInv, PeakTypes, BaselineFirst, FewClients, FilesClimb, Behind, Lines
  <1> QED
    BY <1>1, <1>2, <1>6, <1>7, <1>8 DEF LoopInv, MeasureInv

(* What follows: types and bounds.                                          *)
LEMMA LoopTypes == LoopInv => LoopTypeOK
  <1> SUFFICES ASSUME LoopInv PROVE LoopTypeOK
    OBVIOUS
  <1>1. /\ MeasureTypes /\ ClaimsAccounted /\ OneTooMany /\ FewFail /\ Spawn /\ PeakTypes
    BY DEF LoopInv, MeasureInv, PeakInv
  <1>2. channel \in 0..Measurements /\ received \in 0..Measurements /\ failed \in 0..Measurements
    BY <1>1, ClaimBounds, LoopConstants DEF MeasureTypes, FewFail
  <1>3. Cardinality(In("ended")) <= client_number
    <2>1. client_number \in Nat
      BY <1>1, LoopConstants DEF MeasureTypes
    <2>2. In("ended") \subseteq 1..client_number
      BY <1>1, <2>1, LoopConstants DEF In, Spawn, Clients
    <2>3. IsFiniteSet(1..client_number) /\ Cardinality(1..client_number) = client_number
      BY <2>1, FS_Interval
    <2> QED
      BY <2>2, <2>3, FS_Subset
  <1>4. request_counter \in 0..(Measurements + client_number)
    BY <1>1, <1>3, ClaimBounds, LoopConstants DEF OneTooMany, MeasureTypes
  <1> QED
    BY <1>1, <1>2, <1>4 DEF LoopTypeOK, MeasureTypes, PeakTypes, Places, Lines
===============================================================================
