---------------------------- MODULE ServerProofs ----------------------------
(***************************************************************************)
(* The server, for any number of clients, devices, policies and agents:    *)
(* what its audit log tells of its work, that its clocks do not turn back, *)
(* that its heartbeat check leaves no silent device online, and how old a  *)
(* status from its cache can be.                                           *)
(***************************************************************************)
EXTENDS BackupServer, DeviceFleet, AgentApi, FiniteSetTheorems, TLAPS

-----------------------------------------------------------------------------
(* The fleet.  A device that was reported stays offline and stale until it is *)
(* heard or registered again: that is why it is not reported a second time.   *)

Sighted(d) ==
    d \in Known \ since =>
        (fleet[d].status # "offline" => fleet[d].heartbeat + Threshold >= checkedAt)

Outage(d) ==
    d \in reported \cap Known => fleet[d].status = "offline" /\ IsStale(fleet[d])

FleetInv ==
    /\ FleetTypeOK
    /\ checkedAt <= clock
    /\ again = {}
    /\ \A d \in Devices : Sighted(d) /\ Outage(d)

\* In the initial states no device is known.
LEMMA FleetStarts == ClockInit /\ FleetInit => FleetInv
BY FleetAssumption DEF ClockInit, FleetInit, FleetInv, FleetTypeOK, ClockTypeOK, Sighted,
   Outage, Known

\* The answers of the coordinator and of the policy mapper leave the registry
\* alone.
LEMMA RegistryAlone ==
    ASSUME FleetInv, UNCHANGED registry, clock' \in Nat, clock <= clock', served' \in Nat,
           picked' = Nothing \/ picked'.kind \in Kinds,
           base' \in Config, overrides' \in [Devices -> Override \cup {Nothing}],
           warnings' \subseteq Devices
    PROVE  FleetInv'
<1>1. UNCHANGED <<made, fleet, checkedAt, since, reported, again>>
  BY DEF registry
<1>2. FleetTypeOK'
  BY <1>1 DEF FleetInv, FleetTypeOK, ClockTypeOK
<1>3. checkedAt' <= clock'
  BY <1>1 DEF FleetInv, FleetTypeOK, ClockTypeOK
<1>4. ASSUME NEW d \in Devices PROVE Sighted(d)' /\ Outage(d)'
  <2>1. Sighted(d)'
    BY <1>1 DEF FleetInv, Sighted, Known
  <2>2. Outage(d)'
    <3> SUFFICES ASSUME d \in reported \cap Known PROVE IsStale(fleet[d])'
      BY <1>1 DEF FleetInv, Outage, Known
    <3>1. fleet[d] \in Profile /\ IsStale(fleet[d])
      BY DEF FleetInv, Outage, FleetTypeOK, Known
    <3> QED
      BY <1>1, <3>1, FleetAssumption DEF IsStale, Profile, FleetInv, FleetTypeOK, ClockTypeOK
  <2> QED
    BY <2>1, <2>2
<1> QED
  BY <1>1, <1>2, <1>3, <1>4 DEF FleetInv

\* A request of a device that replaces the record of that device only.
LEMMA OneDevice ==
    ASSUME FleetInv, NEW d \in Devices, NEW p \in Profile \cup {Nothing},
           fleet' = [fleet EXCEPT ![d] = p],
           made' \in [Devices -> Profile \cup {Nothing}],
           UNCHANGED <<clock, checkedAt, again, mapper, picked>>, served' \in Nat,
           since \subseteq since', since' \subseteq Devices, reported' \subseteq reported,
           p # Nothing /\ d \notin since' =>
               (p.status # "offline" => p.heartbeat + Threshold >= checkedAt),
           p # Nothing /\ d \in reported' => p.status = "offline" /\ IsStale(p)
    PROVE  FleetInv'
<1>1. FleetTypeOK'
  BY DEF FleetInv, FleetTypeOK, ClockTypeOK, mapper
<1>2. ASSUME NEW e \in Devices PROVE Sighted(e)' /\ Outage(e)'
  <2>1. fleet'[e] = IF e = d THEN p ELSE fleet[e]
    BY DEF FleetInv, FleetTypeOK
  <2>2. CASE e = d
    BY <2>1, <2>2 DEF Sighted, Outage, Known, IsStale
  <2>3. CASE e # d
    <3>1. Sighted(e) /\ Outage(e)
      BY DEF FleetInv
    <3> QED
      BY <2>1, <2>3, <3>1 DEF Sighted, Outage, Known, IsStale
  <2> QED
    BY <2>2, <2>3
<1> QED
  BY <1>1, <1>2 DEF FleetInv, FleetTypeOK, ClockTypeOK

\* A known device has a profile.
LEMMA KnownProfile ==
    ASSUME FleetInv, NEW d \in Known
    PROVE  /\ d \in Devices /\ fleet[d] \in Profile /\ fleet[d] # Nothing
           /\ fleet[d].heartbeat \in Nat /\ clock \in Nat /\ Threshold \in Nat
BY FleetAssumption DEF FleetInv, FleetTypeOK, ClockTypeOK, Known, Profile

\* DeviceProfile::new and register(): a stored profile may be of any age, and
\* its device is one that was registered since the last check.
LEMMA RegistrationKeeps ==
    ASSUME FleetInv, NEW d \in Devices,
           RegisterProfile(d) \/ \E p \in Profiles : MakeProfile(d, p)
    PROVE  FleetInv'
<1>1. ASSUME NEW p \in Profiles, MakeProfile(d, p) PROVE FleetInv'
  <2> DEFINE stamped == [p EXCEPT !.heartbeat = clock]
  <2>1. stamped \in Profile
    BY FleetAssumption DEF Profile, FleetInv, FleetTypeOK, ClockTypeOK
  <2>2. made' = [made EXCEPT ![d] = stamped]
    BY <1>1 DEF MakeProfile
  <2> HIDE DEF stamped
  <2>3. UNCHANGED <<clock, fleet, checkedAt, since, reported, again, picked, mapper>>
        /\ served' \in Nat
    BY <1>1 DEF MakeProfile, Request, FleetInv, FleetTypeOK, ClockTypeOK
  <2>4. FleetTypeOK'
    BY <2>1, <2>2, <2>3 DEF FleetInv, FleetTypeOK, ClockTypeOK, mapper
  <2>5. \A e \in Devices : Sighted(e)' /\ Outage(e)'
    BY <2>3 DEF FleetInv, Sighted, Outage, Known, IsStale
  <2> QED
    BY <2>3, <2>4, <2>5 DEF FleetInv
<1>2. CASE RegisterProfile(d)
  <2>1. made[d] \in Profile \cup {Nothing}
    BY DEF FleetInv, FleetTypeOK
  <2>2. made' \in [Devices -> Profile \cup {Nothing}]
    BY <1>2 DEF RegisterProfile, FleetInv, FleetTypeOK
  <2>3. since' \subseteq Devices /\ d \in since' /\ d \notin reported' /\ served' \in Nat
    BY <1>2 DEF RegisterProfile, FleetInv, FleetTypeOK, ClockTypeOK, clockVars
  <2> QED
    BY <1>2, <2>1, <2>2, <2>3, OneDevice DEF RegisterProfile, clockVars
<1> QED
  BY <1>1, <1>2

\* unregister and the updates of a stored profile.
LEMMA UpdatesKeep ==
    ASSUME FleetInv, NEW d \in Devices,
           \/ UnregisterProfile(d)
           \/ RecordHeartbeat(d)
           \/ \E used \in Usages : UpdateStorage(d, used)
           \/ \E group \in Groups \cup {Nothing} : SetGroup(d, group)
    PROVE  FleetInv'
<1>0. made \in [Devices -> Profile \cup {Nothing}] /\ since \subseteq Devices /\ d \in Known
  BY DEF FleetInv, FleetTypeOK, UnregisterProfile, RecordHeartbeat, UpdateStorage, SetGroup
<1>1. UNCHANGED <<clock, made, checkedAt, since, again, picked, mapper>>
  BY DEF UnregisterProfile, RecordHeartbeat, UpdateStorage, SetGroup, Request
<1>2. served' \in Nat
  BY DEF UnregisterProfile, RecordHeartbeat, UpdateStorage, SetGroup, Request,
         FleetInv, FleetTypeOK, ClockTypeOK
<1>3. fleet[d] \in Profile /\ fleet[d] # Nothing /\ Sighted(d) /\ Outage(d)
  BY <1>0, KnownProfile DEF FleetInv
<1>4. CASE UnregisterProfile(d)
  <2>1. fleet' = [fleet EXCEPT ![d] = Nothing] /\ reported' = reported
    BY <1>4 DEF UnregisterProfile
  <2> QED
    BY <1>0, <1>1, <1>2, <2>1, OneDevice
<1>5. CASE RecordHeartbeat(d)
  <2> DEFINE p == [fleet[d] EXCEPT !.heartbeat = clock, !.status = "online"]
  <2>1. fleet' = [fleet EXCEPT ![d] = p] /\ d \notin reported' /\ reported' \subseteq reported
    BY <1>5 DEF RecordHeartbeat
  <2>2. p \in Profile /\ p.heartbeat = clock
    BY <1>0, <1>3, KnownProfile DEF Profile, Status
  <2>3. clock + Threshold >= checkedAt
    BY FleetAssumption DEF FleetInv, FleetTypeOK, ClockTypeOK
  <2> HIDE DEF p
  <2> QED
    BY <1>0, <1>1, <1>2, <2>1, <2>2, <2>3, OneDevice
<1>6. ASSUME NEW used \in Usages, UpdateStorage(d, used) PROVE FleetInv'
  <2> DEFINE p == [fleet[d] EXCEPT !.used = used]
  <2>1. fleet' = [fleet EXCEPT ![d] = p] /\ reported' = reported
    BY <1>6 DEF UpdateStorage
  <2>2. p \in Profile /\ p.heartbeat = fleet[d].heartbeat /\ p.status = fleet[d].status
    BY <1>3, FleetAssumption DEF Profile
  <2> HIDE DEF p
  <2> QED
    BY <1>0, <1>1, <1>2, <1>3, <2>1, <2>2, OneDevice DEF Sighted, Outage, IsStale
<1>7. ASSUME NEW group \in Groups \cup {Nothing}, SetGroup(d, group) PROVE FleetInv'
  <2> DEFINE p == [fleet[d] EXCEPT !.group = group]
  <2>1. fleet' = [fleet EXCEPT ![d] = p] /\ reported' = reported
    BY <1>7 DEF SetGroup
  <2>2. p \in Profile /\ p.heartbeat = fleet[d].heartbeat /\ p.status = fleet[d].status
    BY <1>3 DEF Profile
  <2> HIDE DEF p
  <2> QED
    BY <1>0, <1>1, <1>2, <1>3, <2>1, <2>2, OneDevice DEF Sighted, Outage, IsStale
<1> QED
  BY <1>4, <1>5, <1>6, <1>7

\* A check reports the devices it turns offline, and each of them for the first
\* time: what was reported before is offline already.
LEMMA CheckKeeps ==
    ASSUME FleetInv, CheckHeartbeats
    PROVE  FleetInv'
<1>0. /\ UNCHANGED <<clock, made, picked, base, overrides, warnings>>
      /\ served' \in Nat /\ checkedAt' = clock /\ since' = {}
      /\ clock \in Nat
  BY DEF CheckHeartbeats, Request, mapper, FleetInv, FleetTypeOK, ClockTypeOK
<1>1. ASSUME NEW d \in Devices
      PROVE  fleet'[d] = IF d \in Known THEN Checked(fleet[d]) ELSE Nothing
  BY DEF CheckHeartbeats
<1>2. ASSUME NEW d \in Known
      PROVE  /\ Checked(fleet[d]) \in Profile
             /\ Checked(fleet[d]).heartbeat = fleet[d].heartbeat
             /\ IsStale(fleet[d]) => Checked(fleet[d]).status = "offline"
             /\ ~IsStale(fleet[d]) => Checked(fleet[d]).status = "online"
  <2> DEFINE status == IF IsStale(fleet[d]) THEN "offline" ELSE "online"
  <2>1. fleet[d] \in Profile
    BY KnownProfile
  <2>2. Checked(fleet[d]) = [fleet[d] EXCEPT !.status = status]
    BY DEF Checked
  <2>3. status \in Status
    BY DEF Status
  <2>4. /\ IsStale(fleet[d]) => status = "offline"
        /\ ~IsStale(fleet[d]) => status = "online"
    OBVIOUS
  <2> HIDE DEF status
  <2> QED
    BY <2>1, <2>2, <2>3, <2>4 DEF Profile
<1>3. fleet' \in [Devices -> Profile \cup {Nothing}]
  BY <1>2 DEF CheckHeartbeats
<1>4. StaleReport \subseteq Devices /\ reported \cap StaleReport = {}
  BY DEF StaleReport, Known, FleetInv, Outage
<1>5. again' = {} /\ reported' = reported \cup StaleReport
  BY <1>4 DEF CheckHeartbeats, FleetInv
<1>6. FleetTypeOK'
  BY <1>0, <1>3, <1>4, <1>5 DEF FleetInv, FleetTypeOK, ClockTypeOK
<1>7. ASSUME NEW d \in Devices PROVE Sighted(d)' /\ Outage(d)'
  <2>1. CASE d \notin Known
    BY <1>1, <2>1 DEF Sighted, Outage, Known
  <2>2. CASE d \in Known
    <3>1. fleet'[d] = Checked(fleet[d])
      BY <1>1, <2>2
    <3>2. IsStale(fleet[d])' => IsStale(fleet[d])
      BY <1>0, <1>2, <2>2, <3>1 DEF IsStale
    <3>3. IsStale(fleet[d]) => IsStale(fleet[d])'
      BY <1>0, <1>2, <2>2, <3>1 DEF IsStale
    <3>4. Sighted(d)'
      <4> SUFFICES ASSUME fleet'[d].status # "offline"
                   PROVE  fleet'[d].heartbeat + Threshold >= checkedAt'
        BY DEF Sighted
      <4>1. ~IsStale(fleet[d]) /\ fleet'[d].heartbeat = fleet[d].heartbeat
        BY <1>2, <2>2, <3>1
      <4> QED
        BY <1>0, <2>2, <4>1, KnownProfile DEF IsStale
    <3>5. Outage(d)'
      <4> SUFFICES ASSUME d \in reported \/ d \in StaleReport
                   PROVE  fleet'[d].status = "offline" /\ IsStale(fleet[d])'
        BY <1>5 DEF Outage
      <4>1. IsStale(fleet[d])
        BY <2>2 DEF FleetInv, Outage, StaleReport
      <4> QED
        BY <1>2, <2>2, <3>1, <3>3, <4>1
    <3> QED
      BY <3>4, <3>5
  <2> QED
    BY <2>1, <2>2
<1> QED
  BY <1>0, <1>5, <1>6, <1>7 DEF FleetInv

\* The coordinator, the mapper and the clock.
LEMMA OthersKeepFleet ==
    ASSUME FleetInv,
           \/ \E d \in Devices : \/ \E used \in Usages : CheckCapacity(d, used)
                                 \/ \E o \in Override : SetOverride(d, o)
                                 \/ GetEffectiveConfig(d)
           \/ \E config \in Config : AddPolicy(config)
           \/ Coordinate
           \/ Passes /\ UNCHANGED fleetVars
    PROVE  FleetInv'
<1>0. /\ base \in Config /\ overrides \in [Devices -> Override \cup {Nothing}]
      /\ warnings \subseteq Devices /\ (picked = Nothing \/ picked.kind \in Kinds)
      /\ clock \in Nat /\ served \in Nat
  BY DEF FleetInv, FleetTypeOK, ClockTypeOK
<1>1. ASSUME NEW d \in Devices, NEW used \in Usages, CheckCapacity(d, used)
      PROVE  FleetInv'
  BY <1>0, <1>1, RegistryAlone DEF CheckCapacity, Request
<1>2. ASSUME NEW d \in Devices, NEW o \in Override, SetOverride(d, o) PROVE FleetInv'
  BY <1>0, <1>2, RegistryAlone DEF SetOverride, Request
<1>3. ASSUME NEW d \in Devices, GetEffectiveConfig(d) PROVE FleetInv'
  BY <1>0, <1>3, RegistryAlone DEF GetEffectiveConfig, Request, mapper, Kinds
<1>4. ASSUME NEW config \in Config, AddPolicy(config) PROVE FleetInv'
  BY <1>0, <1>4, RegistryAlone DEF AddPolicy, Request
<1>5. CASE Coordinate
  <2>1. ASSUME NEW kind \in Kinds, NEW chosen, Pick(kind, chosen) PROVE picked'.kind \in Kinds
    BY <2>1 DEF Pick
  <2>2. picked'.kind \in Kinds
    <3>1. ASSUME NEW near, NEW excluded, SelectRestoreSource(near, excluded)
          PROVE  picked'.kind \in Kinds
      BY <2>1, <3>1 DEF SelectRestoreSource, Kinds
    <3>2. ASSUME NEW count, NEW group, ScheduleBackup(count, group)
          PROVE  picked'.kind \in Kinds
      BY <2>1, <3>2 DEF ScheduleBackup, Kinds
    <3>3. DegradedRestoreStrategy => picked'.kind \in Kinds
      BY <2>1 DEF DegradedRestoreStrategy, Kinds
    <3> QED
      BY <1>5, <3>1, <3>2, <3>3 DEF Coordinate
  <2> QED
    BY <1>0, <1>5, <2>2, RegistryAlone DEF Coordinate, Request, mapper
<1>6. CASE Passes /\ UNCHANGED fleetVars
  <2>1. UNCHANGED <<registry, picked, base, overrides, warnings>>
    BY <1>6 DEF fleetVars, mapper
  <2>2. clock' = clock + 1 /\ served' = served
    BY <1>6 DEF Passes
  <2> QED
    BY <1>0, <2>1, <2>2, RegistryAlone
<1> QED
  BY <1>1, <1>2, <1>3, <1>4, <1>5, <1>6

\* Every step of the manager keeps the invariant.
LEMMA FleetSteps == FleetInv /\ [FleetNext]_<<clockVars, fleetVars>> => FleetInv'
<1>1. ASSUME FleetInv, FleetNext PROVE FleetInv'
  BY <1>1, RegistrationKeeps, UpdatesKeep, CheckKeeps, OthersKeepFleet DEF FleetNext
<1>2. ASSUME FleetInv, UNCHANGED <<clockVars, fleetVars>> PROVE FleetInv'
  <2>1. UNCHANGED <<registry, clock, served, picked, base, overrides, warnings>>
    BY <1>2 DEF clockVars, fleetVars, mapper
  <2> QED
    BY <1>2, <2>1, RegistryAlone DEF FleetInv, FleetTypeOK, ClockTypeOK
<1> QED
  BY <1>1, <1>2

\* The registry, the mapper and the coordinator's answers keep their types.
THEOREM FleetTypes == FleetSpec => []FleetTypeOK
<1>1. FleetInv => FleetTypeOK
  BY DEF FleetInv
<1> QED
  BY <1>1, FleetStarts, FleetSteps, PTL DEF FleetSpec

\* check_heartbeats, for any number of devices and any threshold: a device that
\* is not offline was heard within the threshold of the last check, and one
\* outage is reported once.
THEOREM SilenceIsNoticed == FleetSpec => []SilenceNoticed
<1>1. FleetInv => SilenceNoticed
  BY DEF FleetInv, SilenceNoticed, OnlineIsRecent, ReportedOnce, Sighted, Known
<1> QED
  BY <1>1, FleetStarts, FleetSteps, PTL DEF FleetSpec

-----------------------------------------------------------------------------
(* The types of the server *)

\* In the initial states everything has its type.
LEMMA ServerStarts == ClockInit /\ ServerInit => ServerTypeOK
BY DEF ClockInit, ServerInit, ServerTypeOK, ClockTypeOK

\* A client's next step is typed when the step is.
LEMMA ContinueTyped ==
    ASSUME ServerTypeOK, NEW c \in Clients, NEW rest \in Call \cup {Nothing}, Continue(c, rest)
    PROVE  call' \in [Clients -> Call \cup {Nothing}]
BY DEF ServerTypeOK, Continue

\* A request that arrives is counted.
LEMMA ArrivesTyped ==
    ASSUME ServerTypeOK, NEW c \in Clients, Arrives(c)
    PROVE  ClockTypeOK' /\ clock' = clock
BY DEF ServerTypeOK, Arrives, Request, ClockTypeOK

\* Devices only change to devices.
LEMMA DevicesTyped ==
    ASSUME ServerTypeOK, NEW c \in Clients, DeviceRequest(c)
    PROVE  ServerTypeOK'
<1>0. /\ clock \in Nat /\ served \in Nat
      /\ devices \in [DeviceIds -> Device \cup {Nothing}]
      /\ call \in [Clients -> Call \cup {Nothing}]
  BY DEF ServerTypeOK, ClockTypeOK
<1> SUFFICES /\ ClockTypeOK'
             /\ devices' \in [DeviceIds -> Device \cup {Nothing}]
             /\ call' \in [Clients -> Call \cup {Nothing}]
             /\ UNCHANGED <<policies, backups, snapshots, tenants, audit, report, dropped>>
  BY DEF ServerTypeOK
<1>1. ASSUME NEW d \in DeviceIds, NEW status \in DeviceStatus, devices[d] # Nothing
      PROVE  Stamped(status, devices[d].registeredAt) \in Device
  BY <1>0, <1>1 DEF Stamped, Device
<1>2. ASSUME NEW d \in DeviceIds, RegisterArrives(c, d)
      PROVE  /\ ClockTypeOK'
             /\ devices' \in [DeviceIds -> Device \cup {Nothing}]
             /\ call' \in [Clients -> Call \cup {Nothing}]
             /\ UNCHANGED <<policies, backups, snapshots, tenants, audit, report, dropped>>
  <2>1. [op |-> "register", device |-> d, made |-> clock] \in Call
    BY <1>0 DEF Call, RegisterCall
  <2> QED
    BY <1>0, <1>2, <2>1, ArrivesTyped, ContinueTyped DEF RegisterArrives
<1>3. ASSUME NEW d \in DeviceIds, NEW status \in DeviceStatus, UpdateDeviceStatus(c, d, status)
      PROVE  /\ ClockTypeOK'
             /\ devices' \in [DeviceIds -> Device \cup {Nothing}]
             /\ call' \in [Clients -> Call \cup {Nothing}]
             /\ UNCHANGED <<policies, backups, snapshots, tenants, audit, report, dropped>>
  <2>1. [op |-> "answer", device |-> d] \in Call
    BY DEF Call, AnswerCall
  <2>2. CASE Registered(d)
    <3>1. Stamped(status, devices[d].registeredAt) \in Device
      BY <1>1, <2>2 DEF Registered
    <3>2. Continue(c, [op |-> "answer", device |-> d])
      BY <1>3, <2>2 DEF UpdateDeviceStatus
    <3>3. call' \in [Clients -> Call \cup {Nothing}]
      BY <2>1, <3>2, ContinueTyped
    <3> QED
      BY <1>0, <1>3, <2>2, <3>1, <3>3, ArrivesTyped DEF UpdateDeviceStatus
  <2>3. CASE ~Registered(d)
    BY <1>0, <1>3, <2>3, ArrivesTyped DEF UpdateDeviceStatus
  <2> QED
    BY <2>2, <2>3
<1>4. ASSUME NEW d \in DeviceIds, DeviceHeartbeat(c, d) \/ UnregisterDevice(c, d)
      PROVE  /\ ClockTypeOK'
             /\ devices' \in [DeviceIds -> Device \cup {Nothing}]
             /\ call' \in [Clients -> Call \cup {Nothing}]
             /\ UNCHANGED <<policies, backups, snapshots, tenants, audit, report, dropped>>
  <2>1. Registered(d) => Stamped("online", devices[d].registeredAt) \in Device
    BY <1>1 DEF Registered, DeviceStatus
  <2> QED
    BY <1>0, <1>4, <2>1, ArrivesTyped DEF DeviceHeartbeat, UnregisterDevice
<1>5. CASE RegisterStores(c)
  <2> DEFINE d == call[c].device
             fresh == [status |-> "online", registeredAt |-> call[c].made,
                       lastSeen |-> call[c].made]
             next == IF Registered(d) THEN Stamped("online", devices[d].registeredAt)
                     ELSE fresh
  <2>1. call[c] \in RegisterCall
    BY <1>0, <1>5 DEF RegisterStores, Call, AnswerCall, AuditCall, StatusCall
  <2>2. d \in DeviceIds /\ fresh \in Device
    BY <2>1 DEF RegisterCall, Device, DeviceStatus
  <2>3. next \in Device
    BY <1>1, <2>2 DEF Registered, DeviceStatus
  <2>4. devices' = [devices EXCEPT ![d] = next]
    BY <1>5 DEF RegisterStores
  <2>5. Continue(c, Nothing)
    BY <1>5 DEF RegisterStores, Finish
  <2> HIDE DEF next, d
  <2> QED
    BY <1>0, <1>5, <2>2, <2>3, <2>4, <2>5, ContinueTyped
       DEF RegisterStores, clockVars, ClockTypeOK
<1>6. CASE AnswerDeviceStatus(c)
  BY <1>0, <1>6, ContinueTyped DEF AnswerDeviceStatus, Finish, clockVars, ClockTypeOK
<1> QED
  BY <1>2, <1>3, <1>4, <1>5, <1>6 DEF DeviceRequest

\* Policies only change to policies.
LEMMA PoliciesTyped ==
    ASSUME ServerTypeOK, NEW c \in Clients, PolicyRequest(c)
    PROVE  ServerTypeOK'
<1>0. /\ clock \in Nat /\ policies \in [PolicyIds -> Policy \cup {Nothing}]
  BY DEF ServerTypeOK, ClockTypeOK
<1>1. PICK p \in PolicyIds :
         \/ \E body \in Bodies : CreatePolicy(c, p, body) \/ UpdatePolicy(c, p, body)
         \/ DeletePolicy(c, p)
  BY DEF PolicyRequest
<1>2. /\ Arrives(c)
      /\ UNCHANGED <<call, devices, backups, snapshots, tenants, audit, report, dropped>>
  BY <1>1 DEF CreatePolicy, UpdatePolicy, DeletePolicy
<1>3. policies' \in [PolicyIds -> Policy \cup {Nothing}]
  <2>1. ASSUME NEW body \in Bodies, CreatePolicy(c, p, body)
        PROVE  policies' \in [PolicyIds -> Policy \cup {Nothing}]
    <3>1. [id |-> p, target |-> body.target, createdAt |-> clock, updatedAt |-> clock] \in Policy
      BY <1>0, ServerAssumption DEF Policy
    <3> QED
      BY <1>0, <2>1, <3>1 DEF CreatePolicy
  <2>2. ASSUME NEW body \in Bodies, UpdatePolicy(c, p, body)
        PROVE  policies' \in [PolicyIds -> Policy \cup {Nothing}]
    <3>1. policies[p] # Nothing => Updated(policies[p], body) \in Policy
      BY <1>0, ServerAssumption DEF Policy, Updated
    <3> QED
      BY <1>0, <2>2, <3>1 DEF UpdatePolicy
  <2>3. DeletePolicy(c, p) => policies' \in [PolicyIds -> Policy \cup {Nothing}]
    BY <1>0 DEF DeletePolicy
  <2> QED
    BY <1>1, <2>1, <2>2, <2>3
<1> QED
  BY <1>2, <1>3, ArrivesTyped DEF ServerTypeOK

\* Work, entries and the calls between them.
LEMMA AuditedTyped ==
    ASSUME ServerTypeOK, NEW c \in Clients, AuditedRequest(c)
    PROVE  ServerTypeOK'
<1>0. /\ clock \in Nat /\ served \in Nat /\ tenants \in Nat
      /\ backups \in Seq(Backup) /\ audit \in Seq(Entry)
      /\ call \in [Clients -> Call \cup {Nothing}]
  BY DEF ServerTypeOK, ClockTypeOK
<1>1. ASSUME NEW d \in DeviceIds, TriggerBackup(c, d) PROVE ServerTypeOK'
  <2>1. Started(d) \in Backup
    BY DEF Started, Backup, BackupStatusType
  <2>2. backups' \in Seq(Backup)
    BY <1>0, <1>1, <2>1 DEF TriggerBackup
  <2>3. [op |-> "audit", entry |-> Success("BackupStarted", Len(backups) + 1)] \in Call
    BY <1>0 DEF Success, Call, AuditCall, Entry
  <2>4. call' \in [Clients -> Call \cup {Nothing}]
    BY <1>1, <2>3, ContinueTyped DEF TriggerBackup
  <2> QED
    BY <1>1, <2>2, <2>4, ArrivesTyped DEF TriggerBackup, ServerTypeOK
<1>2. CASE CreateTenant(c)
  <2>1. [op |-> "audit", entry |-> Success("TenantCreated", tenants + 1)] \in Call
    BY <1>0 DEF Success, Call, AuditCall, Entry
  <2>2. call' \in [Clients -> Call \cup {Nothing}] /\ tenants' \in Nat
    BY <1>0, <1>2, <2>1, ContinueTyped DEF CreateTenant
  <2> QED
    BY <1>2, <2>2, ArrivesTyped DEF CreateTenant, ServerTypeOK
<1>3. ASSUME NEW passes \in BOOLEAN, ComplianceCheck(c, passes) PROVE ServerTypeOK'
  <2> DEFINE entry == [op |-> "ComplianceCheck", target |-> 0,
                       result |-> IF passes THEN "success" ELSE "failure"]
  <2>1. entry \in Entry
    BY DEF Entry
  <2>2. Continue(c, [op |-> "audit", entry |-> entry])
    BY <1>3 DEF ComplianceCheck
  <2> HIDE DEF entry
  <2>3. [op |-> "audit", entry |-> entry] \in Call
    BY <2>1 DEF Call, AuditCall
  <2>4. call' \in [Clients -> Call \cup {Nothing}]
    BY <2>2, <2>3, ContinueTyped
  <2> QED
    BY <1>3, <2>4, ArrivesTyped DEF ComplianceCheck, ServerTypeOK
<1>4. CASE AppendAudit(c)
  <2>1. call[c] \in AuditCall
    BY <1>0, <1>4 DEF AppendAudit, Call, AnswerCall, RegisterCall, StatusCall
  <2>2. call[c].entry \in Entry
    BY <2>1 DEF AuditCall
  <2>3. audit' \in Seq(Entry)
    BY <1>0, <1>4, <2>2 DEF AppendAudit
  <2>4. call' \in [Clients -> Call \cup {Nothing}]
    BY <1>4, ContinueTyped DEF AppendAudit, Finish
  <2> QED
    BY <1>0, <1>4, <2>3, <2>4 DEF AppendAudit, ServerTypeOK, clockVars, ClockTypeOK
<1> QED
  BY <1>1, <1>2, <1>3, <1>4 DEF AuditedRequest

\* Backups and snapshots only change to backups and snapshots.
LEMMA BackupsTyped ==
    ASSUME ServerTypeOK, NEW c \in Clients, BackupRequest(c)
    PROVE  ServerTypeOK'
<1>0. clock \in Nat /\ backups \in Seq(Backup) /\ snapshots \subseteq SnapshotIds
  BY DEF ServerTypeOK, ClockTypeOK
<1>1. ASSUME NEW b \in DOMAIN backups, NEW status \in BackupStatusType,
             UpdateBackup(c, b, status)
      PROVE  ServerTypeOK'
  <2> DEFINE at == IF status \in {"completed", "failed"} THEN clock ELSE backups[b].completedAt
             next == [device |-> backups[b].device, status |-> status, completedAt |-> at]
  <2>1. backups[b] \in Backup
    BY <1>0
  <2>2. at \in Nat \cup {Nothing}
    BY <1>0, <2>1 DEF Backup
  <2>3. backups' = [backups EXCEPT ![b] = next]
    BY <1>1 DEF UpdateBackup, SetStatus
  <2> HIDE DEF at
  <2>4. next \in Backup
    BY <2>1, <2>2 DEF Backup
  <2> HIDE DEF next
  <2>5. backups' \in Seq(Backup)
    BY <1>0, <2>3, <2>4
  <2> QED
    BY <1>1, <2>5, ArrivesTyped DEF UpdateBackup, ServerTypeOK
<1>2. ASSUME NEW s \in SnapshotIds, StoreSnapshot(c, s) \/ DeleteSnapshot(c, s)
      PROVE  ServerTypeOK'
  BY <1>0, <1>2, ArrivesTyped DEF StoreSnapshot, DeleteSnapshot, ServerTypeOK
<1> QED
  BY <1>1, <1>2 DEF BackupRequest, CancelBackup, BackupStatusType

\* A status report is put together from numbers.
LEMMA StatusTyped ==
    ASSUME ServerTypeOK, NEW c \in Clients, StatusRequest(c)
    PROVE  ServerTypeOK'
<1>0. /\ clock \in Nat /\ backups \in Seq(Backup) /\ snapshots \subseteq SnapshotIds
      /\ call \in [Clients -> Call \cup {Nothing}]
  BY DEF ServerTypeOK, ClockTypeOK
<1>1. CASE StatusReadsDevices(c)
  <2> DEFINE offline == {d \in Fleet : devices[d].status = "offline"}
             rest == [op |-> "status", connected |-> Cardinality(Fleet),
                      health |-> Health(Cardinality(Fleet), Cardinality(offline)),
                      snapshots |-> Nothing]
  <2>1. Cardinality(Fleet) \in Nat
    BY ServerAssumption, FS_Subset, FS_CardinalityType DEF Fleet
  <2>2. Health(Cardinality(Fleet), Cardinality(offline)) \in SystemHealth
    BY DEF Health, SystemHealth
  <2>3. rest \in Call
    BY <2>1, <2>2 DEF Call, StatusCall
  <2>4. Continue(c, rest)
    BY <1>1 DEF StatusReadsDevices
  <2> HIDE DEF rest
  <2>5. call' \in [Clients -> Call \cup {Nothing}]
    BY <2>3, <2>4, ContinueTyped
  <2> QED
    BY <1>1, <2>5, ArrivesTyped DEF StatusReadsDevices, ServerTypeOK
<1>2. CASE StatusReadsSnapshots(c)
  <2> DEFINE n == Cardinality(snapshots)
             rest == [call[c] EXCEPT !.snapshots = n]
  <2>1. n \in Nat
    BY <1>0, ServerAssumption, FS_Subset, FS_CardinalityType
  <2>2. call[c] \in StatusCall
    BY <1>0, <1>2 DEF StatusReadsSnapshots, Call, AnswerCall, RegisterCall, AuditCall
  <2>3. Continue(c, rest)
    BY <1>2 DEF StatusReadsSnapshots
  <2> HIDE DEF n
  <2>4. rest \in Call
    BY <2>1, <2>2 DEF Call, StatusCall
  <2> HIDE DEF rest
  <2>5. call' \in [Clients -> Call \cup {Nothing}]
    BY <2>3, <2>4, ContinueTyped
  <2> QED
    BY <1>2, <2>5 DEF StatusReadsSnapshots, ServerTypeOK, ClockTypeOK, clockVars
<1>3. CASE StatusReadsBackups(c)
  <2>1. call[c] \in StatusCall /\ call[c].snapshots # Nothing
    BY <1>0, <1>3 DEF StatusReadsBackups, Call, AnswerCall, RegisterCall, AuditCall
  <2>2. ActiveCount \in Nat
    <3>1. IsFiniteSet(1..Len(backups))
      BY <1>0, FS_Interval
    <3>2. IsFiniteSet({b \in DOMAIN backups : backups[b].status \in {"pending", "running"}})
      BY <1>0, <3>1, FS_Subset
    <3> QED
      BY <3>2, FS_CardinalityType DEF ActiveCount
  <2>3. report' \in Report
    BY <1>3, <2>1, <2>2 DEF StatusReadsBackups, Report, StatusCall
  <2>4. call' \in [Clients -> Call \cup {Nothing}]
    BY <1>3, ContinueTyped DEF StatusReadsBackups, Finish
  <2> QED
    BY <1>3, <2>3, <2>4 DEF StatusReadsBackups, ServerTypeOK, ClockTypeOK, clockVars
<1> QED
  BY <1>1, <1>2, <1>3 DEF StatusRequest

\* A client that goes away leaves its work behind.
LEMMA DisconnectTyped ==
    ASSUME ServerTypeOK, NEW c \in Clients, Disconnect(c)
    PROVE  ServerTypeOK'
<1>0. call \in [Clients -> Call \cup {Nothing}] /\ dropped \subseteq Work
  BY DEF ServerTypeOK
<1>1. dropped' \subseteq Work
  <2>1. CASE call[c].op = "audit" /\ call[c].entry.op # "ComplianceCheck"
    <3>1. call[c] \in AuditCall
      BY <1>0, <2>1 DEF Disconnect, Call, AnswerCall, RegisterCall, StatusCall
    <3>2. [op |-> call[c].entry.op, target |-> call[c].entry.target] \in Work
      BY <2>1, <3>1 DEF AuditCall, Entry, Work
    <3> QED
      BY <1>0, <2>1, <3>2 DEF Disconnect
  <2>2. CASE ~(call[c].op = "audit" /\ call[c].entry.op # "ComplianceCheck")
    BY <1>0, <2>2 DEF Disconnect
  <2> QED
    BY <2>1, <2>2
<1>2. call' \in [Clients -> Call \cup {Nothing}]
  BY ContinueTyped DEF Disconnect, Finish
<1> QED
  BY <1>1, <1>2 DEF Disconnect, ServerTypeOK, ClockTypeOK, clockVars

\* Every step of the server keeps the types.
LEMMA ServerSteps == ServerTypeOK /\ [ServerNext]_<<clockVars, serverVars>> => ServerTypeOK'
<1>1. ASSUME ServerTypeOK, NEW c \in Clients,
             \/ DeviceRequest(c) \/ PolicyRequest(c) \/ AuditedRequest(c)
             \/ BackupRequest(c) \/ StatusRequest(c) \/ Disconnect(c)
      PROVE  ServerTypeOK'
  BY <1>1, DevicesTyped, PoliciesTyped, AuditedTyped, BackupsTyped, StatusTyped,
     DisconnectTyped
<1>2. ASSUME ServerTypeOK, UNCHANGED serverVars, Passes \/ UNCHANGED clockVars
      PROVE  ServerTypeOK'
  BY <1>2 DEF ServerTypeOK, ClockTypeOK, serverVars, clockVars, Passes
<1> QED
  BY <1>1, <1>2 DEF ServerNext

\* The services, the log and the running handlers keep their types.
THEOREM ServerTypes == ServerSpec => []ServerTypeOK
BY ServerStarts, ServerSteps, PTL DEF ServerSpec

-----------------------------------------------------------------------------
(* The audit log.  An entry on its way is about work that exists, that is not *)
(* in the log yet and that no other handler is about to log.                  *)

\* c is about to append an entry about w.
Carries(c, w) == Holds(c, w) /\ w.op # "ComplianceCheck"

Promised ==
    \A c \in Clients, w \in Work : Carries(c, w) => w \in DoneWork /\ ~Logged(w)

Alone ==
    \A c, d \in Clients, w \in Work : Carries(c, w) /\ Carries(d, w) => c = d

AuditInv == ServerTypeOK /\ AuditMatchesWork /\ Promised /\ Alone

\* Work that is done is what an entry can be about, and no compliance check.
LEMMA DoneIsWork ==
    ASSUME ServerTypeOK
    PROVE  DoneWork \subseteq Work /\ \A w \in DoneWork : w.op # "ComplianceCheck"
<1>1. DOMAIN backups \subseteq Nat /\ 1..tenants \subseteq Nat
  BY DEF ServerTypeOK
<1> QED
  BY <1>1 DEF DoneWork, Work

\* In the initial states nothing is done and nothing is logged.
LEMMA AuditStarts == ClockInit /\ ServerInit => AuditInv
<1> SUFFICES ASSUME ClockInit, ServerInit PROVE AuditInv
  OBVIOUS
<1>1. ServerTypeOK
  BY ServerStarts
<1>2. DoneWork = {} /\ DOMAIN audit = {}
  BY DEF ServerInit, DoneWork
<1>3. AuditMatchesWork
  BY <1>2 DEF AuditMatchesWork
<1>4. \A c \in Clients, w \in Work : ~Carries(c, w)
  BY DEF ServerInit, Carries, Holds
<1> QED
  BY <1>1, <1>3, <1>4 DEF AuditInv, Promised, Alone

\* Steps that neither do work nor log any: no handler begins to carry an entry,
\* and one that stops leaves its work among the dropped.
LEMMA NoNewWork ==
    ASSUME AuditInv, ServerTypeOK', audit' = audit, DoneWork' = DoneWork,
           dropped \subseteq dropped',
           \A c \in Clients, w \in Work : Carries(c, w)' => Carries(c, w),
           \A c \in Clients, w \in Work : Carries(c, w) => Carries(c, w)' \/ w \in dropped'
    PROVE  AuditInv'
<1>1. \A w : Logged(w)' <=> Logged(w)
  BY DEF Logged, WorkOf
<1>2. AuditMatchesWork'
  <2>1. \A i \in DOMAIN audit' :
            audit'[i].op # "ComplianceCheck" => WorkOf(audit'[i]) \in DoneWork'
    BY DEF AuditInv, AuditMatchesWork
  <2>2. \A i, j \in DOMAIN audit' :
            audit'[i].op # "ComplianceCheck" /\ WorkOf(audit'[i]) = WorkOf(audit'[j]) => i = j
    BY DEF AuditInv, AuditMatchesWork
  <2>3. ASSUME NEW w \in DoneWork PROVE Logged(w)' \/ Held(w)' \/ w \in dropped'
    <3>1. CASE Logged(w) \/ w \in dropped
      BY <1>1, <3>1
    <3>2. CASE Held(w)
      <4>1. w \in Work /\ w.op # "ComplianceCheck"
        BY DoneIsWork DEF AuditInv
      <4>2. PICK c \in Clients : Carries(c, w)
        BY <3>2, <4>1 DEF Held, Carries
      <4>3. CASE Carries(c, w)'
        BY <4>3 DEF Carries, Held
      <4> QED
        BY <4>1, <4>2, <4>3
    <3> QED
      BY <3>1, <3>2 DEF AuditInv, AuditMatchesWork
  <2> QED
    BY <2>1, <2>2, <2>3 DEF AuditMatchesWork, WorkOf
<1>3. Promised' /\ Alone'
  BY <1>1 DEF AuditInv, Promised, Alone
<1> QED
  BY <1>2, <1>3 DEF AuditInv


\* New work begins with a handler that carries it to the log.
LEMMA WorkBegins ==
    ASSUME AuditInv, ServerTypeOK', audit' = audit, dropped' = dropped,
           NEW c \in Clients, NEW new \in Work, new.op # "ComplianceCheck",
           new \notin DoneWork, DoneWork' = DoneWork \cup {new},
           \A d \in Clients, w \in Work :
               Carries(d, w)' <=> Carries(d, w) \/ (d = c /\ w = new)
    PROVE  AuditInv'
<1>1. \A w : Logged(w)' <=> Logged(w)
  BY DEF Logged, WorkOf
<1>2. ~Logged(new)
  <2>1. ASSUME NEW i \in DOMAIN audit, WorkOf(audit[i]) = new PROVE FALSE
    <3>1. audit[i].op # "ComplianceCheck"
      BY <2>1 DEF WorkOf
    <3> QED
      BY <2>1, <3>1 DEF AuditInv, AuditMatchesWork
  <2> QED
    BY <2>1 DEF Logged
<1>3. \A d \in Clients : ~Carries(d, new)
  BY DEF AuditInv, Promised
<1>4. AuditMatchesWork'
  <2>1. \A i \in DOMAIN audit' :
            audit'[i].op # "ComplianceCheck" => WorkOf(audit'[i]) \in DoneWork'
    BY DEF AuditInv, AuditMatchesWork
  <2>2. \A i, j \in DOMAIN audit' :
            audit'[i].op # "ComplianceCheck" /\ WorkOf(audit'[i]) = WorkOf(audit'[j]) => i = j
    BY DEF AuditInv, AuditMatchesWork
  <2>3. ASSUME NEW w \in DoneWork' PROVE Logged(w)' \/ Held(w)' \/ w \in dropped'
    <3>1. CASE w = new
      BY <3>1 DEF Held, Carries
    <3>2. CASE w # new /\ (Logged(w) \/ w \in dropped)
      BY <1>1, <3>2
    <3>3. CASE w # new /\ Held(w)
      <4>1. w \in Work /\ w.op # "ComplianceCheck"
        BY <3>3, DoneIsWork DEF AuditInv
      <4> QED
        BY <3>3, <4>1 DEF Held, Carries
    <3> QED
      BY <3>1, <3>2, <3>3 DEF AuditInv, AuditMatchesWork
  <2> QED
    BY <2>1, <2>2, <2>3 DEF AuditMatchesWork, WorkOf
<1>5. Promised'
  BY <1>1, <1>2 DEF AuditInv, Promised
<1>6. Alone'
  BY <1>3 DEF AuditInv, Alone
<1> QED
  BY <1>4, <1>5, <1>6 DEF AuditInv

\* An entry that is appended is about its own work, and nobody else's.
LEMMA EntryAppended ==
    ASSUME AuditInv, ServerTypeOK', NEW c \in Clients, AppendAudit(c)
    PROVE  AuditInv'
<1> DEFINE entry == call[c].entry
           mine == WorkOf(entry)
<1>0. /\ audit \in Seq(Entry) /\ call \in [Clients -> Call \cup {Nothing}]
      /\ DoneWork' = DoneWork /\ dropped' = dropped
  BY DEF AuditInv, ServerTypeOK, AppendAudit, DoneWork
<1>1. call[c] \in AuditCall
  BY <1>0 DEF AppendAudit, Call, AnswerCall, RegisterCall, StatusCall
<1>2. entry \in Entry
  BY <1>1 DEF AuditCall
<1>3. audit' = Append(audit, entry)
  BY DEF AppendAudit
<1>4. Holds(c, mine)
  BY DEF Holds, AppendAudit
<1>5. \A w : ~Holds(c, w)'
  BY <1>0 DEF Holds, AppendAudit, Finish, Continue
<1>6. \A w : \A d \in Clients : d # c => (Holds(d, w)' <=> Holds(d, w))
  BY <1>0 DEF Holds, AppendAudit, Finish, Continue, WorkOf
<1>7. entry.op # "ComplianceCheck" => mine \in Work /\ Carries(c, mine)
  BY <1>2, <1>4 DEF Carries, WorkOf, Entry, Work
<1>8. mine.op = entry.op
  BY DEF WorkOf
<1> HIDE DEF entry
<1>9. /\ DOMAIN audit = 1..Len(audit) /\ Len(audit) \in Nat
      /\ DOMAIN audit' = 1..(Len(audit) + 1)
      /\ audit'[Len(audit) + 1] = entry
      /\ \A i \in DOMAIN audit : audit'[i] = audit[i]
  BY <1>0, <1>2, <1>3
<1>10. \A w : Logged(w)' <=> Logged(w) \/ w = mine
  <2>1. \A w : Logged(w)' <=> \E i \in DOMAIN audit' : WorkOf(audit'[i]) = w
    BY DEF Logged, WorkOf
  <2> QED
    BY <1>9, <2>1 DEF Logged
<1>11. AuditMatchesWork'
  <2>1. ASSUME NEW i \in DOMAIN audit', audit'[i].op # "ComplianceCheck"
        PROVE  WorkOf(audit'[i]) \in DoneWork'
    <3>1. CASE i \in DOMAIN audit
      BY <1>0, <1>9, <2>1, <3>1 DEF AuditInv, AuditMatchesWork
    <3>2. CASE i = Len(audit) + 1
      BY <1>0, <1>7, <1>9, <2>1, <3>2 DEF AuditInv, Promised
    <3> QED
      BY <1>9, <3>1, <3>2
  <2>2. ASSUME NEW i \in DOMAIN audit', NEW j \in DOMAIN audit',
               audit'[i].op # "ComplianceCheck", WorkOf(audit'[i]) = WorkOf(audit'[j])
        PROVE  i = j
    <3>0. audit'[j].op # "ComplianceCheck"
      BY <2>2 DEF WorkOf
    <3>1. CASE i \in DOMAIN audit /\ j \in DOMAIN audit
      BY <1>9, <2>2, <3>1 DEF AuditInv, AuditMatchesWork
    <3>2. ASSUME NEW k \in DOMAIN audit, WorkOf(audit[k]) = mine,
                 entry.op # "ComplianceCheck"
          PROVE  FALSE
      BY <1>7, <3>2 DEF AuditInv, Promised, Logged
    <3>3. CASE i = Len(audit) + 1 /\ j \in DOMAIN audit
      BY <1>9, <2>2, <3>2, <3>3
    <3>4. CASE i \in DOMAIN audit /\ j = Len(audit) + 1
      BY <1>9, <2>2, <3>0, <3>2, <3>4
    <3> QED
      BY <1>9, <3>1, <3>3, <3>4
  <2>3. ASSUME NEW w \in DoneWork PROVE Logged(w)' \/ Held(w)' \/ w \in dropped'
    <3>1. CASE Logged(w) \/ w \in dropped
      BY <1>0, <1>10, <3>1
    <3>2. ASSUME NEW d \in Clients, Holds(d, w) PROVE Logged(w)' \/ Held(w)'
      <4>1. CASE d = c
        <5>1. w = mine
          BY <3>2, <4>1 DEF Holds, entry
        <5> QED
          BY <1>10, <5>1
      <4>2. CASE d # c
        BY <1>6, <3>2, <4>2 DEF Held
      <4> QED
        BY <4>1, <4>2
    <3> QED
      BY <3>1, <3>2 DEF AuditInv, AuditMatchesWork, Held
  <2> QED
    BY <1>0, <2>1, <2>2, <2>3 DEF AuditMatchesWork, WorkOf
<1>12. \A d \in Clients, w \in Work : Carries(d, w)' => d # c /\ Carries(d, w)
  BY <1>5, <1>6 DEF Carries
<1>13. Promised'
  <2> SUFFICES ASSUME NEW d \in Clients, NEW w \in Work, Carries(d, w)'
               PROVE  w \in DoneWork' /\ ~Logged(w)'
    BY DEF Promised
  <2>1. d # c /\ Carries(d, w)
    BY <1>12
  <2>2. w # mine
    BY <1>7, <1>8, <2>1 DEF AuditInv, Alone, Carries
  <2> QED
    BY <1>0, <1>10, <2>1, <2>2 DEF AuditInv, Promised
<1>14. Alone'
  BY <1>12 DEF AuditInv, Alone
<1> QED
  BY <1>11, <1>13, <1>14 DEF AuditInv

\* A handler that goes on without doing audited work.
LEMMA OtherCalls ==
    ASSUME AuditInv, ServerTypeOK', NEW c \in Clients, NEW rest, Continue(c, rest),
           audit' = audit, DoneWork' = DoneWork, dropped' = dropped,
           ~(call[c] # Nothing /\ call[c].op = "audit"),
           rest # Nothing /\ rest.op = "audit" => rest.entry.op = "ComplianceCheck"
    PROVE  AuditInv'
<1>0. call \in [Clients -> Call \cup {Nothing}]
  BY DEF AuditInv, ServerTypeOK
<1>1. call'[c] = rest /\ \A d \in Clients : d # c => call'[d] = call[d]
  BY <1>0 DEF Continue
<1>2. \A w : ~Carries(c, w) /\ ~Carries(c, w)'
  BY <1>1 DEF Carries, Holds, WorkOf
<1>3. \A d \in Clients, w \in Work : d # c => (Carries(d, w)' <=> Carries(d, w))
  BY <1>1 DEF Carries, Holds, WorkOf
<1> QED
  BY <1>2, <1>3, NoNewWork

\* A request that is answered at once.
LEMMA NoCall ==
    ASSUME AuditInv, ServerTypeOK', call' = call,
           audit' = audit, DoneWork' = DoneWork, dropped' = dropped
    PROVE  AuditInv'
<1>1. \A d \in Clients, w \in Work : Carries(d, w)' <=> Carries(d, w)
  BY DEF Carries, Holds, WorkOf
<1> QED
  BY <1>1, NoNewWork

\* A status request goes on as a status request, or ends.
LEMMA StatusGoesOn ==
    ASSUME ServerTypeOK, NEW c \in Clients, StatusRequest(c)
    PROVE  \E rest : Continue(c, rest) /\ (rest # Nothing => rest.op = "status")
<1>0. call[c] \in Call \cup {Nothing}
  BY DEF ServerTypeOK
<1>1. CASE StatusReadsDevices(c)
  <2> DEFINE offline == {d \in Fleet : devices[d].status = "offline"}
             rest == [op |-> "status", connected |-> Cardinality(Fleet),
                      health |-> Health(Cardinality(Fleet), Cardinality(offline)),
                      snapshots |-> Nothing]
  <2>1. Continue(c, rest)
    BY <1>1 DEF StatusReadsDevices
  <2>2. rest.op = "status"
    OBVIOUS
  <2> HIDE DEF rest
  <2> QED
    BY <2>1, <2>2
<1>2. CASE StatusReadsSnapshots(c)
  <2> DEFINE n == Cardinality(snapshots)
             rest == [call[c] EXCEPT !.snapshots = n]
  <2>1. call[c] \in StatusCall
    BY <1>0, <1>2 DEF StatusReadsSnapshots, Call, AnswerCall, RegisterCall, AuditCall
  <2>2. Continue(c, rest)
    BY <1>2 DEF StatusReadsSnapshots
  <2> HIDE DEF n
  <2>3. rest.op = "status"
    BY <2>1 DEF StatusCall
  <2> HIDE DEF rest
  <2> QED
    BY <2>2, <2>3
<1>3. CASE StatusReadsBackups(c)
  BY <1>3 DEF StatusReadsBackups, Finish
<1> QED
  BY <1>1, <1>2, <1>3 DEF StatusRequest

\* The requests that are not audited.
LEMMA UnauditedKeep ==
    ASSUME AuditInv, ServerTypeOK', NEW c \in Clients,
           \/ DeviceRequest(c) \/ PolicyRequest(c) \/ BackupRequest(c) \/ StatusRequest(c)
           \/ \E passes \in BOOLEAN : ComplianceCheck(c, passes)
    PROVE  AuditInv'
<1>0. backups \in Seq(Backup)
  BY DEF AuditInv, ServerTypeOK
<1>1. CASE DeviceRequest(c)
  <2>0. audit' = audit /\ dropped' = dropped /\ DoneWork' = DoneWork
    BY <1>1 DEF DeviceRequest, RegisterArrives, UpdateDeviceStatus, DeviceHeartbeat,
                UnregisterDevice, RegisterStores, AnswerDeviceStatus, DoneWork
  <2>1. ASSUME NEW d \in DeviceIds, RegisterArrives(c, d) PROVE AuditInv'
    <3>1. call[c] = Nothing
      BY <2>1 DEF RegisterArrives, Arrives
    <3>2. Continue(c, [op |-> "register", device |-> d, made |-> clock])
      BY <2>1 DEF RegisterArrives
    <3> QED
      BY <2>0, <3>1, <3>2, OtherCalls
  <2>2. ASSUME NEW d \in DeviceIds, NEW status \in DeviceStatus,
               UpdateDeviceStatus(c, d, status)
        PROVE  AuditInv'
    <3>1. call[c] = Nothing
      BY <2>2 DEF UpdateDeviceStatus, Arrives
    <3>2. Continue(c, [op |-> "answer", device |-> d]) \/ call' = call
      BY <2>2 DEF UpdateDeviceStatus
    <3> QED
      BY <2>0, <3>1, <3>2, OtherCalls, NoCall
  <2>3. ASSUME NEW d \in DeviceIds, DeviceHeartbeat(c, d) \/ UnregisterDevice(c, d)
        PROVE  AuditInv'
    BY <2>0, <2>3, NoCall DEF DeviceHeartbeat, UnregisterDevice
  <2>4. CASE RegisterStores(c) \/ AnswerDeviceStatus(c)
    <3>1. call[c].op # "audit" /\ Continue(c, Nothing)
      BY <2>4 DEF RegisterStores, AnswerDeviceStatus, Finish
    <3> QED
      BY <2>0, <3>1, OtherCalls
  <2> QED
    BY <1>1, <2>1, <2>2, <2>3, <2>4 DEF DeviceRequest
<1>2. CASE PolicyRequest(c)
  <2>1. UNCHANGED <<call, audit, backups, tenants, dropped>>
    BY <1>2 DEF PolicyRequest, CreatePolicy, UpdatePolicy, DeletePolicy
  <2> QED
    BY <2>1, NoCall DEF DoneWork
<1>3. CASE BackupRequest(c)
  <2>1. UNCHANGED <<call, audit, tenants, dropped>> /\ DOMAIN backups' = DOMAIN backups
    BY <1>0, <1>3 DEF BackupRequest, UpdateBackup, CancelBackup, SetStatus, StoreSnapshot,
                      DeleteSnapshot
  <2> QED
    BY <2>1, NoCall DEF DoneWork
<1>4. CASE StatusRequest(c)
  <2>0. audit' = audit /\ dropped' = dropped /\ DoneWork' = DoneWork
    BY <1>4 DEF StatusRequest, StatusReadsDevices, StatusReadsSnapshots, StatusReadsBackups,
                DoneWork
  <2>1. PICK rest : Continue(c, rest) /\ (rest # Nothing => rest.op = "status")
    BY <1>4, StatusGoesOn DEF AuditInv
  <2>2. call[c] # Nothing => call[c].op = "status"
    BY <1>4 DEF StatusRequest, StatusReadsDevices, StatusReadsSnapshots, StatusReadsBackups,
                Arrives
  <2> QED
    BY <2>0, <2>1, <2>2, OtherCalls
<1>5. ASSUME NEW passes \in BOOLEAN, ComplianceCheck(c, passes) PROVE AuditInv'
  <2> DEFINE result == IF passes THEN "success" ELSE "failure"
             rest == [op |-> "audit", entry |-> [op |-> "ComplianceCheck", target |-> 0,
                                                 result |-> result]]
  <2>1. Continue(c, rest) /\ call[c] = Nothing
    BY <1>5 DEF ComplianceCheck, Arrives
  <2>2. rest.entry.op = "ComplianceCheck"
    OBVIOUS
  <2>3. UNCHANGED <<backups, tenants, audit, dropped>>
    BY <1>5 DEF ComplianceCheck
  <2> HIDE DEF rest
  <2> QED
    BY <2>1, <2>2, <2>3, OtherCalls DEF DoneWork
<1> QED
  BY <1>1, <1>2, <1>3, <1>4, <1>5

\* What work that is done looks like.
LEMMA DoneLooks ==
    ASSUME NEW w \in DoneWork
    PROVE  \/ w.op = "BackupStarted" /\ w.target \in DOMAIN backups
           \/ w.op = "TenantCreated" /\ w.target \in 1..tenants
BY DEF DoneWork

\* trigger_backup and create_tenant: the id of the work is new.
LEMMA WorkKeeps ==
    ASSUME AuditInv, ServerTypeOK', NEW c \in Clients,
           CreateTenant(c) \/ \E d \in DeviceIds : TriggerBackup(c, d)
    PROVE  AuditInv'
<1>0. /\ backups \in Seq(Backup) /\ tenants \in Nat
      /\ call \in [Clients -> Call \cup {Nothing}]
  BY DEF AuditInv, ServerTypeOK
<1>1. ASSUME NEW new \in Work, new.op # "ComplianceCheck", new \notin DoneWork,
             DoneWork' = DoneWork \cup {new}, call[c] = Nothing, audit' = audit,
             dropped' = dropped,
             Continue(c, [op |-> "audit", entry |-> Success(new.op, new.target)])
      PROVE  AuditInv'
  <2> DEFINE rest == [op |-> "audit", entry |-> Success(new.op, new.target)]
  <2>1. rest.op = "audit" /\ WorkOf(rest.entry) = new
    BY DEF Success, WorkOf, Work
  <2>2. call'[c] = rest /\ \A d \in Clients : d # c => call'[d] = call[d]
    BY <1>0, <1>1 DEF Continue
  <2> HIDE DEF rest
  <2>3. \A w : ~Carries(c, w)
    BY <1>1 DEF Carries, Holds
  <2>4. rest # Nothing
    <3>1. Success(new.op, new.target) \in Entry
      BY <1>1 DEF Success, Entry, Work
    <3>2. rest \in AuditCall
      BY <3>1 DEF AuditCall, rest
    <3> QED
      BY <3>2, ServerAssumption DEF Call
  <2>5. \A w \in Work : Carries(c, w)' <=> w = new
    BY <1>1, <2>1, <2>2, <2>4 DEF Carries, Holds, WorkOf
  <2>6. \A d \in Clients, w \in Work : d # c => (Carries(d, w)' <=> Carries(d, w))
    BY <2>2 DEF Carries, Holds, WorkOf
  <2> QED
    BY <1>1, <2>3, <2>5, <2>6, WorkBegins
<1>2. DOMAIN backups = 1..Len(backups) /\ Len(backups) \in Nat
  BY <1>0
<1>3. ASSUME NEW d \in DeviceIds, TriggerBackup(c, d) PROVE AuditInv'
  <2> DEFINE new == [op |-> "BackupStarted", target |-> Len(backups) + 1]
  <2>1. new \in Work /\ new.op = "BackupStarted" /\ new.target = Len(backups) + 1
    BY <1>2 DEF Work
  <2>2. new \notin DoneWork
    <3>1. new.target \notin DOMAIN backups /\ new.op # "TenantCreated"
      BY <1>2, <2>1
    <3> HIDE DEF new
    <3> QED
      BY <3>1, DoneLooks
  <2>3. DOMAIN backups' = 1..(Len(backups) + 1)
    BY <1>0, <1>3 DEF TriggerBackup
  <2>4. DoneWork' = DoneWork \cup {new}
    <3>1. DOMAIN backups' = DOMAIN backups \cup {Len(backups) + 1}
      BY <1>2, <2>3
    <3>2. tenants' = tenants
      BY <1>3 DEF TriggerBackup
    <3> QED
      BY <3>1, <3>2, ZenonT(30) DEF DoneWork
  <2>5. /\ Continue(c, [op |-> "audit", entry |-> Success("BackupStarted", Len(backups) + 1)])
        /\ call[c] = Nothing /\ audit' = audit /\ dropped' = dropped
    BY <1>3 DEF TriggerBackup, Arrives
  <2> HIDE DEF new
  <2> QED
    BY <1>1, <2>1, <2>2, <2>4, <2>5
<1>4. CASE CreateTenant(c)
  <2> DEFINE new == [op |-> "TenantCreated", target |-> tenants + 1]
  <2>1. new \in Work /\ new.op = "TenantCreated" /\ new.target = tenants + 1
    BY <1>0 DEF Work
  <2>2. new \notin DoneWork
    <3>1. new.target \notin 1..tenants /\ new.op # "BackupStarted"
      BY <1>0, <2>1
    <3> HIDE DEF new
    <3> QED
      BY <3>1, DoneLooks
  <2>3. tenants' = tenants + 1 /\ backups' = backups
    BY <1>4 DEF CreateTenant
  <2>4. DoneWork' = DoneWork \cup {new}
    <3>1. 1..tenants' = (1..tenants) \cup {tenants + 1}
      BY <1>0, <2>3
    <3> QED
      BY <2>3, <3>1, ZenonT(30) DEF DoneWork
  <2>5. /\ Continue(c, [op |-> "audit", entry |-> Success("TenantCreated", tenants + 1)])
        /\ call[c] = Nothing /\ audit' = audit /\ dropped' = dropped
    BY <1>4 DEF CreateTenant, Arrives
  <2> HIDE DEF new
  <2> QED
    BY <1>1, <2>1, <2>2, <2>4, <2>5
<1> QED
  BY <1>3, <1>4

\* A client that goes away with work unlogged: it is among the dropped.
LEMMA DisconnectKeeps ==
    ASSUME AuditInv, ServerTypeOK', NEW c \in Clients, Disconnect(c)
    PROVE  AuditInv'
<1>0. call \in [Clients -> Call \cup {Nothing}]
  BY DEF AuditInv, ServerTypeOK
<1>1. audit' = audit /\ DoneWork' = DoneWork
  BY DEF Disconnect, DoneWork
<1>2. call'[c] = Nothing /\ \A d \in Clients : d # c => call'[d] = call[d]
  BY <1>0 DEF Disconnect, Finish, Continue
<1>3. \A d \in Clients, w \in Work : Carries(d, w)' <=> d # c /\ Carries(d, w)
  BY <1>2 DEF Carries, Holds, WorkOf
<1>4. ASSUME NEW w \in Work, Carries(c, w) PROVE w \in dropped'
  BY <1>4 DEF Carries, Holds, WorkOf, Disconnect
<1>5. dropped \subseteq dropped'
  BY DEF Disconnect
<1> QED
  BY <1>1, <1>3, <1>4, <1>5, NoNewWork

\* Every step keeps the invariant of the log.
LEMMA AuditSteps == AuditInv /\ [ServerNext]_<<clockVars, serverVars>> => AuditInv'
<1> SUFFICES ASSUME AuditInv, [ServerNext]_<<clockVars, serverVars>> PROVE AuditInv'
  OBVIOUS
<1>1. ServerTypeOK'
  BY ServerSteps DEF AuditInv
<1>2. ASSUME NEW c \in Clients,
             \/ DeviceRequest(c) \/ PolicyRequest(c) \/ AuditedRequest(c)
             \/ BackupRequest(c) \/ StatusRequest(c) \/ Disconnect(c)
      PROVE  AuditInv'
  BY <1>1, <1>2, UnauditedKeep, WorkKeeps, EntryAppended, DisconnectKeeps
     DEF AuditedRequest
<1>3. ASSUME UNCHANGED serverVars PROVE AuditInv'
  BY <1>1, <1>3, NoCall DEF serverVars, DoneWork
<1> QED
  BY <1>2, <1>3 DEF ServerNext

\* trigger_backup and create_tenant, for any number of clients that may leave at
\* any await: nothing is logged twice or without its work, and work that is not
\* in the log is on its way there or was dropped with its handler.
THEOREM LogMatchesWork == ServerSpec => []AuditMatchesWork
<1>1. AuditInv => AuditMatchesWork
  BY DEF AuditInv
<1> QED
  BY <1>1, AuditStarts, AuditSteps, PTL DEF ServerSpec

-----------------------------------------------------------------------------
(* Devices and policies *)

\* No record is from the future, those about to be registered included.
Timely ==
    /\ \A d \in DeviceIds : devices[d] # Nothing => devices[d].lastSeen <= clock
    /\ \A c \in Clients :
          call[c] # Nothing /\ call[c].op = "register" => call[c].made <= clock

\* Every policy has the id it is stored under.
Filed == \A p \in PolicyIds : policies[p] # Nothing => policies[p].id = p

RecordsInv == ServerTypeOK /\ Timely /\ Filed

\* What a step may do to a device ...
Forward(d) ==
    devices[d] # Nothing /\ devices'[d] # Nothing =>
        /\ devices'[d].lastSeen >= devices[d].lastSeen
        /\ devices'[d].registeredAt = devices[d].registeredAt

\* ... and to a policy.
Keeps(p) ==
    policies'[p] # Nothing =>
        /\ policies'[p].id = p
        /\ policies[p] # Nothing => policies'[p].createdAt = policies[p].createdAt

\* A device that is seen now is seen no earlier than before.
LEMMA SeenNow ==
    ASSUME RecordsInv, NEW d \in DeviceIds, NEW status, devices[d] # Nothing,
           devices' = [devices EXCEPT ![d] = Stamped(status, devices[d].registeredAt)],
           clock' = clock
    PROVE  /\ \A e \in DeviceIds : Forward(e)
           /\ \A e \in DeviceIds : devices'[e] # Nothing => devices'[e].lastSeen <= clock'
<1> DEFINE next == Stamped(status, devices[d].registeredAt)
<1>1. next.lastSeen = clock /\ next.registeredAt = devices[d].registeredAt
  BY DEF Stamped
<1>2. /\ clock \in Nat /\ devices \in [DeviceIds -> Device \cup {Nothing}]
      /\ \A e \in DeviceIds : devices[e] # Nothing => devices[e].lastSeen <= clock
  BY DEF RecordsInv, ServerTypeOK, ClockTypeOK, Timely
<1>3. \A e \in DeviceIds : devices[e] # Nothing => devices[e].lastSeen \in Nat
  BY <1>2 DEF Device
<1>4. \A e \in DeviceIds : devices'[e] = IF e = d THEN next ELSE devices[e]
  BY <1>2
<1> HIDE DEF next
<1> QED
  BY <1>1, <1>2, <1>3, <1>4 DEF Forward

\* Devices do not go back, and none is stamped ahead of the clock.
LEMMA DevicesForward ==
    ASSUME RecordsInv, NEW c \in Clients, DeviceRequest(c)
    PROVE  Timely' /\ \A d \in DeviceIds : Forward(d)
<1>0. /\ clock \in Nat /\ devices \in [DeviceIds -> Device \cup {Nothing}]
      /\ call \in [Clients -> Call \cup {Nothing}] /\ Timely
  BY DEF RecordsInv, ServerTypeOK, ClockTypeOK
<1>1. clock' = clock
  BY DEF DeviceRequest, RegisterArrives, UpdateDeviceStatus, DeviceHeartbeat,
         UnregisterDevice, RegisterStores, AnswerDeviceStatus, Arrives, Request, clockVars
<1>2. \A d \in DeviceIds : devices[d] # Nothing =>
          devices[d].lastSeen \in Nat /\ devices[d].lastSeen <= clock
  BY <1>0 DEF Device, Timely
<1>3. ASSUME devices' = devices
      PROVE  /\ \A d \in DeviceIds : Forward(d)
             /\ \A d \in DeviceIds : devices'[d] # Nothing => devices'[d].lastSeen <= clock'
  BY <1>1, <1>2, <1>3 DEF Forward
<1>4. ASSUME NEW rest, Continue(c, rest),
             rest # Nothing /\ rest.op = "register" => rest.made <= clock
      PROVE  \A d \in Clients : call'[d] # Nothing /\ call'[d].op = "register" =>
                                    call'[d].made <= clock'
  BY <1>0, <1>1, <1>4 DEF Continue, Timely
<1>5. ASSUME call' = call
      PROVE  \A d \in Clients : call'[d] # Nothing /\ call'[d].op = "register" =>
                                    call'[d].made <= clock'
  BY <1>0, <1>1, <1>5 DEF Timely
<1>6. ASSUME NEW d \in DeviceIds, RegisterArrives(c, d)
      PROVE  Timely' /\ \A e \in DeviceIds : Forward(e)
  <2> DEFINE rest == [op |-> "register", device |-> d, made |-> clock]
  <2>1. devices' = devices /\ Continue(c, rest)
    BY <1>6 DEF RegisterArrives
  <2>2. rest.made <= clock
    BY <1>0
  <2> HIDE DEF rest
  <2> QED
    BY <1>3, <1>4, <2>1, <2>2 DEF Timely
<1>7. ASSUME NEW d \in DeviceIds, NEW status \in DeviceStatus, UpdateDeviceStatus(c, d, status)
      PROVE  Timely' /\ \A e \in DeviceIds : Forward(e)
  <2>1. CASE Registered(d)
    <3> DEFINE rest == [op |-> "answer", device |-> d]
    <3>1. devices' = [devices EXCEPT ![d] = Stamped(status, devices[d].registeredAt)]
          /\ Continue(c, rest)
      BY <1>7, <2>1 DEF UpdateDeviceStatus
    <3>2. rest.op # "register"
      OBVIOUS
    <3> HIDE DEF rest
    <3> QED
      BY <1>1, <1>4, <2>1, <3>1, <3>2, SeenNow DEF Timely, Registered
  <2>2. CASE ~Registered(d)
    BY <1>3, <1>5, <1>7, <2>2 DEF UpdateDeviceStatus, Timely
  <2> QED
    BY <2>1, <2>2
<1>8. ASSUME NEW d \in DeviceIds, DeviceHeartbeat(c, d)
      PROVE  Timely' /\ \A e \in DeviceIds : Forward(e)
  <2>1. CASE Registered(d)
    BY <1>1, <1>5, <1>8, <2>1, SeenNow DEF DeviceHeartbeat, Timely, Registered
  <2>2. CASE ~Registered(d)
    BY <1>3, <1>5, <1>8, <2>2 DEF DeviceHeartbeat, Timely
  <2> QED
    BY <2>1, <2>2
<1>9. ASSUME NEW d \in DeviceIds, UnregisterDevice(c, d)
      PROVE  Timely' /\ \A e \in DeviceIds : Forward(e)
  <2>1. \A e \in DeviceIds : devices'[e] = devices[e] \/ devices'[e] = Nothing
    BY <1>0, <1>9 DEF UnregisterDevice
  <2>2. call' = call
    BY <1>9 DEF UnregisterDevice
  <2> QED
    BY <1>1, <1>2, <1>5, <2>1, <2>2 DEF Timely, Forward
<1>10. CASE RegisterStores(c)
  <2> DEFINE d == call[c].device
             fresh == [status |-> "online", registeredAt |-> call[c].made,
                       lastSeen |-> call[c].made]
  <2>1. call[c] \in RegisterCall /\ call[c].made <= clock
    BY <1>0, <1>10 DEF RegisterStores, Call, AnswerCall, AuditCall, StatusCall, Timely
  <2>2. d \in DeviceIds /\ fresh.lastSeen <= clock
    BY <2>1 DEF RegisterCall
  <2>3. Continue(c, Nothing)
    BY <1>10 DEF RegisterStores, Finish
  <2>4. CASE Registered(d)
    <3>1. devices' = [devices EXCEPT ![d] = Stamped("online", devices[d].registeredAt)]
      BY <1>10, <2>4 DEF RegisterStores
    <3> HIDE DEF d
    <3> QED
      BY <1>1, <1>4, <2>2, <2>3, <2>4, <3>1, SeenNow DEF Timely, Registered
  <2>5. CASE ~Registered(d)
    <3>1. devices' = [devices EXCEPT ![d] = fresh]
      BY <1>10, <2>5 DEF RegisterStores
    <3> HIDE DEF d, fresh
    <3>2. \A e \in DeviceIds : devices'[e] = IF e = d THEN fresh ELSE devices[e]
      BY <1>0, <3>1
    <3> QED
      BY <1>1, <1>2, <1>4, <2>2, <2>3, <2>5, <3>2 DEF Timely, Registered, Forward
  <2> QED
    BY <2>4, <2>5
<1>11. CASE AnswerDeviceStatus(c)
  BY <1>3, <1>4, <1>11 DEF AnswerDeviceStatus, Finish, Timely
<1> QED
  BY <1>6, <1>7, <1>8, <1>9, <1>10, <1>11 DEF DeviceRequest

\* Requests that are not about devices leave them and the registrations alone.
LEMMA OthersTimely ==
    ASSUME RecordsInv, NEW c \in Clients, devices' = devices, clock' = clock,
           \/ call' = call
           \/ \E rest : Continue(c, rest) /\ (rest # Nothing => rest.op # "register")
    PROVE  Timely' /\ \A d \in DeviceIds : Forward(d)
<1>0. /\ devices \in [DeviceIds -> Device \cup {Nothing}]
      /\ call \in [Clients -> Call \cup {Nothing}] /\ Timely
  BY DEF RecordsInv, ServerTypeOK
<1>1. \A d \in DeviceIds : Forward(d)
  <2>1. \A d \in DeviceIds : devices[d] # Nothing => devices[d].lastSeen \in Nat
    BY <1>0 DEF Device
  <2> QED
    BY <2>1 DEF Forward
<1>2. \A d \in Clients : call'[d] # Nothing /\ call'[d].op = "register" => call'[d] = call[d]
  BY <1>0 DEF Continue
<1> QED
  BY <1>0, <1>1, <1>2 DEF Timely

\* What a request about a policy does to the policies.
LEMMA PoliciesFiled ==
    ASSUME RecordsInv, NEW c \in Clients, PolicyRequest(c)
    PROVE  Filed' /\ \A q \in PolicyIds : Keeps(q)
<1>0. /\ policies \in [PolicyIds -> Policy \cup {Nothing}] /\ Filed
  BY DEF RecordsInv, ServerTypeOK
<1>1. PICK p \in PolicyIds :
         \/ \E body \in Bodies : CreatePolicy(c, p, body) \/ UpdatePolicy(c, p, body)
         \/ DeletePolicy(c, p)
  BY DEF PolicyRequest
<1>2. ASSUME NEW next, policies' = [policies EXCEPT ![p] = next],
             next # Nothing => /\ next.id = p
                               /\ policies[p] # Nothing =>
                                     next.createdAt = policies[p].createdAt
      PROVE  Filed' /\ \A q \in PolicyIds : Keeps(q)
  BY <1>0, <1>2 DEF Filed, Keeps
<1>3. ASSUME NEW body \in Bodies, CreatePolicy(c, p, body)
      PROVE  Filed' /\ \A q \in PolicyIds : Keeps(q)
  <2> DEFINE next == [id |-> p, target |-> body.target, createdAt |-> clock,
                      updatedAt |-> clock]
  <2>1. policies' = [policies EXCEPT ![p] = next] /\ policies[p] = Nothing
    BY <1>3 DEF CreatePolicy
  <2>2. next.id = p
    OBVIOUS
  <2> HIDE DEF next
  <2> QED
    BY <1>2, <2>1, <2>2
<1>4. ASSUME NEW body \in Bodies, UpdatePolicy(c, p, body)
      PROVE  Filed' /\ \A q \in PolicyIds : Keeps(q)
  <2>1. CASE policies[p] = Nothing
    BY <1>0, <1>4, <2>1 DEF UpdatePolicy, Filed, Keeps
  <2>2. CASE policies[p] # Nothing
    <3> DEFINE next == Updated(policies[p], body)
    <3>1. policies[p] \in Policy /\ policies[p].id = p
      BY <1>0, <2>2 DEF Filed
    <3>2. next.id = p /\ next.createdAt = policies[p].createdAt
      BY <3>1 DEF Updated, Policy
    <3>3. policies' = [policies EXCEPT ![p] = next]
      BY <1>4, <2>2 DEF UpdatePolicy
    <3> HIDE DEF next
    <3> QED
      BY <1>2, <3>2, <3>3
  <2> QED
    BY <2>1, <2>2
<1>5. CASE DeletePolicy(c, p)
  BY <1>2, <1>5 DEF DeletePolicy
<1> QED
  BY <1>1, <1>3, <1>4, <1>5

\* A step of a handler keeps the records, and moves none of them back.
LEMMA RecordsStep ==
    ASSUME RecordsInv, ServerTypeOK', NEW c \in Clients,
           \/ DeviceRequest(c) \/ PolicyRequest(c) \/ AuditedRequest(c)
           \/ BackupRequest(c) \/ StatusRequest(c) \/ Disconnect(c)
    PROVE  /\ RecordsInv'
           /\ \A d \in DeviceIds : Forward(d)
           /\ \A p \in PolicyIds : Keeps(p)
<1>1. ASSUME policies' = policies PROVE Filed' /\ \A p \in PolicyIds : Keeps(p)
  BY <1>1 DEF RecordsInv, Filed, Keeps
<1> SUFFICES /\ Timely' /\ Filed'
             /\ \A d \in DeviceIds : Forward(d)
             /\ \A p \in PolicyIds : Keeps(p)
  BY DEF RecordsInv
<1>2. CASE DeviceRequest(c)
  <2>1. policies' = policies
    BY <1>2 DEF DeviceRequest, RegisterArrives, UpdateDeviceStatus, DeviceHeartbeat,
                UnregisterDevice, RegisterStores, AnswerDeviceStatus
  <2> QED
    BY <1>1, <1>2, <2>1, DevicesForward
<1>3. CASE PolicyRequest(c)
  <2>1. devices' = devices /\ clock' = clock /\ call' = call
    BY <1>3 DEF PolicyRequest, CreatePolicy, UpdatePolicy, DeletePolicy, Arrives, Request
  <2> QED
    BY <1>3, <2>1, OthersTimely, PoliciesFiled
<1>4. CASE AuditedRequest(c)
  <2>1. devices' = devices /\ clock' = clock /\ policies' = policies
    BY <1>4 DEF AuditedRequest, TriggerBackup, CreateTenant, ComplianceCheck, AppendAudit,
                Arrives, Request, clockVars
  <2>2. \E rest : Continue(c, rest) /\ (rest # Nothing => rest.op # "register")
    <3>1. ASSUME NEW entry, Continue(c, [op |-> "audit", entry |-> entry])
          PROVE  \E rest : Continue(c, rest) /\ (rest # Nothing => rest.op # "register")
      <4> DEFINE rest == [op |-> "audit", entry |-> entry]
      <4>1. rest.op # "register"
        OBVIOUS
      <4> QED
        BY <3>1, <4>1
    <3>2. CASE AppendAudit(c)
      BY <3>2 DEF AppendAudit, Finish
    <3>3. CASE ~AppendAudit(c)
      BY <1>4, <3>1, <3>3 DEF AuditedRequest, TriggerBackup, CreateTenant, ComplianceCheck
    <3> QED
      BY <3>2, <3>3
  <2> QED
    BY <1>1, <2>1, <2>2, OthersTimely
<1>5. CASE BackupRequest(c)
  <2>1. UNCHANGED <<devices, policies, call, clock>>
    BY <1>5 DEF BackupRequest, UpdateBackup, CancelBackup, StoreSnapshot, DeleteSnapshot,
                Arrives, Request
  <2> QED
    BY <1>1, <2>1, OthersTimely
<1>6. CASE StatusRequest(c)
  <2>1. UNCHANGED <<devices, policies, clock>>
    BY <1>6 DEF StatusRequest, StatusReadsDevices, StatusReadsSnapshots, StatusReadsBackups,
                Arrives, Request, clockVars
  <2>2. \E rest : Continue(c, rest) /\ (rest # Nothing => rest.op # "register")
    BY <1>6, StatusGoesOn DEF RecordsInv
  <2> QED
    BY <1>1, <2>1, <2>2, OthersTimely
<1>7. CASE Disconnect(c)
  <2>1. UNCHANGED <<devices, policies, clock>> /\ Continue(c, Nothing)
    BY <1>7 DEF Disconnect, Finish, clockVars
  <2> QED
    BY <1>1, <2>1, OthersTimely
<1> QED
  BY <1>2, <1>3, <1>4, <1>5, <1>6, <1>7

\* The invariant of the records, and what steps do to them.
LEMMA RecordsSteps ==
    ASSUME RecordsInv, [ServerNext]_<<clockVars, serverVars>>
    PROVE  /\ RecordsInv'
           /\ \A d \in DeviceIds : Forward(d)
           /\ \A p \in PolicyIds : Keeps(p)
<1>1. ServerTypeOK'
  BY ServerSteps DEF RecordsInv
<1>2. CASE \E c \in Clients :
              \/ DeviceRequest(c) \/ PolicyRequest(c) \/ AuditedRequest(c)
              \/ BackupRequest(c) \/ StatusRequest(c) \/ Disconnect(c)
  BY <1>1, <1>2, RecordsStep
<1>3. ASSUME UNCHANGED serverVars, Passes \/ UNCHANGED clockVars
      PROVE  /\ RecordsInv'
             /\ \A d \in DeviceIds : Forward(d)
             /\ \A p \in PolicyIds : Keeps(p)
  <2>1. UNCHANGED <<devices, policies, call>> /\ (clock' = clock \/ clock' = clock + 1)
    BY <1>3 DEF serverVars, clockVars, Passes
  <2>2. /\ \A d \in DeviceIds : devices[d] # Nothing => devices[d].lastSeen \in Nat
        /\ \A c \in Clients :
              call[c] # Nothing /\ call[c].op = "register" => call[c].made \in Nat
        /\ clock \in Nat
    BY DEF RecordsInv, ServerTypeOK, ClockTypeOK, Device, Call, RegisterCall, AnswerCall,
           AuditCall, StatusCall
  <2>3. Timely'
    BY <2>1, <2>2 DEF RecordsInv, Timely
  <2>4. \A d \in DeviceIds : Forward(d)
    BY <2>1, <2>2 DEF Forward
  <2>5. Filed' /\ \A p \in PolicyIds : Keeps(p)
    BY <2>1 DEF RecordsInv, Filed, Keeps
  <2> QED
    BY <1>1, <2>3, <2>4, <2>5 DEF RecordsInv
<1> QED
  BY <1>2, <1>3 DEF ServerNext

\* The invariant holds at the start.
LEMMA RecordsStart == ClockInit /\ ServerInit => RecordsInv
BY ServerStarts DEF ServerInit, RecordsInv, Timely, Filed

\* A device that stays registered does not go back in time, whichever order the
\* clocks of its registrations were read and stored in.
THEOREM DevicesGoForward == ServerSpec => LastSeenForward
<1>1. RecordsInv /\ [ServerNext]_<<clockVars, serverVars>> =>
          RecordsInv' /\ [\A d \in DeviceIds :
             devices[d] # Nothing /\ devices'[d] # Nothing =>
                 /\ devices'[d].lastSeen >= devices[d].lastSeen
                 /\ devices'[d].registeredAt = devices[d].registeredAt]_serverVars
  BY RecordsSteps DEF Forward
<1> QED
  BY <1>1, RecordsStart, PTL DEF ServerSpec, LastSeenForward

\* A policy keeps its id and its time of creation, whatever documents are sent.
THEOREM PoliciesStay == ServerSpec => PoliciesKeepIdentity
<1>1. RecordsInv /\ [ServerNext]_<<clockVars, serverVars>> =>
          RecordsInv' /\ [\A p \in PolicyIds :
             policies'[p] # Nothing =>
                 /\ policies'[p].id = p
                 /\ policies[p] # Nothing =>
                       policies'[p].createdAt = policies[p].createdAt]_serverVars
  BY RecordsSteps DEF Keeps
<1> QED
  BY <1>1, RecordsStart, PTL DEF ServerSpec, PoliciesKeepIdentity

-----------------------------------------------------------------------------
(* Agents.  A cached status is as old as its entry plus what it waited before *)
(* it became one, and no status waited longer than delay.                     *)

\* A status, cached or found in the cache by a command.
Waited(status) == status.at <= clock /\ status.at - status.made <= delay

AgentTask == QueryTask \cup DecideTask \cup StoreTask \cup AuthTask

AgentMaps ==
    /\ ClockTypeOK
    /\ delay \in Nat
    /\ cache \in [Agents -> CachedStatus \cup {Nothing}]
    /\ task \in [Tasks -> AgentTask \cup {Nothing}]

CacheWaited == \A a \in Agents : cache[a] # Nothing => Waited(cache[a])

TaskWaited(t) ==
    task[t] # Nothing =>
        /\ task[t].pc = "decide" /\ task[t].found # Nothing => Waited(task[t].found)
        /\ task[t].pc = "store" => task[t].made <= clock

\* The bound, with the types of the answer it speaks of.
AnswerAge ==
    answer # Nothing /\ answer.kind = "cached" =>
        /\ answer.given \in Nat /\ answer.made \in Nat
        /\ answer.given - answer.made < CacheTtl + delay

AgentInv ==
    /\ AgentMaps
    /\ CacheWaited
    /\ \A t \in Tasks : TaskWaited(t)
    /\ AnswerAge

\* In the initial states nothing is cached and nothing was answered.
LEMMA AgentsStart == ClockInit /\ AgentInit => AgentInv
BY DEF ClockInit, AgentInit, AgentInv, AgentMaps, ClockTypeOK, CacheWaited, TaskWaited, AnswerAge

\* Steps that cache nothing and answer nothing from the cache.
LEMMA AgentStep ==
    ASSUME AgentInv, UNCHANGED <<cache, delay>>, clock' \in Nat, clock <= clock', served' \in Nat,
           task' \in [Tasks -> AgentTask \cup {Nothing}],
           answer' = answer \/ answer'.kind # "cached",
           \A t \in Tasks : task'[t] = task[t] \/ task'[t] = Nothing \/ TaskWaited(t)'
    PROVE  AgentInv'
<1>1. AgentMaps'
  BY DEF AgentInv, AgentMaps, ClockTypeOK
<1>2. ASSUME NEW s \in CachedStatus, Waited(s) PROVE s.at <= clock' /\ s.at - s.made <= delay'
  BY <1>2 DEF Waited, CachedStatus, AgentInv, AgentMaps, ClockTypeOK
<1>3. CacheWaited'
  <2> SUFFICES ASSUME NEW a \in Agents, cache[a] # Nothing
               PROVE  cache[a].at <= clock' /\ cache[a].at - cache[a].made <= delay'
    BY DEF CacheWaited, Waited
  <2>1. cache[a] \in CachedStatus /\ Waited(cache[a])
    BY DEF AgentInv, AgentMaps, CacheWaited
  <2> QED
    BY <1>2, <2>1
<1>4. ASSUME NEW t \in Tasks PROVE TaskWaited(t)'
  <2>1. CASE task'[t] = task[t] /\ task[t] # Nothing
    <3>1. task[t] \in AgentTask /\ TaskWaited(t)
      BY <2>1 DEF AgentInv, AgentMaps
    <3>2. ASSUME task[t].pc = "decide", task[t].found # Nothing
          PROVE  task[t].found.at <= clock' /\ task[t].found.at - task[t].found.made <= delay'
      <4>1. task[t].found \in CachedStatus
        BY <3>1, <3>2 DEF AgentTask, QueryTask, DecideTask, StoreTask, AuthTask
      <4> QED
        BY <1>2, <2>1, <3>1, <3>2, <4>1 DEF TaskWaited
    <3>3. ASSUME task[t].pc = "store" PROVE task[t].made <= clock'
      <4>1. task[t].made \in Nat
        BY <3>1, <3>3 DEF AgentTask, QueryTask, DecideTask, StoreTask, AuthTask
      <4> QED
        BY <2>1, <3>1, <3>3, <4>1 DEF TaskWaited, AgentInv, AgentMaps, ClockTypeOK
    <3> QED
      BY <2>1, <3>2, <3>3 DEF TaskWaited, Waited
  <2>2. CASE task'[t] = Nothing
    BY <2>2 DEF TaskWaited
  <2> QED
    BY <2>1, <2>2
<1>5. AnswerAge'
  BY DEF AgentInv, AnswerAge
<1> QED
  BY <1>1, <1>3, <1>4, <1>5 DEF AgentInv

\* Registrations, tokens and the choice of a replica.
LEMMA AgentRequests ==
    ASSUME AgentInv,
           \/ \E a \in Agents : RegisterAgent(a) \/ \E token \in Tokens : SetAuthToken(a, token)
           \/ SelectNearestReplica
           \/ Passes /\ UNCHANGED agentVars
    PROVE  AgentInv'
<1>1. /\ clock \in Nat /\ served \in Nat /\ task \in [Tasks -> AgentTask \cup {Nothing}]
  BY DEF AgentInv, AgentMaps, ClockTypeOK
<1>2. /\ clock' \in Nat /\ clock <= clock' /\ served' \in Nat
      /\ UNCHANGED <<cache, delay, task>>
  BY <1>1 DEF RegisterAgent, SetAuthToken, SelectNearestReplica, Passes, Request, agentVars
<1>3. answer' = answer \/ answer'.kind # "cached"
  BY DEF RegisterAgent, SetAuthToken, SelectNearestReplica, Reply, agentVars
<1> QED
  BY <1>1, <1>2, <1>3, AgentStep

\* A command goes on with a task that is no older than it should be.
LEMMA RunKeeps ==
    ASSUME AgentInv, NEW t \in Tasks, NEW step \in AgentTask \cup {Nothing}, Run(t, step),
           UNCHANGED <<clock, cache, delay>>, served' \in Nat,
           answer' = answer \/ answer'.kind # "cached",
           step # Nothing =>
               /\ step.pc = "decide" /\ step.found # Nothing => Waited(step.found)
               /\ step.pc = "store" => step.made <= clock
    PROVE  AgentInv'
<1>1. task \in [Tasks -> AgentTask \cup {Nothing}] /\ clock \in Nat
  BY DEF AgentInv, AgentMaps, ClockTypeOK
<1>2. task'[t] = step /\ \A u \in Tasks : u # t => task'[u] = task[u]
  BY <1>1 DEF Run
<1>3. TaskWaited(t)'
  BY <1>2 DEF TaskWaited, Waited
<1>4. task' \in [Tasks -> AgentTask \cup {Nothing}]
  BY <1>1 DEF Run
<1> QED
  BY <1>1, <1>2, <1>3, <1>4, AgentStep

\* Commands begin, and read the cache.
LEMMA CommandsKeep ==
    ASSUME AgentInv, NEW t \in Tasks,
           \/ \E a \in Agents :
                 \/ QueryStatus(t, a)
                 \/ \E private \in BOOLEAN, token \in Tokens \cup {Nothing} :
                       TriggerRestore(t, a, private, token)
                 \/ \E kind \in {"replica", "backups"} : AnswerAtOnce(t, a, kind)
           \/ GetCachedStatus(t) \/ ComputeStatus(t) \/ VerifyAuth(t)
    PROVE  AgentInv'
<1>0. /\ clock \in Nat /\ served \in Nat /\ task \in [Tasks -> AgentTask \cup {Nothing}]
      /\ cache \in [Agents -> CachedStatus \cup {Nothing}]
  BY DEF AgentInv, AgentMaps, ClockTypeOK
<1>1. ASSUME NEW a \in Agents, QueryStatus(t, a) PROVE AgentInv'
  <2> DEFINE step == [pc |-> "lookup", agent |-> a]
  <2>1. step \in AgentTask /\ step.pc = "lookup"
    BY DEF AgentTask, QueryTask
  <2>2. /\ Run(t, step) /\ UNCHANGED <<clock, cache, delay, answer>> /\ served' \in Nat
    BY <1>0, <1>1 DEF QueryStatus, Begin, Request
  <2> HIDE DEF step
  <2> QED
    BY <2>1, <2>2, RunKeeps
<1>2. ASSUME NEW a \in Agents, NEW private \in BOOLEAN, NEW token \in Tokens \cup {Nothing},
             TriggerRestore(t, a, private, token)
      PROVE  AgentInv'
  <2>0. UNCHANGED <<clock, cache, delay>> /\ served' \in Nat
    BY <1>0, <1>2 DEF TriggerRestore, Begin, Request
  <2>1. CASE private /\ token # Nothing
    <3> DEFINE step == [pc |-> "verify", agent |-> a, token |-> token]
    <3>1. step \in AgentTask /\ step.pc = "verify"
      BY <2>1 DEF AgentTask, AuthTask
    <3>2. Run(t, step) /\ answer' = answer
      BY <1>2, <2>1 DEF TriggerRestore
    <3> HIDE DEF step
    <3> QED
      BY <2>0, <3>1, <3>2, RunKeeps
  <2>2. CASE ~(private /\ token # Nothing)
    <3>1. task' = task
      BY <1>2, <2>2 DEF TriggerRestore
    <3>2. answer'.kind # "cached"
      BY <1>2, <2>2 DEF TriggerRestore, Reply
    <3> QED
      BY <1>0, <2>0, <3>1, <3>2, AgentStep
  <2> QED
    BY <2>1, <2>2
<1>3. ASSUME NEW a \in Agents, NEW kind \in {"replica", "backups"}, AnswerAtOnce(t, a, kind)
      PROVE  AgentInv'
  <2>1. UNCHANGED <<clock, cache, delay, task>> /\ served' \in Nat
    BY <1>0, <1>3 DEF AnswerAtOnce, Begin, Request
  <2>2. answer'.kind # "cached"
    BY <1>3 DEF AnswerAtOnce, Reply
  <2> QED
    BY <1>0, <2>1, <2>2, AgentStep
<1>4. CASE GetCachedStatus(t)
  <2> DEFINE a == task[t].agent
             step == [pc |-> "decide", agent |-> a, found |-> cache[a]]
  <2>1. task[t] \in QueryTask
    BY <1>0, <1>4 DEF GetCachedStatus, AgentTask, DecideTask, StoreTask, AuthTask
  <2>2. a \in Agents /\ cache[a] \in CachedStatus \cup {Nothing}
    BY <1>0, <2>1 DEF QueryTask
  <2>3. step \in AgentTask /\ step.pc = "decide" /\ step.found = cache[a]
    BY <2>2 DEF AgentTask, DecideTask
  <2>4. cache[a] # Nothing => Waited(cache[a])
    BY <2>2 DEF AgentInv, CacheWaited
  <2>5. Run(t, step) /\ UNCHANGED <<clock, served, cache, delay, answer>>
    BY <1>4 DEF GetCachedStatus, clockVars
  <2> HIDE DEF step, a
  <2> QED
    BY <1>0, <2>3, <2>4, <2>5, RunKeeps
<1>5. CASE ComputeStatus(t)
  <2> DEFINE step == [pc |-> "store", agent |-> task[t].agent, made |-> clock]
  <2>1. task[t] \in DecideTask
    BY <1>0, <1>5 DEF ComputeStatus, AgentTask, QueryTask, StoreTask, AuthTask
  <2>2. step \in AgentTask /\ step.pc = "store" /\ step.made = clock
    BY <1>0, <2>1 DEF AgentTask, StoreTask, DecideTask
  <2>3. Run(t, step) /\ UNCHANGED <<clock, served, cache, delay, answer>>
    BY <1>5 DEF ComputeStatus, clockVars
  <2> HIDE DEF step
  <2> QED
    BY <1>0, <2>2, <2>3, RunKeeps
<1>6. CASE VerifyAuth(t)
  <2>1. answer'.kind # "cached"
    BY <1>6 DEF VerifyAuth, Reply
  <2>2. Run(t, Nothing) /\ UNCHANGED <<clock, served, cache, delay>>
    BY <1>6 DEF VerifyAuth, clockVars
  <2> QED
    BY <1>0, <2>1, <2>2, RunKeeps
<1> QED
  BY <1>1, <1>2, <1>3, <1>4, <1>5, <1>6

\* A fresh entry is younger than CacheTtl, so that its status is younger than
\* that and what it waited.
LEMMA ServeKeeps ==
    ASSUME AgentInv, NEW t \in Tasks, ServeCached(t)
    PROVE  AgentInv'
<1>0. /\ clock \in Nat /\ delay \in Nat /\ task \in [Tasks -> AgentTask \cup {Nothing}]
      /\ CacheTtl \in Nat
  BY AgentAssumption DEF AgentInv, AgentMaps, ClockTypeOK
<1> DEFINE found == task[t].found
           given == [kind |-> "cached", made |-> found.made, given |-> clock]
<1>1. task[t] \in DecideTask
  BY <1>0 DEF ServeCached, AgentTask, QueryTask, StoreTask, AuthTask
<1>2. found \in CachedStatus /\ Waited(found) /\ clock - found.at < CacheTtl
  BY <1>1 DEF ServeCached, Fresh, DecideTask, AgentInv, TaskWaited
<1>3. clock - found.made < CacheTtl + delay
  BY <1>0, <1>2 DEF Waited, CachedStatus
<1>4. answer' = given /\ given.given = clock /\ given.made = found.made /\ found.made \in Nat
  BY <1>2 DEF ServeCached, Reply, CachedStatus
<1>5. task' \in [Tasks -> AgentTask \cup {Nothing}]
      /\ \A u \in Tasks : task'[u] = task[u] \/ task'[u] = Nothing
  BY <1>0 DEF ServeCached, Run
<1>6. UNCHANGED <<clock, served, cache, delay>>
  BY DEF ServeCached, clockVars
<1> HIDE DEF given, found
<1>7. AnswerAge'
  BY <1>0, <1>3, <1>4, <1>6 DEF AnswerAge
<1>8. AgentMaps' /\ CacheWaited'
  BY <1>5, <1>6 DEF AgentInv, AgentMaps, ClockTypeOK, CacheWaited, Waited
<1>9. \A u \in Tasks : TaskWaited(u)'
  BY <1>5, <1>6 DEF AgentInv, TaskWaited, Waited
<1> QED
  BY <1>7, <1>8, <1>9 DEF AgentInv

\* A computed status is stored: what it waited counts for delay.
LEMMA CacheKeeps ==
    ASSUME AgentInv, NEW t \in Tasks, CacheStatus(t)
    PROVE  AgentInv'
<1> DEFINE wait == clock - task[t].made
           a == task[t].agent
           entry == [made |-> task[t].made, at |-> clock]
<1>0. /\ clock \in Nat /\ served \in Nat /\ delay \in Nat
      /\ task \in [Tasks -> AgentTask \cup {Nothing}]
      /\ cache \in [Agents -> CachedStatus \cup {Nothing}]
  BY DEF AgentInv, AgentMaps, ClockTypeOK
<1>1. task[t] \in StoreTask
  BY <1>0 DEF CacheStatus, AgentTask, QueryTask, DecideTask, AuthTask
<1>2. task[t].made \in Nat /\ task[t].made <= clock /\ a \in Agents
  BY <1>1 DEF StoreTask, CacheStatus, AgentInv, TaskWaited
<1>3. /\ delay' \in Nat /\ delay <= delay' /\ wait <= delay'
  BY <1>0, <1>2 DEF CacheStatus
<1>4. UNCHANGED <<clock, served>> /\ answer'.kind # "cached"
  BY DEF CacheStatus, clockVars, Reply
<1>5. task' \in [Tasks -> AgentTask \cup {Nothing}]
      /\ \A u \in Tasks : task'[u] = task[u] \/ task'[u] = Nothing
  BY <1>0 DEF CacheStatus, Run
<1>6. entry \in CachedStatus /\ entry.at = clock /\ entry.made = task[t].made
  BY <1>0, <1>2 DEF CachedStatus
<1>7. cache' = [cache EXCEPT ![a] = entry]
  BY DEF CacheStatus
<1> HIDE DEF entry, a
<1>8. AgentMaps'
  BY <1>0, <1>3, <1>4, <1>5, <1>6, <1>7 DEF AgentMaps, ClockTypeOK
<1>9. ASSUME NEW s \in CachedStatus, Waited(s) PROVE s.at <= clock' /\ s.at - s.made <= delay'
  BY <1>0, <1>3, <1>4, <1>9 DEF Waited, CachedStatus
<1>10. CacheWaited'
  <2> SUFFICES ASSUME NEW b \in Agents, cache'[b] # Nothing
               PROVE  cache'[b].at <= clock' /\ cache'[b].at - cache'[b].made <= delay'
    BY DEF CacheWaited, Waited
  <2>1. CASE b = a
    BY <1>0, <1>3, <1>4, <1>6, <1>7, <2>1
  <2>2. CASE b # a
    <3>1. cache'[b] = cache[b] /\ cache[b] \in CachedStatus /\ Waited(cache[b])
      BY <1>0, <1>7, <2>2 DEF AgentInv, CacheWaited
    <3> QED
      BY <1>9, <3>1
  <2> QED
    BY <2>1, <2>2
<1>11. ASSUME NEW u \in Tasks PROVE TaskWaited(u)'
  <2>1. CASE task'[u] = Nothing
    BY <2>1 DEF TaskWaited
  <2>2. CASE task'[u] = task[u] /\ task[u] # Nothing
    <3>1. task[u] \in AgentTask /\ TaskWaited(u)
      BY <1>0, <2>2 DEF AgentInv
    <3>2. task[u].pc = "decide" /\ task[u].found # Nothing =>
              task[u].found \in CachedStatus /\ Waited(task[u].found)
      BY <2>2, <3>1 DEF AgentTask, QueryTask, DecideTask, StoreTask, AuthTask, TaskWaited
    <3> QED
      BY <1>4, <1>9, <2>2, <3>1, <3>2 DEF TaskWaited, Waited
  <2> QED
    BY <1>5, <2>1, <2>2
<1>12. AnswerAge'
  BY <1>4 DEF AnswerAge
<1> QED
  BY <1>8, <1>10, <1>11, <1>12 DEF AgentInv

\* Every step keeps the ages.
LEMMA AgentSteps == AgentInv /\ [AgentNext]_<<clockVars, agentVars>> => AgentInv'
<1>1. ASSUME AgentInv, AgentNext PROVE AgentInv'
  BY <1>1, AgentRequests, CommandsKeep, ServeKeeps, CacheKeeps DEF AgentNext
<1>2. ASSUME AgentInv, UNCHANGED <<clockVars, agentVars>> PROVE AgentInv'
  BY <1>2, AgentStep DEF clockVars, agentVars, AgentInv, AgentMaps, ClockTypeOK
<1> QED
  BY <1>1, <1>2

\* query_status, for any number of commands at once: a status served from the
\* cache is younger than the time to live of its entry and the longest wait for
\* the cache's lock together.
THEOREM CachedIsRecent == AgentSpec => []StatusAgeBounded
<1>1. AgentInv => StatusAgeBounded
  BY DEF AgentInv, AnswerAge, StatusAgeBounded
<1> QED
  BY <1>1, AgentsStart, AgentSteps, PTL DEF AgentSpec

=============================================================================
