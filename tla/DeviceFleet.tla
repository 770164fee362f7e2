----------------------------- MODULE DeviceFleet -----------------------------
(***************************************************************************)
(* The multi-device manager: DeviceRegistry with its heartbeat check, the  *)
(* coordinator that picks devices from a copy of the registry, and the     *)
(* policy mapper with its per-device overrides and capacity warnings.      *)
(* Storage is counted in tenths of a device's capacity.                    *)
(***************************************************************************)
EXTENDS ServerClock, Integers, Sequences, FiniteSets, SequencesExt

CONSTANTS Devices,      \* device ids
          Groups,       \* device groups (and locations)
          Profiles,     \* the profiles callers register
          Usages,       \* storage figures devices report
          Settings,     \* values of one policy setting
          Threshold     \* heartbeat_threshold_secs

VARIABLES made,      \* profiles created and not registered yet, by device
          fleet,     \* DeviceRegistryInner.devices
          checkedAt, \* history: when check_heartbeats last ran
          since,     \* history: devices registered since then
          reported,  \* history: devices reported stale, until they are heard again
          again,     \* history: devices some report named a second time
          picked,    \* the last answer of the coordinator
          base,      \* the policy of DevicePolicyMapper.policies
          overrides, \* DevicePolicyMapper.overrides, by device
          warnings   \* DevicePolicyMapper.capacity_warnings

registry == <<made, fleet, checkedAt, since, reported, again>>
mapper == <<base, overrides, warnings>>
fleetVars == <<registry, picked, mapper>>

Capacity == 10

Status == {"online", "offline", "busy", "error"}
Profile == [status : Status, group : Groups \cup {Nothing}, used : Nat,
            heartbeat : Nat]
Fields == {"schedule", "encryption"}
Config == [Fields -> Settings]
Override == [Fields -> Settings \cup {Nothing}]
Kinds == {"source", "backup", "online", "offline", "config"}

ASSUME FleetAssumption ==
    /\ Threshold \in Nat
    /\ Usages \subseteq Nat
    /\ Profiles \subseteq Profile

\* The types of the registry, the mapper and the coordinator's answer.
FleetTypeOK ==
    /\ ClockTypeOK
    /\ made \in [Devices -> Profile \cup {Nothing}]
    /\ fleet \in [Devices -> Profile \cup {Nothing}]
    /\ checkedAt \in Nat
    /\ since \subseteq Devices
    /\ reported \subseteq Devices
    /\ again \subseteq Devices
    /\ picked = Nothing \/ picked.kind \in Kinds
    /\ base \in Config
    /\ overrides \in [Devices -> Override \cup {Nothing}]
    /\ warnings \subseteq Devices

FleetInit ==
    /\ made = [d \in Devices |-> Nothing]
    /\ fleet = [d \in Devices |-> Nothing]
    /\ checkedAt = 0
    /\ since = {}
    /\ reported = {}
    /\ again = {}
    /\ picked = Nothing
    /\ base \in Config
    /\ overrides = [d \in Devices |-> Nothing]
    /\ warnings = {}

Known == {d \in Devices : fleet[d] # Nothing}

-----------------------------------------------------------------------------
(* The registry *)

\* DeviceProfile::new stamps the heartbeat when the profile is made ...
MakeProfile(d, p) ==
    /\ Request
    /\ made[d] = Nothing
    /\ made' = [made EXCEPT ![d] = [p EXCEPT !.heartbeat = clock]]
    /\ UNCHANGED <<fleet, checkedAt, since, reported, again, picked, mapper>>

\* ... register() stores it later, whatever it finds under the id.
RegisterProfile(d) ==
    /\ made[d] # Nothing
    /\ fleet' = [fleet EXCEPT ![d] = made[d]]
    /\ made' = [made EXCEPT ![d] = Nothing]
    /\ since' = since \cup {d}
    /\ reported' = reported \ {d}
    /\ UNCHANGED <<clockVars, checkedAt, again, picked, mapper>>

UnregisterProfile(d) ==
    /\ Request
    /\ d \in Known
    /\ fleet' = [fleet EXCEPT ![d] = Nothing]
    /\ UNCHANGED <<made, checkedAt, since, reported, again, picked, mapper>>

RecordHeartbeat(d) ==
    /\ Request
    /\ d \in Known
    /\ fleet' = [fleet EXCEPT ![d] = [@ EXCEPT !.heartbeat = clock,
                                               !.status = "online"]]
    /\ reported' = reported \ {d}
    /\ UNCHANGED <<made, checkedAt, since, again, picked, mapper>>

IsStale(p) == clock - p.heartbeat > Threshold

\* Mutant: a device that is offline already is reported again.
EveryStale == {d \in Known : IsStale(fleet[d])}

\* The devices a check reports: those it is about to turn offline.
StaleReport ==
    {d \in Known : IsStale(fleet[d]) /\ fleet[d].status # "offline"}

\* The status a check gives to a device, whatever it had.
Checked(p) ==
    [p EXCEPT !.status = IF IsStale(p) THEN "offline" ELSE "online"]

CheckHeartbeats ==
    /\ Request
    /\ fleet' = [d \in Devices |-> IF d \in Known THEN Checked(fleet[d]) ELSE Nothing]
    /\ reported' = reported \cup StaleReport
    /\ again' = again \cup (reported \cap StaleReport)
    /\ checkedAt' = clock
    /\ since' = {}
    /\ UNCHANGED <<made, picked, mapper>>

UpdateStorage(d, used) ==
    /\ Request
    /\ d \in Known
    /\ fleet' = [fleet EXCEPT ![d].used = used]
    /\ UNCHANGED <<made, checkedAt, since, reported, again, picked, mapper>>

SetGroup(d, group) ==
    /\ Request
    /\ d \in Known
    /\ fleet' = [fleet EXCEPT ![d].group = group]
    /\ UNCHANGED <<made, checkedAt, since, reported, again, picked, mapper>>

-----------------------------------------------------------------------------
(* The coordinator: it reads the registry once and sorts the copy *)

Free(p) == IF p.used > Capacity THEN 0 ELSE Capacity - p.used

\* is_storage_low: free * 10 < capacity
IsStorageLow(p) == Free(p) * 10 < Capacity

Online == {d \in Known : fleet[d].status = "online"}

\* Every order the registry's HashMap may hand its devices out in.
Orders(S) == SetToSeqs(S)

\* A stable sort: the devices of the group come first.
GroupFirst(order, group) ==
    SelectSeq(order, LAMBDA d : fleet[d].group = group)
        \o SelectSeq(order, LAMBDA d : fleet[d].group # group)

Pick(kind, devices) == picked' = [kind |-> kind, devices |-> devices]

\* The devices a restore may read from: near ones if there are any.
SourceCandidates(near, excluded) ==
    LET candidates == Online \ excluded
        matches == {d \in candidates : fleet[d].group = near}
    IN  IF near # Nothing /\ matches # {} THEN matches ELSE candidates

SelectRestoreSource(near, excluded) ==
    LET candidates == SourceCandidates(near, excluded)
    IN  \/ /\ candidates = {}
           /\ Pick("source", <<>>)
        \/ \E d \in candidates :
               /\ \A e \in candidates : Free(fleet[e]) <= Free(fleet[d])
               /\ Pick("source", <<d>>)

\* The order of a scheduled backup, from the order the registry gave.
Scheduled(order, group, count) ==
    LET sorted == IF group = Nothing THEN order
                  ELSE GroupFirst(order, group)
    IN  SubSeq(sorted, 1, IF count < Len(sorted) THEN count ELSE Len(sorted))

ScheduleBackup(count, group) ==
    \E order \in Orders({d \in Online : ~IsStorageLow(fleet[d])}) :
        Pick("backup", Scheduled(order, group, count))

DegradedRestoreStrategy ==
    IF Online # {}
    THEN \E order \in Orders(Online) : Pick("online", order)
    ELSE \/ Known = {} /\ Pick("offline", <<>>)
         \/ \E d \in Known :
               /\ \A e \in Known : fleet[e].heartbeat <= fleet[d].heartbeat
               /\ Pick("offline", <<d>>)

Coordinate ==
    /\ Request
    /\ \/ \E near \in Groups \cup {Nothing}, excluded \in {{}} \cup {{d} : d \in Devices} :
              SelectRestoreSource(near, excluded)
       \/ \E count \in 1..Cardinality(Devices), group \in Groups \cup {Nothing} :
              ScheduleBackup(count, group)
       \/ DegradedRestoreStrategy
    /\ UNCHANGED <<registry, mapper>>

-----------------------------------------------------------------------------
(* The policy mapper *)

\* The override of a field, where the device has one.
WithOverride(config, o) ==
    IF o = Nothing THEN config
    ELSE [f \in Fields |-> IF o[f] = Nothing THEN config[f] ELSE o[f]]

EffectiveConfig(d) == WithOverride(base, overrides[d])

GetEffectiveConfig(d) ==
    /\ Request
    /\ picked' = [kind |-> "config", config |-> EffectiveConfig(d)]
    /\ UNCHANGED <<registry, mapper>>

AddPolicy(config) ==
    /\ Request
    /\ base' = config
    /\ UNCHANGED <<registry, picked, overrides, warnings>>

SetOverride(d, o) ==
    /\ Request
    /\ overrides' = [overrides EXCEPT ![d] = o]
    /\ UNCHANGED <<registry, picked, base, warnings>>

\* check_capacity: used / total >= 0.9
CapacityTriggered(used, total) == total > 0 /\ 10 * used >= 9 * total

CheckCapacity(d, used) ==
    /\ Request
    /\ warnings' = IF CapacityTriggered(used, Capacity) THEN warnings \cup {d}
                   ELSE warnings \ {d}
    /\ UNCHANGED <<registry, picked, base, overrides>>

-----------------------------------------------------------------------------

FleetNext ==
    \/ \E d \in Devices :
          \/ \E p \in Profiles : MakeProfile(d, p)
          \/ RegisterProfile(d)
          \/ UnregisterProfile(d)
          \/ RecordHeartbeat(d)
          \/ \E used \in Usages : UpdateStorage(d, used) \/ CheckCapacity(d, used)
          \/ \E group \in Groups \cup {Nothing} : SetGroup(d, group)
          \/ \E o \in Override : SetOverride(d, o)
          \/ GetEffectiveConfig(d)
    \/ \E config \in Config : AddPolicy(config)
    \/ CheckHeartbeats
    \/ Coordinate
    \/ Passes /\ UNCHANGED fleetVars

FleetSpec == ClockInit /\ FleetInit /\ [][FleetNext]_<<clockVars, fleetVars>>

-----------------------------------------------------------------------------
(* Properties *)

\* A check is what keeps silent devices from being used: a device that is not
\* offline was heard within the threshold before the last check, or after it,
\* or was registered since (register() stores a profile of any age).
OnlineIsRecent ==
    \A d \in Known \ since :
        fleet[d].status # "offline" => fleet[d].heartbeat + Threshold >= checkedAt

\* One outage, one report: between two reports that call a device stale the
\* device was heard or registered again.
ReportedOnce == again = {}

\* What a check of the heartbeats is for.
SilenceNoticed == OnlineIsRecent /\ ReportedOnce

=============================================================================
