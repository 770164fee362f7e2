---------------------------- MODULE BackupServer ----------------------------
(***************************************************************************)
(* The HTTP server: its request handlers over four in-memory services      *)
(* (devices, policies, backups with their snapshots, the audit log), each  *)
(* behind a lock of its own.  A handler is cut at its awaits: between two  *)
(* service calls any other request may run, and a client that disconnects  *)
(* drops the handler where it stands.                                      *)
(***************************************************************************)
EXTENDS ServerClock, Integers, Sequences, FiniteSets

CONSTANTS DeviceIds,    \* device ids clients register and address
          PolicyIds,    \* fresh policy ids (uuids)
          SnapshotIds,  \* ids of the snapshots a device may report
          Bodies,       \* policy documents clients send
          Clients       \* connections; one request at a time on each

VARIABLES devices,   \* DeviceService.devices
          policies,  \* PolicyService.policies
          backups,   \* BackupService.backups; the position is the backup id
          snapshots, \* BackupService.snapshots, the ids stored
          tenants,   \* number of tenants; the n-th created has id n
          audit,     \* the entries of AuditService.log
          call,      \* the handler running for each client
          report,    \* the last answer to GET /status
          dropped    \* history: work whose handler was dropped before its entry

serverVars == <<devices, policies, backups, snapshots, tenants,
                audit, call, report, dropped>>

-----------------------------------------------------------------------------
(* Types *)

DeviceStatus == {"online", "offline", "busy", "error"}
BackupStatusType ==
    {"pending", "running", "completed", "failed", "cancelled", "paused"}
SystemHealth == {"healthy", "degraded", "critical"}

Device == [status : DeviceStatus, registeredAt : Nat, lastSeen : Nat]
Policy == [id : PolicyIds, target : DeviceIds \cup {Nothing},
           createdAt : Nat, updatedAt : Nat]
Backup == [device : DeviceIds, status : BackupStatusType,
           completedAt : Nat \cup {Nothing}]

\* What an audit entry can be about.
Work == [op : {"BackupStarted", "TenantCreated"}, target : Nat]
Entry == [op : {"BackupStarted", "TenantCreated", "ComplianceCheck"},
          target : Nat, result : {"success", "failure"}]

Report == [connected : Nat, health : SystemHealth, snapshots : Nat, active : Nat]

RegisterCall == [op : {"register"}, device : DeviceIds, made : Nat]
AnswerCall == [op : {"answer"}, device : DeviceIds]
AuditCall == [op : {"audit"}, entry : Entry]
StatusCall == [op : {"status"}, connected : Nat, health : SystemHealth,
               snapshots : Nat \cup {Nothing}]

Call == RegisterCall \cup AnswerCall \cup AuditCall \cup StatusCall

ASSUME ServerAssumption ==
    /\ Bodies \subseteq [id : PolicyIds, target : DeviceIds \cup {Nothing}, createdAt : Nat]
    /\ IsFiniteSet(DeviceIds)
    /\ IsFiniteSet(SnapshotIds)
    /\ Nothing \notin Call

\* The types of everything the server holds.
ServerTypeOK ==
    /\ ClockTypeOK
    /\ devices \in [DeviceIds -> Device \cup {Nothing}]
    /\ policies \in [PolicyIds -> Policy \cup {Nothing}]
    /\ backups \in Seq(Backup)
    /\ snapshots \subseteq SnapshotIds
    /\ tenants \in Nat
    /\ audit \in Seq(Entry)
    /\ call \in [Clients -> Call \cup {Nothing}]
    /\ report \in Report \cup {Nothing}
    /\ dropped \subseteq Work

ServerInit ==
    /\ devices = [d \in DeviceIds |-> Nothing]
    /\ policies = [p \in PolicyIds |-> Nothing]
    /\ backups = <<>>
    /\ snapshots = {}
    /\ tenants = 0
    /\ audit = <<>>
    /\ call = [c \in Clients |-> Nothing]
    /\ report = Nothing
    /\ dropped = {}

-----------------------------------------------------------------------------
(* Requests *)

Arrives(c) ==
    /\ call[c] = Nothing
    /\ Request

Continue(c, rest) == call' = [call EXCEPT ![c] = rest]

Finish(c) == Continue(c, Nothing)

Registered(d) == devices[d] # Nothing

-----------------------------------------------------------------------------
(* Devices *)

Stamped(status, registeredAt) ==
    [status |-> status, registeredAt |-> registeredAt, lastSeen |-> clock]

\* POST /devices: Device::new reads the clock before the lock is taken.
RegisterArrives(c, d) ==
    /\ Arrives(c)
    /\ Continue(c, [op |-> "register", device |-> d, made |-> clock])
    /\ UNCHANGED <<devices, policies, backups, snapshots, tenants, audit,
                   report, dropped>>

\* Mutant: the check for a known device is missing, the insert overwrites.
OverwritingRegister(c) ==
    /\ call[c] # Nothing
    /\ call[c].op = "register"
    /\ devices' = [devices EXCEPT ![call[c].device] =
                       [status |-> "online", registeredAt |-> call[c].made,
                        lastSeen |-> call[c].made]]
    /\ Finish(c)
    /\ UNCHANGED <<clockVars, policies, backups, snapshots, tenants, audit,
                   report, dropped>>

\* The critical section: a known device is only refreshed.
RegisterStores(c) ==
    /\ call[c] # Nothing
    /\ call[c].op = "register"
    /\ LET d == call[c].device
           fresh == [status |-> "online", registeredAt |-> call[c].made,
                     lastSeen |-> call[c].made]
       IN  devices' = [devices EXCEPT ![d] =
                          IF Registered(d)
                          THEN Stamped("online", devices[d].registeredAt)
                          ELSE fresh]
    /\ Finish(c)
    /\ UNCHANGED <<clockVars, policies, backups, snapshots, tenants, audit,
                   report, dropped>>

\* PUT /devices/:id/status: the update, then a second lookup for the answer.
UpdateDeviceStatus(c, d, status) ==
    /\ Arrives(c)
    /\ IF Registered(d)
       THEN /\ devices' = [devices EXCEPT ![d] =
                              Stamped(status, devices[d].registeredAt)]
            /\ Continue(c, [op |-> "answer", device |-> d])
       ELSE UNCHANGED <<devices, call>>
    /\ UNCHANGED <<policies, backups, snapshots, tenants, audit,
                   report, dropped>>

AnswerDeviceStatus(c) ==
    /\ call[c] # Nothing
    /\ call[c].op = "answer"
    /\ Finish(c)
    /\ UNCHANGED <<clockVars, devices, policies, backups, snapshots, tenants,
                   audit, report, dropped>>

\* POST /devices/:id/heartbeat
DeviceHeartbeat(c, d) ==
    /\ Arrives(c)
    /\ devices' = IF Registered(d)
                  THEN [devices EXCEPT ![d] =
                           Stamped("online", devices[d].registeredAt)]
                  ELSE devices
    /\ UNCHANGED <<call, policies, backups, snapshots, tenants, audit,
                   report, dropped>>

\* DELETE /devices/:id
UnregisterDevice(c, d) ==
    /\ Arrives(c)
    /\ devices' = [devices EXCEPT ![d] = Nothing]
    /\ UNCHANGED <<call, policies, backups, snapshots, tenants, audit,
                   report, dropped>>

-----------------------------------------------------------------------------
(* Policies *)

\* POST /policies: the id and the times of the document are replaced.
CreatePolicy(c, p, body) ==
    /\ Arrives(c)
    /\ policies[p] = Nothing
    /\ policies' = [policies EXCEPT ![p] =
           [id |-> p, target |-> body.target, createdAt |-> clock, updatedAt |-> clock]]
    /\ UNCHANGED <<call, devices, backups, snapshots, tenants, audit,
                   report, dropped>>

\* The record a document turns a stored policy into.
Updated(policy, body) ==
    [policy EXCEPT !.target = body.target, !.updatedAt = clock]

\* PUT /policies/:id
UpdatePolicy(c, p, body) ==
    /\ Arrives(c)
    /\ policies' = IF policies[p] = Nothing THEN policies
                   ELSE [policies EXCEPT ![p] = Updated(policies[p], body)]
    /\ UNCHANGED <<call, devices, backups, snapshots, tenants, audit,
                   report, dropped>>

\* DELETE /policies/:id
DeletePolicy(c, p) ==
    /\ Arrives(c)
    /\ policies' = [policies EXCEPT ![p] = Nothing]
    /\ UNCHANGED <<call, devices, backups, snapshots, tenants, audit,
                   report, dropped>>

-----------------------------------------------------------------------------
(* Work that is done first and audited after *)

Started(d) == [device |-> d, status |-> "pending", completedAt |-> Nothing]

Success(op, target) == [op |-> op, target |-> target, result |-> "success"]

\* POST /backup: the entry is created whether or not the device is known.
TriggerBackup(c, d) ==
    /\ Arrives(c)
    /\ backups' = Append(backups, Started(d))
    /\ Continue(c, [op |-> "audit",
                    entry |-> Success("BackupStarted", Len(backups) + 1)])
    /\ UNCHANGED <<devices, policies, snapshots, tenants, audit,
                   report, dropped>>

\* POST /tenants
CreateTenant(c) ==
    /\ Arrives(c)
    /\ tenants' = tenants + 1
    /\ Continue(c, [op |-> "audit", entry |-> Success("TenantCreated", tenants + 1)])
    /\ UNCHANGED <<devices, policies, backups, snapshots, audit,
                   report, dropped>>

\* GET /compliance/check: the outcome decides the result that is logged.
ComplianceCheck(c, passes) ==
    /\ Arrives(c)
    /\ Continue(c, [op |-> "audit",
                    entry |-> [op |-> "ComplianceCheck", target |-> 0,
                               result |-> IF passes THEN "success" ELSE "failure"]])
    /\ UNCHANGED <<devices, policies, backups, snapshots, tenants, audit,
                   report, dropped>>

\* Mutant: the handler answers before the entry is written.
ForgottenAudit(c) ==
    /\ call[c] # Nothing
    /\ call[c].op = "audit"
    /\ Finish(c)
    /\ UNCHANGED <<clockVars, devices, policies, backups, snapshots, tenants,
                   audit, report, dropped>>

AppendAudit(c) ==
    /\ call[c] # Nothing
    /\ call[c].op = "audit"
    /\ audit' = Append(audit, call[c].entry)
    /\ Finish(c)
    /\ UNCHANGED <<clockVars, devices, policies, backups, snapshots, tenants,
                   report, dropped>>

-----------------------------------------------------------------------------
(* Backups and snapshots *)

\* BackupService.update_backup: no transition is refused.
SetStatus(b, status) ==
    backups' = [backups EXCEPT ![b] =
        [device |-> backups[b].device, status |-> status,
         completedAt |-> IF status \in {"completed", "failed"}
                         THEN clock ELSE backups[b].completedAt]]

UpdateBackup(c, b, status) ==
    /\ Arrives(c)
    /\ SetStatus(b, status)
    /\ UNCHANGED <<call, devices, policies, snapshots, tenants, audit,
                   report, dropped>>

\* POST /backup/:id/cancel
CancelBackup(c, b) == UpdateBackup(c, b, "cancelled")

StoreSnapshot(c, s) ==
    /\ Arrives(c)
    /\ s \notin snapshots
    /\ snapshots' = snapshots \cup {s}
    /\ UNCHANGED <<call, devices, policies, backups, tenants, audit,
                   report, dropped>>

\* DELETE /snapshots/:id: answers "deleted" and touches nothing.
DeleteSnapshot(c, s) ==
    /\ Arrives(c)
    /\ UNCHANGED <<call, devices, policies, backups, snapshots, tenants,
                   audit, report, dropped>>

-----------------------------------------------------------------------------
(* GET /status: three reads, a lock each *)

Fleet == {d \in DeviceIds : Registered(d)}

Health(total, offline) ==
    CASE total > 0 /\ 2 * offline > total -> "critical"
      [] total > 0 /\ offline > 0 /\ 2 * offline <= total -> "degraded"
      [] OTHER -> "healthy"

StatusReadsDevices(c) ==
    /\ Arrives(c)
    /\ LET offline == {d \in Fleet : devices[d].status = "offline"}
       IN  Continue(c, [op |-> "status", connected |-> Cardinality(Fleet),
                        health |-> Health(Cardinality(Fleet), Cardinality(offline)),
                        snapshots |-> Nothing])
    /\ UNCHANGED <<devices, policies, backups, snapshots, tenants, audit,
                   report, dropped>>

StatusReadsSnapshots(c) ==
    /\ call[c] # Nothing
    /\ call[c].op = "status"
    /\ call[c].snapshots = Nothing
    /\ Continue(c, [call[c] EXCEPT !.snapshots = Cardinality(snapshots)])
    /\ UNCHANGED <<clockVars, devices, policies, backups, snapshots, tenants,
                   audit, report, dropped>>

ActiveCount ==
    Cardinality({b \in DOMAIN backups : backups[b].status \in {"pending", "running"}})

StatusReadsBackups(c) ==
    /\ call[c] # Nothing
    /\ call[c].op = "status"
    /\ call[c].snapshots # Nothing
    /\ report' = [connected |-> call[c].connected, health |-> call[c].health,
                  snapshots |-> call[c].snapshots, active |-> ActiveCount]
    /\ Finish(c)
    /\ UNCHANGED <<clockVars, devices, policies, backups, snapshots, tenants,
                   audit, dropped>>

-----------------------------------------------------------------------------

\* The client goes away: hyper drops the handler at the await it is in.
Disconnect(c) ==
    /\ call[c] # Nothing
    /\ dropped' = IF call[c].op = "audit" /\ call[c].entry.op # "ComplianceCheck"
                  THEN dropped \cup {[op |-> call[c].entry.op,
                                      target |-> call[c].entry.target]}
                  ELSE dropped
    /\ Finish(c)
    /\ UNCHANGED <<clockVars, devices, policies, backups, snapshots, tenants,
                   audit, report>>

DeviceRequest(c) ==
    \/ \E d \in DeviceIds :
          \/ RegisterArrives(c, d)
          \/ \E status \in DeviceStatus : UpdateDeviceStatus(c, d, status)
          \/ DeviceHeartbeat(c, d)
          \/ UnregisterDevice(c, d)
    \/ RegisterStores(c)
    \/ AnswerDeviceStatus(c)

PolicyRequest(c) ==
    \E p \in PolicyIds :
        \/ \E body \in Bodies : CreatePolicy(c, p, body) \/ UpdatePolicy(c, p, body)
        \/ DeletePolicy(c, p)

AuditedRequest(c) ==
    \/ \E d \in DeviceIds : TriggerBackup(c, d)
    \/ CreateTenant(c)
    \/ \E passes \in BOOLEAN : ComplianceCheck(c, passes)
    \/ AppendAudit(c)

BackupRequest(c) ==
    \/ \E b \in DOMAIN backups :
          \/ \E status \in BackupStatusType \ {"cancelled"} : UpdateBackup(c, b, status)
          \/ CancelBackup(c, b)
    \/ \E s \in SnapshotIds : StoreSnapshot(c, s) \/ DeleteSnapshot(c, s)

StatusRequest(c) ==
    \/ StatusReadsDevices(c)
    \/ StatusReadsSnapshots(c)
    \/ StatusReadsBackups(c)

ServerNext ==
    \/ \E c \in Clients :
          \/ DeviceRequest(c)
          \/ PolicyRequest(c)
          \/ AuditedRequest(c)
          \/ BackupRequest(c)
          \/ StatusRequest(c)
          \/ Disconnect(c)
    \/ Passes /\ UNCHANGED serverVars

ServerSpec == ClockInit /\ ServerInit /\ [][ServerNext]_<<clockVars, serverVars>>

-----------------------------------------------------------------------------
(* Properties *)

\* The work an entry, or a handler about to append one, is about.
WorkOf(entry) == [op |-> entry.op, target |-> entry.target]

Logged(w) == \E i \in DOMAIN audit : WorkOf(audit[i]) = w

Holds(c, w) ==
    /\ call[c] # Nothing
    /\ call[c].op = "audit"
    /\ WorkOf(call[c].entry) = w

Held(w) == \E c \in Clients : Holds(c, w)

DoneWork ==
    {[op |-> "BackupStarted", target |-> b] : b \in DOMAIN backups}
        \cup {[op |-> "TenantCreated", target |-> t] : t \in 1..tenants}

\* The audit log against the services (trigger_backup and create_tenant work
\* first and append after, without a lock around both): an entry never names a
\* backup or tenant that does not exist, nothing is logged twice, and work
\* without an entry is in a running handler or lost with a disconnected client.
AuditMatchesWork ==
    /\ \A i \in DOMAIN audit :
          audit[i].op # "ComplianceCheck" => WorkOf(audit[i]) \in DoneWork
    /\ \A i, j \in DOMAIN audit :
          audit[i].op # "ComplianceCheck" /\ WorkOf(audit[i]) = WorkOf(audit[j])
              => i = j
    /\ \A w \in DoneWork : Logged(w) \/ Held(w) \/ w \in dropped

\* A registration whose clock was read before others got the lock does not turn
\* a device back: while a device stays registered its last_seen never goes
\* back, and its registration time does not change.
LastSeenForward ==
    [][\A d \in DeviceIds :
          devices[d] # Nothing /\ devices'[d] # Nothing =>
              /\ devices'[d].lastSeen >= devices[d].lastSeen
              /\ devices'[d].registeredAt = devices[d].registeredAt]_serverVars

\* Whatever ids and times the documents of PUT carry, a stored policy keeps the
\* id it is stored under and the time it was created.
PoliciesKeepIdentity ==
    [][\A p \in PolicyIds :
          policies'[p] # Nothing =>
              /\ policies'[p].id = p
              /\ policies[p] # Nothing =>
                    policies'[p].createdAt = policies[p].createdAt]_serverVars

=============================================================================
