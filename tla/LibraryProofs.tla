---------------------------- MODULE LibraryProofs ----------------------------
(***************************************************************************)
(* Parts of the library for any number of tenants, peers, files, rules and *)
(* sizes: the maps of the tenants stay in step; transfers between regions, *)
(* verification, the scheduler, retention, the classifier, notifications,  *)
(* searches, the audit log's pages and the dashboard answer right; the     *)
(* layers around a storage and the encrypted stream give back what went    *)
(* through them; backends recover and unchanged tails keep their chunks.   *)
(***************************************************************************)
EXTENDS AuditLogProofs, AuditQuery, Tenants, Transport, Routing, IntegrityCheck,
        Scheduler, Compliance, Classifier, FileSearch, DataLayers, Notifications, Dashboard,
        Anomaly, Chunker, StreamCrypto,
        FiniteSetTheorems, WellFoundedInduction, TLAPS

-----------------------------------------------------------------------------
(* Tenants *)

TenantInv == TenantTypeOK /\ UsageMatchesTenants

\* In the initial states there is no tenant.
LEMMA TenantsStart == ClockInit /\ TenantInit => TenantInv
BY DEF ClockInit, TenantInit, TenantInv, TenantTypeOK, ClockTypeOK, UsageMatchesTenants

\* Creating, updating and deleting tenants, and the reports of their usage.
LEMMA TenantsKeep ==
    ASSUME TenantInv, NEW t \in TenantIds,
           \/ \E amounts \in Quota : \/ MakeTenant(t, amounts)
                                     \/ UpdateTenant(t, amounts)
                                     \/ UpdateUsage(t, amounts)
           \/ DeleteTenant(t)
    PROVE  TenantInv'
<1>0. /\ quotas \in [TenantIds -> Quota \cup {Nothing}]
      /\ usage \in [TenantIds -> Quota \cup {Nothing}]
      /\ issued \subseteq TenantIds
      /\ \A s \in TenantIds : quotas[s] = Nothing <=> usage[s] = Nothing
  BY DEF TenantInv, TenantTypeOK, UsageMatchesTenants
<1>1. ClockTypeOK' /\ UNCHANGED <<access, ruling>>
  BY DEF MakeTenant, UpdateTenant, UpdateUsage, DeleteTenant, Request, ClockTypeOK,
         TenantInv, TenantTypeOK
<1>2. ASSUME NEW q \in Quota \cup {Nothing}, NEW u \in Quota \cup {Nothing},
             q = Nothing <=> u = Nothing,
             quotas' = [quotas EXCEPT ![t] = q], usage' = [usage EXCEPT ![t] = u],
             issued' \subseteq TenantIds
      PROVE  TenantInv'
  BY <1>0, <1>1, <1>2 DEF TenantInv, TenantTypeOK, UsageMatchesTenants
<1>3. ASSUME NEW quota \in Quota, MakeTenant(t, quota) PROVE TenantInv'
  <2>1. Unused \in Quota
    BY TenantAssumption DEF Unused, Quota
  <2> QED
    BY <1>0, <1>2, <1>3, <2>1, TenantAssumption DEF MakeTenant
<1>4. ASSUME NEW quota \in Quota, UpdateTenant(t, quota) PROVE TenantInv'
  <2>1. usage' = [usage EXCEPT ![t] = usage[t]] /\ usage[t] # Nothing
    BY <1>0, <1>4 DEF UpdateTenant, Tenant
  <2> QED
    BY <1>0, <1>2, <1>4, <2>1, TenantAssumption DEF UpdateTenant
<1>5. ASSUME NEW used \in Quota, UpdateUsage(t, used) PROVE TenantInv'
  <2>1. quotas' = [quotas EXCEPT ![t] = quotas[t]] /\ issued' = issued
    BY <1>0, <1>5 DEF UpdateUsage
  <2>2. CASE Tenant(t)
    BY <1>0, <1>2, <1>5, <2>1, <2>2, TenantAssumption DEF UpdateUsage, Tenant
  <2>3. CASE ~Tenant(t)
    <3>1. usage' = [usage EXCEPT ![t] = usage[t]]
      BY <1>0, <1>5, <2>3 DEF UpdateUsage
    <3> QED
      BY <1>0, <1>2, <2>1, <3>1
  <2> QED
    BY <2>2, <2>3
<1>6. CASE DeleteTenant(t)
  BY <1>0, <1>2, <1>6 DEF DeleteTenant
<1> QED
  BY <1>3, <1>4, <1>5, <1>6

\* Rulings and access entries leave the maps alone.
LEMMA AccessKeeps ==
    ASSUME TenantInv, UNCHANGED <<quotas, usage, issued>>, ClockTypeOK',
           access' \in [Users -> UserAccess \cup {Nothing}],
           ruling' \in [over : SUBSET Resources] \cup [allowed : BOOLEAN] \cup {Nothing}
    PROVE  TenantInv'
BY DEF TenantInv, TenantTypeOK, UsageMatchesTenants

\* Every step of the tenants keeps the invariant.
LEMMA TenantSteps == TenantInv /\ [TenantNext]_<<clockVars, tenantVars>> => TenantInv'
<1> SUFFICES ASSUME TenantInv, [TenantNext]_<<clockVars, tenantVars>> PROVE TenantInv'
  OBVIOUS
<1>0. /\ ClockTypeOK /\ access \in [Users -> UserAccess \cup {Nothing}]
      /\ ruling \in [over : SUBSET Resources] \cup [allowed : BOOLEAN] \cup {Nothing}
  BY DEF TenantInv, TenantTypeOK
<1>1. ASSUME NEW t \in TenantIds, CheckQuota(t) PROVE TenantInv'
  <2>1. Violations(quotas[t], usage[t]) \subseteq Resources
    BY DEF Violations
  <2> QED
    BY <1>0, <1>1, <2>1, AccessKeeps DEF CheckQuota, Request, ClockTypeOK
<1>2. ASSUME NEW t \in TenantIds, NEW path \in TenantPaths, IsPathOwned(t, path)
      PROVE  TenantInv'
  <2>1. (path.owner = t \/ ~path.within) \in BOOLEAN
    OBVIOUS
  <2> QED
    BY <1>0, <1>2, <2>1, AccessKeeps DEF IsPathOwned, Request, ClockTypeOK
<1>3. ASSUME NEW t \in TenantIds, NEW path \in TenantPaths, NEW u \in Users,
             NEW permission \in Permissions, CheckAccess(u, permission, path, t)
      PROVE  TenantInv'
  <2> DEFINE b == /\ access[u] # Nothing
                  /\ access[u].tenant = t
                  /\ permission \in RolePermissions(access[u].role)
                  /\ access[u].restriction \in path.under \cup {Nothing}
  <2>0. b \in BOOLEAN
    OBVIOUS
  <2>1. ruling' = [allowed |-> b]
    BY <1>3, Zenon DEF CheckAccess
  <2> HIDE DEF b
  <2>2. ruling' \in [allowed : BOOLEAN]
    BY <2>0, <2>1
  <2>3. UNCHANGED <<quotas, usage, access, issued>> /\ Request
    BY <1>3, Zenon DEF CheckAccess
  <2>4. ClockTypeOK'
    BY <1>0, <2>3 DEF Request, ClockTypeOK
  <2> QED
    BY <1>0, <2>2, <2>3, <2>4, AccessKeeps
<1>4. ASSUME NEW u \in Users, Revoke(u) \/ \E entry \in UserAccess : Grant(u, entry)
      PROVE  TenantInv'
  BY <1>0, <1>4, AccessKeeps DEF Revoke, Grant, Request, ClockTypeOK
<1>5. ASSUME UNCHANGED tenantVars, Passes \/ UNCHANGED clockVars PROVE TenantInv'
  BY <1>0, <1>5, AccessKeeps DEF tenantVars, clockVars, Passes, ClockTypeOK
<1>6. CASE TenantNext
  BY <1>1, <1>2, <1>3, <1>4, <1>5, <1>6, TenantsKeep DEF TenantNext
<1> QED
  BY <1>5, <1>6 DEF clockVars, tenantVars

\* Quotas, usage, access entries and rulings keep their types.
THEOREM TenantTypes == TenantSpec => []TenantTypeOK
<1>1. TenantInv => TenantTypeOK
  BY DEF TenantInv
<1> QED
  BY <1>1, TenantsStart, TenantSteps, PTL DEF TenantSpec

\* TenantManager's two maps have the same keys: every tenant has a usage, and no
\* report brings back the usage of a tenant that was deleted.
THEOREM UsageOfTenants == TenantSpec => []UsageMatchesTenants
<1>1. TenantInv => UsageMatchesTenants
  BY DEF TenantInv
<1> QED
  BY <1>1, TenantsStart, TenantSteps, PTL DEF TenantSpec

-----------------------------------------------------------------------------
(* Routing *)

\* The last path is the one the router selects for what was asked.
RouteInv ==
    route # Nothing /\ route.asked = "path" =>
        /\ route.quality \in Qualities
        /\ route.decision = SelectedPath(route.from, route.to, route.quality, route.size)

\* A direct path between regions is one of a good network.
LEMMA DirectIsGood ==
    ASSUME NEW from, NEW to, from # to, NEW quality \in Qualities, NEW size,
           SelectedPath(from, to, quality, size).direct
    PROVE  /\ SelectedPath(from, to, quality, size).latency <= RelayPath.latency
           /\ SelectedPath(from, to, quality, size).bandwidth >= RelayPath.bandwidth
<1>1. CASE UsesDirect(from, to, quality, size)
  <2>1. quality \in {"excellent", "good"}
    BY <1>1 DEF UsesDirect
  <2>2. SelectedPath(from, to, quality, size) = DirectPath(quality)
    BY <1>1 DEF SelectedPath
  <2>3. DirectLatency(quality) <= 200 /\ DirectBandwidth(quality) >= 50
    BY <2>1 DEF DirectLatency, DirectBandwidth
  <2> QED
    BY <2>2, <2>3 DEF DirectPath, RelayPath, Decision
<1>2. CASE ~UsesDirect(from, to, quality, size)
  BY <1>2 DEF SelectedPath, RelayPath, Decision
<1> QED
  BY <1>1, <1>2

\* select_path, for all regions, qualities, sizes and settings: between regions
\* a direct transfer is at least as quick and as wide as the relay.
THEOREM DirectIsNoSlower == RoutingSpec => []DirectNoSlower
<1>1. ClockInit /\ RoutingInit => RouteInv
  BY DEF RoutingInit, RouteInv
<1>2. RouteInv /\ [RoutingNext]_<<clockVars, route>> => RouteInv'
  <2>1. ASSUME SelectStorage \/ EstimateTransferTime PROVE RouteInv'
    <3>1. route'.asked # "path"
      BY <2>1 DEF SelectStorage, EstimateTransferTime
    <3> QED
      BY <3>1 DEF RouteInv
  <2>2. ASSUME SelectPath PROVE RouteInv'
    <3>1. PICK from \in Regions, to \in Regions, quality \in Qualities, size \in DataSizes :
             route' = [asked |-> "path", from |-> from, to |-> to, quality |-> quality,
                       size |-> size, decision |-> SelectedPath(from, to, quality, size)]
      BY <2>2 DEF SelectPath
    <3> QED
      BY <3>1 DEF RouteInv
  <2>3. ASSUME RouteInv, UNCHANGED route PROVE RouteInv'
    BY <2>3 DEF RouteInv
  <2> QED
    BY <2>1, <2>2, <2>3 DEF RoutingNext
<1>3. RouteInv => DirectNoSlower
  BY DirectIsGood DEF RouteInv, DirectNoSlower
<1> QED
  BY <1>1, <1>2, <1>3, PTL DEF RoutingSpec

-----------------------------------------------------------------------------
(* Transport *)

\* A request that changes a file.
Touches(r, f) == r # Nothing /\ r.file = f /\ Changes(r)

\* While an upload is remembered as acknowledged, nothing under way changes its file.
StoredSafe ==
    \A f \in RemoteFiles : stored[f] # Nothing =>
        /\ remote[f] = stored[f]
        /\ \A r \in stray : ~Touches(r, f)
        /\ \A u \in Peers : ~Touches(request[u], f)

\* A change that is alone is, and an upload of this kind that was accepted is there.
AloneSafe ==
    \A u \in Peers : request[u] # Nothing /\ Changes(request[u]) /\ request[u].alone =>
        /\ \A r \in stray : ~Touches(r, request[u].file)
        /\ \A v \in Peers \ {u} : ~Touches(request[v], request[u].file)
        /\ request[u].op = "upload" /\ Acknowledged(request[u]) =>
              remote[request[u].file] = request[u].data

TransportInv == TransportTypeOK /\ StoredSafe /\ AloneSafe

\* In the initial states nothing is under way.
LEMMA TransportStart == ClockInit /\ TransportInit => TransportInv
BY DEF ClockInit, TransportInit, TransportInv, TransportTypeOK, ClockTypeOK, StoredSafe,
       AloneSafe, Contents, Touches

\* Peer u waits for q, which changes nothing, or for nothing any more.
LEMMA PeerWaits ==
    ASSUME TransportInv, NEW u \in Peers, NEW q \in FileRequest \cup {Nothing},
           request' = [request EXCEPT ![u] = q], q = Nothing \/ ~Changes(q),
           q # Nothing /\ q.op # "connect" => q.file \in RemoteFiles,
           UNCHANGED <<remote, stray, stored>>, ClockTypeOK',
           local' \in [RemoteFiles -> Contents],
           status' \in {"disconnected", "connecting", "connected", "error"},
           client' \in BOOLEAN, dropped' \subseteq Peers
    PROVE  TransportInv'
<1>0. TransportTypeOK /\ StoredSafe /\ AloneSafe
  BY DEF TransportInv
<1>1. request' \in [Peers -> FileRequest \cup {Nothing}]
  BY <1>0 DEF TransportTypeOK
<1>2. \A v \in Peers : request'[v] = IF v = u THEN q ELSE request[v]
  BY <1>0 DEF TransportTypeOK
<1>3. \A f : ~Touches(q, f)
  BY DEF Touches
<1>4. TransportTypeOK'
  BY <1>0, <1>1, <1>2 DEF TransportTypeOK
<1>5. StoredSafe'
  BY <1>0, <1>2, <1>3 DEF StoredSafe, Touches
<1>6. AloneSafe'
  BY <1>0, <1>2, <1>3 DEF AloneSafe, Touches, Acknowledged
<1> QED
  BY <1>4, <1>5, <1>6 DEF TransportInv

\* Upload, delete, download and list begin.
LEMMA OperationStartKeeps ==
    ASSUME TransportInv, NEW u \in Peers, NEW f \in RemoteFiles, NEW data \in Contents,
           NEW op \in {"upload", "delete", "download", "list"},
           OperationStarts(u, op, f, data)
    PROVE  TransportInv'
<1> DEFINE q == Sent(op, f, data)
<1>0. TransportTypeOK /\ StoredSafe /\ AloneSafe /\ ClockTypeOK'
  BY DEF TransportInv, TransportTypeOK, ClockTypeOK, OperationStarts, Request
<1>1. UNCHANGED <<client, dropped, remote, stray, local, status>> /\ request[u] = Nothing
  BY DEF OperationStarts
<1>2. q \in FileRequest /\ q.op = op /\ q.file = f /\ q.arrived = FALSE
  <2>1. (\A r \in stray \cup {request[v] : v \in Peers} :
             r # Nothing /\ r.file = f => ~Changes(r)) \in BOOLEAN
    OBVIOUS
  <2> QED
    BY <2>1, ZenonT(40) DEF Sent, FileRequest
<1>3. q.alone => \A r \in stray : ~Touches(r, f)
  BY <1>0 DEF Sent, Touches
<1>4. q.alone => \A v \in Peers : ~Touches(request[v], f)
  BY DEF Sent, Touches
<1> HIDE DEF q
<1>5. CASE ~(status = "connected" /\ client /\ Changes(q))
  <2>1. UNCHANGED stored
    BY <1>5 DEF OperationStarts, q
  <2>2. CASE status = "connected" /\ client
    <3>1. request' = [request EXCEPT ![u] = q]
      BY <1>5, <2>2 DEF OperationStarts, q
    <3> QED
      BY <1>0, <1>1, <1>2, <1>5, <2>1, <2>2, <3>1, PeerWaits DEF TransportTypeOK
  <2>3. CASE ~(status = "connected" /\ client)
    <3>1. request' = [request EXCEPT ![u] = Nothing]
      BY <1>0, <1>1, <2>3 DEF OperationStarts, TransportTypeOK
    <3> QED
      BY <1>0, <1>1, <2>1, <3>1, PeerWaits DEF TransportTypeOK
  <2> QED
    BY <2>2, <2>3
<1>6. CASE status = "connected" /\ client /\ Changes(q)
  <2>1. /\ request' = [Shared(u, f) EXCEPT ![u] = q]
        /\ stored' = [stored EXCEPT ![f] = Nothing]
    BY <1>6 DEF OperationStarts, q
  <2>2. request'[u] = q
    BY <2>1 DEF Shared
  <2>3. ASSUME NEW v \in Peers, v # u PROVE
          /\ request'[v] \in FileRequest \cup {Nothing}
          /\ request'[v] = Nothing <=> request[v] = Nothing
          /\ request[v] # Nothing =>
                /\ request'[v].op = request[v].op
                /\ request'[v].file = request[v].file
                /\ request'[v].data = request[v].data
                /\ request'[v].arrived = request[v].arrived
                /\ request'[v].answer = request[v].answer
                /\ request'[v].alone => request[v].alone /\ request[v].file # f
    <3>1. CASE request[v] # Nothing /\ request[v].file = f
      <4>1. request'[v] = [request[v] EXCEPT !.alone = FALSE]
        BY <2>1, <2>3, <3>1 DEF Shared
      <4>2. request[v] \in FileRequest
        BY <1>0, <3>1 DEF TransportTypeOK
      <4>3. request'[v] \in FileRequest
        BY <4>1, <4>2 DEF FileRequest
      <4>4. request'[v] # Nothing
        BY <4>3, TransportAssumption
      <4> QED
        BY <3>1, <4>1, <4>2, <4>3, <4>4 DEF FileRequest
    <3>2. CASE ~(request[v] # Nothing /\ request[v].file = f)
      <4>1. request'[v] = request[v]
        BY <2>1, <2>3, <3>2 DEF Shared
      <4> QED
        BY <1>0, <3>2, <4>1 DEF TransportTypeOK
    <3> QED
      BY <3>1, <3>2
  <2>4. request' \in [Peers -> FileRequest \cup {Nothing}]
    <3>1. request' = [v \in Peers |-> request'[v]]
      BY <2>1 DEF Shared
    <3> QED
      BY <1>2, <2>2, <2>3, <3>1
  <2>5. TransportTypeOK'
    <3>1. stored' \in [RemoteFiles -> Contents]
      BY <1>0, <2>1 DEF TransportTypeOK, Contents
    <3>2. ASSUME NEW v \in Peers, request'[v] # Nothing, request'[v].op # "connect"
          PROVE  request'[v].file \in RemoteFiles
      BY <1>0, <1>2, <2>2, <2>3, <3>2 DEF TransportTypeOK
    <3> QED
      BY <1>0, <1>1, <2>4, <3>1, <3>2 DEF TransportTypeOK
  <2>6. ASSUME NEW v \in Peers, v # u, NEW g
        PROVE  Touches(request'[v], g) <=> Touches(request[v], g)
    BY <2>3, <2>6 DEF Touches, Changes
  <2>7. \A g : Touches(q, g) => g = f
    BY <1>2 DEF Touches
  <2>8. StoredSafe'
    <3> SUFFICES ASSUME NEW g \in RemoteFiles, stored'[g] # Nothing
                 PROVE  /\ remote'[g] = stored'[g]
                        /\ \A r \in stray' : ~Touches(r, g)
                        /\ \A v \in Peers : ~Touches(request'[v], g)
      BY DEF StoredSafe, Touches
    <3>1. g # f /\ stored'[g] = stored[g]
      BY <1>0, <2>1 DEF TransportTypeOK
    <3> QED
      BY <1>0, <1>1, <2>2, <2>6, <2>7, <3>1 DEF StoredSafe
  <2>9. ASSUME NEW v \in Peers, request'[v] # Nothing, Changes(request'[v]), request'[v].alone
        PROVE  /\ \A r \in stray : ~Touches(r, request'[v].file)
               /\ \A w \in Peers \ {v} : ~Touches(request'[w], request'[v].file)
               /\ request'[v].op = "upload" /\ Acknowledged(request'[v]) =>
                     remote[request'[v].file] = request'[v].data
    <3>1. CASE v = u
      BY <1>2, <1>3, <1>4, <2>2, <2>6, <2>9, <3>1 DEF Acknowledged
    <3>2. CASE v # u
      <4>1. /\ request[v] # Nothing /\ Changes(request[v]) /\ request[v].alone
            /\ request[v].file # f /\ request'[v].file = request[v].file
            /\ request'[v].op = request[v].op /\ request'[v].data = request[v].data
            /\ Acknowledged(request'[v]) => Acknowledged(request[v])
        BY <2>3, <2>9, <3>2 DEF Changes, Acknowledged
      <4> QED
        BY <1>0, <2>2, <2>6, <2>7, <4>1 DEF AloneSafe
    <3> QED
      BY <3>1, <3>2
  <2>10. AloneSafe'
    BY <1>1, <2>9 DEF AloneSafe, Touches
  <2> QED
    BY <2>5, <2>8, <2>10 DEF TransportInv
<1> QED
  BY <1>5, <1>6

\* The other side takes a request, or refuses it.
LEMMA ArrivalKeeps ==
    ASSUME TransportInv, NEW u \in Peers, RequestArrives(u)
    PROVE  TransportInv'
<1> DEFINE r == request[u]
           q == request'[u]
<1>0. TransportTypeOK /\ StoredSafe /\ AloneSafe /\ ClockTypeOK'
  BY DEF TransportInv, TransportTypeOK, ClockTypeOK, RequestArrives, clockVars
<1>1. UNCHANGED <<client, dropped, status, stray, stored, local>> /\ r # Nothing /\ r.op # "connect"
  BY DEF RequestArrives
<1>2. r \in FileRequest /\ r.file \in RemoteFiles
  BY <1>0, <1>1 DEF TransportTypeOK
<1>3. request' = [request EXCEPT ![u] = q]
  <2>1. request \in [Peers -> FileRequest \cup {Nothing}]
    BY <1>0 DEF TransportTypeOK
  <2> QED
    BY <2>1 DEF RequestArrives
<1>4. \A v \in Peers \ {u} : request'[v] = request[v]
  BY <1>0, <1>3 DEF TransportTypeOK
<1>5. /\ q \in FileRequest
      /\ q.op = r.op /\ q.file = r.file /\ q.alone = r.alone
      /\ \/ /\ remote' = Applied(r)
            /\ r.op = "upload" => q.data = r.data
         \/ q.answer = "failure" /\ remote' = remote
  <2>1. CASE /\ remote' = Applied(r)
             /\ request' = [request EXCEPT ![u].arrived = TRUE, ![u].answer = "success",
                                ![u].data = IF request[u].op = "download"
                                            THEN remote[request[u].file]
                                            ELSE request[u].data]
    <3> DEFINE d == IF r.op = "download" THEN remote[r.file] ELSE r.data
    <3>1. d \in Contents
      BY <1>0, <1>2 DEF TransportTypeOK, FileRequest
    <3>2. q = [r EXCEPT !.arrived = TRUE, !.answer = "success", !.data = d]
      BY <1>0, <2>1 DEF TransportTypeOK
    <3>3. r.op = "upload" => d = r.data
      OBVIOUS
    <3> HIDE DEF d, r, q
    <3> QED
      BY <1>2, <2>1, <3>1, <3>2, <3>3 DEF FileRequest
  <2>2. CASE /\ request' = [request EXCEPT ![u].arrived = TRUE, ![u].answer = "failure"]
             /\ UNCHANGED remote
    <3>1. q = [r EXCEPT !.arrived = TRUE, !.answer = "failure"]
      BY <1>0, <2>2 DEF TransportTypeOK
    <3> HIDE DEF r, q
    <3> QED
      BY <1>2, <2>2, <3>1 DEF FileRequest
  <2> QED
    BY <2>1, <2>2 DEF RequestArrives
<1>6. /\ remote' \in [RemoteFiles -> Contents]
      /\ \A f \in RemoteFiles : ~Touches(r, f) => remote'[f] = remote[f]
      /\ r.op = "upload" /\ q.answer = "success" => remote'[r.file] = q.data
  <2>1. remote \in [RemoteFiles -> Contents]
    BY <1>0 DEF TransportTypeOK
  <2> HIDE DEF q, r
  <2>2. CASE remote' = remote /\ q.answer = "failure"
    BY <2>1, <2>2
  <2>3. CASE remote' = Applied(r) /\ (r.op = "upload" => q.data = r.data)
    <3>1. r.data \in Contents
      BY <1>2 DEF FileRequest
    <3>2. CASE r.op = "upload"
      <4>1. remote' = [remote EXCEPT ![r.file] = r.data]
        BY <2>3, <3>2 DEF Applied
      <4> QED
        BY <1>1, <1>2, <2>1, <2>3, <3>1, <3>2, <4>1 DEF Touches, Changes
    <3>3. CASE r.op = "delete"
      <4>1. remote' = [remote EXCEPT ![r.file] = Nothing]
        BY <2>3, <3>3 DEF Applied
      <4> QED
        BY <1>1, <1>2, <2>1, <3>3, <4>1 DEF Touches, Changes, Contents
    <3>4. CASE r.op \notin {"upload", "delete"}
      BY <2>1, <2>3, <3>4 DEF Applied
    <3> QED
      BY <3>2, <3>3, <3>4
  <2> QED
    BY <1>5, <2>2, <2>3
<1>7. \A f : \A v \in Peers : Touches(request'[v], f) <=> Touches(request[v], f)
  <2>1. q # Nothing
    BY <1>5, TransportAssumption
  <2> QED
    BY <1>1, <1>4, <1>5, <2>1 DEF Touches, Changes
<1>8. TransportTypeOK'
  <2>1. request' \in [Peers -> FileRequest \cup {Nothing}]
    BY <1>0, <1>3, <1>5 DEF TransportTypeOK
  <2>2. \A v \in Peers : request'[v] # Nothing /\ request'[v].op # "connect" =>
                            request'[v].file \in RemoteFiles
    BY <1>0, <1>2, <1>4, <1>5 DEF TransportTypeOK
  <2> QED
    BY <1>0, <1>1, <1>6, <2>1, <2>2 DEF TransportTypeOK
<1>9. StoredSafe'
  <2>1. \A f \in RemoteFiles : stored[f] # Nothing => ~Touches(r, f)
    BY <1>0 DEF StoredSafe
  <2> QED
    BY <1>0, <1>1, <1>6, <1>7, <2>1 DEF StoredSafe, Touches
<1>10. AloneSafe'
  <2> SUFFICES ASSUME NEW v \in Peers, request'[v] # Nothing, Changes(request'[v]),
                      request'[v].alone
               PROVE  /\ \A s \in stray : ~Touches(s, request'[v].file)
                      /\ \A w \in Peers \ {v} : ~Touches(request'[w], request'[v].file)
                      /\ request'[v].op = "upload" /\ Acknowledged(request'[v]) =>
                            remote'[request'[v].file] = request'[v].data
    BY <1>1 DEF AloneSafe, Touches
  <2>1. CASE v = u
    BY <1>0, <1>1, <1>5, <1>6, <1>7, <2>1 DEF AloneSafe, Acknowledged, Changes
  <2>2. CASE v # u
    <3>1. request'[v] = request[v]
      BY <1>4, <2>2
    <3>2. ~Touches(r, request[v].file)
      BY <1>0, <2>2, <3>1 DEF AloneSafe
    <3>3. request[v].file \in RemoteFiles
      BY <1>0, <3>1 DEF TransportTypeOK, Changes
    <3> QED
      BY <1>0, <1>6, <1>7, <3>1, <3>2, <3>3 DEF AloneSafe
  <2> QED
    BY <2>1, <2>2
<1> QED
  BY <1>8, <1>9, <1>10 DEF TransportInv

\* A request that nobody waits for any more reaches the other side.
LEMMA StrayKeeps ==
    ASSUME TransportInv, NEW r \in stray, StrayArrives(r)
    PROVE  TransportInv'
<1>0. TransportTypeOK /\ StoredSafe /\ AloneSafe /\ ClockTypeOK'
  BY DEF TransportInv, TransportTypeOK, ClockTypeOK, StrayArrives, clockVars
<1>1. UNCHANGED <<client, dropped, status, request, stored, local>> /\ stray' \subseteq stray
  BY DEF StrayArrives
<1>2. r \in FileRequest /\ r.file \in RemoteFiles /\ r # Nothing
  BY <1>0, TransportAssumption DEF TransportTypeOK
<1>3. /\ remote' \in [RemoteFiles -> Contents]
      /\ \A f \in RemoteFiles : ~Touches(r, f) => remote'[f] = remote[f]
  <2>1. remote \in [RemoteFiles -> Contents] /\ r.data \in Contents
    BY <1>0, <1>2 DEF TransportTypeOK, FileRequest
  <2>2. CASE r.op = "upload"
    <3>1. remote' = [remote EXCEPT ![r.file] = r.data]
      BY <2>2 DEF StrayArrives, Applied
    <3> QED
      BY <1>2, <2>1, <2>2, <3>1 DEF Touches, Changes
  <2>3. CASE r.op = "delete"
    <3>1. remote' = [remote EXCEPT ![r.file] = Nothing]
      BY <2>3 DEF StrayArrives, Applied
    <3> QED
      BY <1>2, <2>1, <2>3, <3>1 DEF Touches, Changes, Contents
  <2>4. CASE r.op \notin {"upload", "delete"}
    BY <2>1, <2>4 DEF StrayArrives, Applied
  <2> QED
    BY <2>2, <2>3, <2>4
<1>4. TransportTypeOK'
  BY <1>0, <1>1, <1>3 DEF TransportTypeOK
<1>5. StoredSafe'
  BY <1>0, <1>1, <1>3 DEF StoredSafe, Touches
<1>6. AloneSafe'
  <2>1. ASSUME NEW v \in Peers, request[v] # Nothing, Changes(request[v]), request[v].alone
        PROVE  /\ \A s \in stray' : ~Touches(s, request[v].file)
               /\ \A w \in Peers \ {v} : ~Touches(request[w], request[v].file)
               /\ request[v].op = "upload" /\ Acknowledged(request[v]) =>
                     remote'[request[v].file] = request[v].data
    <3>1. request[v].file \in RemoteFiles
      BY <1>0, <2>1 DEF TransportTypeOK, Changes
    <3> QED
      BY <1>0, <1>1, <1>3, <2>1, <3>1 DEF AloneSafe
  <2> QED
    BY <1>1, <2>1 DEF AloneSafe, Touches, Changes, Acknowledged
<1> QED
  BY <1>4, <1>5, <1>6 DEF TransportInv

\* The answer reaches the task: only here an upload is remembered as acknowledged.
LEMMA OperationEndKeeps ==
    ASSUME TransportInv, NEW u \in Peers, OperationEnds(u)
    PROVE  TransportInv'
<1> DEFINE r == request[u]
<1>0. TransportTypeOK /\ StoredSafe /\ AloneSafe /\ ClockTypeOK'
  BY DEF TransportInv, TransportTypeOK, ClockTypeOK, OperationEnds, clockVars
<1>1. /\ UNCHANGED <<client, dropped, status, remote, stray>>
      /\ r # Nothing /\ r.op # "connect"
      /\ request' = [request EXCEPT ![u] = Nothing]
      /\ \/ stored' = stored
         \/ /\ stored' = [stored EXCEPT ![r.file] = r.data]
            /\ r.op = "upload" /\ Acknowledged(r) /\ r.alone
  BY DEF OperationEnds
<1>2. r \in FileRequest /\ r.file \in RemoteFiles /\ r.data \in Contents
  BY <1>0, <1>1 DEF TransportTypeOK, FileRequest
<1>3. local' \in [RemoteFiles -> Contents]
  BY <1>0, <1>2 DEF OperationEnds, TransportTypeOK
<1>4. CASE stored' = stored
  BY <1>0, <1>1, <1>3, <1>4, PeerWaits DEF TransportTypeOK
<1>5. CASE /\ stored' = [stored EXCEPT ![r.file] = r.data]
           /\ r.op = "upload" /\ Acknowledged(r) /\ r.alone
  <2>1. /\ remote[r.file] = r.data
        /\ \A s \in stray : ~Touches(s, r.file)
        /\ \A v \in Peers \ {u} : ~Touches(request[v], r.file)
    BY <1>0, <1>1, <1>5 DEF AloneSafe, Changes
  <2>2. \A v \in Peers : request'[v] = IF v = u THEN Nothing ELSE request[v]
    BY <1>0, <1>1 DEF TransportTypeOK
  <2>3. \A f \in RemoteFiles : stored'[f] = IF f = r.file THEN r.data ELSE stored[f]
    BY <1>0, <1>5 DEF TransportTypeOK
  <2>4. TransportTypeOK'
    <3>1. stored' \in [RemoteFiles -> Contents]
      BY <1>0, <1>2, <1>5 DEF TransportTypeOK
    <3>2. request' \in [Peers -> FileRequest \cup {Nothing}]
      BY <1>0, <1>1 DEF TransportTypeOK
    <3> HIDE DEF r
    <3> QED
      BY <1>0, <1>1, <1>3, <2>2, <3>1, <3>2 DEF TransportTypeOK
  <2> HIDE DEF r
  <2>5. StoredSafe'
    BY <1>0, <1>1, <2>1, <2>2, <2>3 DEF StoredSafe, Touches
  <2>6. AloneSafe'
    BY <1>0, <1>1, <2>2 DEF AloneSafe, Touches, Acknowledged
  <2> QED
    BY <2>4, <2>5, <2>6 DEF TransportInv
<1> QED
  BY <1>1, <1>4, <1>5

\* The task gives up; its request is lost or goes on without it.
LEMMA TimeoutKeeps ==
    ASSUME TransportInv, NEW u \in Peers, OperationTimesOut(u)
    PROVE  TransportInv'
<1> DEFINE r == request[u]
<1>0. TransportTypeOK /\ StoredSafe /\ AloneSafe /\ ClockTypeOK'
  BY DEF TransportInv, TransportTypeOK, ClockTypeOK, OperationTimesOut, clockVars
<1>1. /\ UNCHANGED <<client, dropped, status, remote, stored, local>>
      /\ r # Nothing /\ r.op # "connect"
      /\ request' = [request EXCEPT ![u] = Nothing]
      /\ stray' = stray \/ stray' = stray \cup {r}
  BY DEF OperationTimesOut
<1>2. CASE stray' = stray
  BY <1>0, <1>1, <1>2, PeerWaits DEF TransportTypeOK
<1>3. CASE stray' = stray \cup {r}
  <2>1. r \in FileRequest /\ r.file \in RemoteFiles
    BY <1>0, <1>1 DEF TransportTypeOK
  <2>2. \A v \in Peers : request'[v] = IF v = u THEN Nothing ELSE request[v]
    BY <1>0, <1>1 DEF TransportTypeOK
  <2>3. TransportTypeOK'
    <3>1. request' \in [Peers -> FileRequest \cup {Nothing}]
      BY <1>0, <1>1 DEF TransportTypeOK
    <3> HIDE DEF r
    <3> QED
      BY <1>0, <1>1, <1>3, <2>1, <2>2, <3>1 DEF TransportTypeOK
  <2>4. StoredSafe'
    BY <1>0, <1>1, <1>3, <2>2 DEF StoredSafe, Touches
  <2>5. AloneSafe'
    <3> SUFFICES ASSUME NEW v \in Peers, request'[v] # Nothing, Changes(request'[v]),
                        request'[v].alone
                 PROVE  /\ \A s \in stray' : ~Touches(s, request'[v].file)
                        /\ \A w \in Peers \ {v} : ~Touches(request'[w], request'[v].file)
                        /\ request'[v].op = "upload" /\ Acknowledged(request'[v]) =>
                              remote[request'[v].file] = request'[v].data
      BY <1>1 DEF AloneSafe, Touches
    <3>1. v # u /\ request'[v] = request[v]
      BY <2>2
    <3>2. /\ \A s \in stray : ~Touches(s, request[v].file)
          /\ \A w \in Peers \ {v} : ~Touches(request[w], request[v].file)
          /\ request[v].op = "upload" /\ Acknowledged(request[v]) =>
                remote[request[v].file] = request[v].data
      BY <1>0, <3>1 DEF AloneSafe
    <3>3. ~Touches(r, request[v].file)
      BY <3>1, <3>2
    <3> QED
      BY <1>3, <2>2, <3>1, <3>2, <3>3 DEF Touches
  <2> QED
    BY <2>3, <2>4, <2>5 DEF TransportInv
<1> QED
  BY <1>1, <1>2, <1>3

\* Every step of the transport keeps the invariant.
LEMMA TransportSteps ==
    TransportInv /\ [TransportNext]_<<clockVars, transportVars>> => TransportInv'
<1> SUFFICES ASSUME TransportInv, [TransportNext]_<<clockVars, transportVars>>
             PROVE  TransportInv'
  OBVIOUS
<1>1. ASSUME NEW u \in Peers, ConnectStarts(u) PROVE TransportInv'
  <2> DEFINE q == Sent("connect", Nothing, Nothing)
  <2>1. q \in FileRequest /\ q.op = "connect"
    <3>1. (\A r \in stray \cup {request[v] : v \in Peers} :
               r # Nothing /\ r.file = Nothing => ~Changes(r)) \in BOOLEAN
      OBVIOUS
    <3>2. Nothing \in Contents
      BY DEF Contents
    <3> QED
      BY <3>1, <3>2, ZenonT(40) DEF Sent, FileRequest
  <2> HIDE DEF q
  <2>2. /\ UNCHANGED <<client, remote, stray, stored, local>> /\ status' = "connecting"
        /\ \/ request' = [request EXCEPT ![u] = q] /\ dropped' = dropped \ {u}
           \/ UNCHANGED <<request, dropped>>
    BY <1>1 DEF ConnectStarts, q
  <2>3. /\ local \in [RemoteFiles -> Contents] /\ ClockTypeOK'
        /\ client \in BOOLEAN /\ dropped \subseteq Peers
        /\ request \in [Peers -> FileRequest \cup {Nothing}] /\ request[u] = Nothing
    BY <1>1 DEF ConnectStarts, Request, ClockTypeOK, TransportInv, TransportTypeOK
  <2>4. CASE request' = [request EXCEPT ![u] = q] /\ dropped' = dropped \ {u}
    BY <2>1, <2>2, <2>3, <2>4, PeerWaits DEF Changes
  <2>5. CASE UNCHANGED <<request, dropped>>
    <3>1. request' = [request EXCEPT ![u] = Nothing]
      BY <2>3, <2>5
    <3> QED
      BY <2>2, <2>3, <2>5, <3>1, PeerWaits
  <2> QED
    BY <2>2, <2>4, <2>5
<1>2. ASSUME NEW u \in Peers, ConnectEnds(u) \/ ConnectDropped(u) PROVE TransportInv'
  <2>1. /\ ClockTypeOK' /\ local' \in [RemoteFiles -> Contents]
        /\ client' \in BOOLEAN /\ dropped' \subseteq Peers
        /\ status \in {"disconnected", "connecting", "connected", "error"}
    BY <1>2 DEF ConnectEnds, ConnectDropped, clockVars, ClockTypeOK, TransportInv,
                TransportTypeOK
  <2>2. status' \in {"disconnected", "connecting", "connected", "error"}
    BY <1>2, <2>1 DEF ConnectEnds, ConnectDropped, StatusAfter
  <2> QED
    BY <1>2, <2>1, <2>2, PeerWaits DEF ConnectEnds, ConnectDropped
<1>3. ASSUME NEW u \in Peers, NEW f \in RemoteFiles,
             \/ \E b \in Bytes : OperationStarts(u, "upload", f, b)
             \/ \E op \in {"download", "delete", "list"} : OperationStarts(u, op, f, Nothing)
      PROVE  TransportInv'
  BY <1>3, OperationStartKeeps DEF Contents
<1>4. ASSUME NEW u \in Peers, OperationEnds(u) \/ OperationTimesOut(u) \/ RequestArrives(u)
      PROVE  TransportInv'
  BY <1>4, OperationEndKeeps, TimeoutKeeps, ArrivalKeeps
<1>5. CASE UNCHANGED <<clockVars, transportVars>>
  BY <1>5 DEF clockVars, transportVars, TransportInv, TransportTypeOK, ClockTypeOK, StoredSafe,
              AloneSafe, Touches, Changes, Acknowledged
<1>6. CASE TransportNext
  BY <1>1, <1>2, <1>3, <1>4, <1>6, StrayKeeps DEF TransportNext
<1> QED
  BY <1>5, <1>6

\* The transport's state keeps its types: a request that timed out included.
THEOREM TransportTypes == TransportSpec => []TransportTypeOK
<1>1. TransportInv => TransportTypeOK
  BY DEF TransportInv
<1> QED
  BY <1>1, TransportStart, TransportSteps, PTL DEF TransportSpec

\* upload_file, for any number of tasks and files and whatever requests time out: what
\* was acknowledged is on the other side until somebody begins to change it.
THEOREM AcknowledgedStays == TransportSpec => []AcknowledgedIsStored
<1>1. TransportInv => AcknowledgedIsStored
  BY DEF TransportInv, StoredSafe, AcknowledgedIsStored
<1> QED
  BY <1>1, TransportStart, TransportSteps, PTL DEF TransportSpec

-----------------------------------------------------------------------------
(* Verification *)

\* Between the two looks at an untouched file, its size is the one of its entry.
SizedRight ==
    sized # Nothing =>
        /\ done < Len(listed)
        /\ Current.path \notin tampered =>
              /\ storage[Current.path] # Nothing
              /\ storage[Current.path].size = Current.version.size

\* Only what is judged was found unreadable.
UnreadableJudged == unreadable \subseteq 1..done

IntegrityInv == IntegrityTypeOK /\ SizedRight /\ UnreadableJudged /\ ReportTrue

\* In the initial states nothing is judged.
LEMMA IntegrityStart == IntegrityInit => IntegrityInv
<1> SUFFICES ASSUME IntegrityInit PROVE IntegrityInv
  OBVIOUS
<1>1. listed \in Seq([path : CheckedFiles, version : Versions]) /\ Len(listed) = 2
  <2>1. PICK fs \in [1..2 -> CheckedFiles], vs \in [1..2 -> Versions] :
           listed = [i \in 1..2 |-> [path |-> fs[i], version |-> vs[i]]]
    BY DEF IntegrityInit
  <2> QED
    BY <2>1
<1>2. checks \in Report
  BY DEF IntegrityInit, Report
<1>3. IntegrityTypeOK
  BY <1>1, <1>2 DEF IntegrityInit, IntegrityTypeOK
<1> QED
  BY <1>3 DEF IntegrityInit, IntegrityInv, SizedRight, UnreadableJudged, ReportTrue

\* One of two counts goes up, and so does their sum.
LEMMA OneMore ==
    \A a, b \in Nat : /\ a + b \in Nat /\ a + 1 \in Nat /\ a + 0 \in Nat
                      /\ (a + 1) + (b + 0) = a + b + 1
                      /\ (a + 0) + (b + 1) = a + b + 1
OBVIOUS

\* The current entry is judged: passed tells whether the file could be read and is what
\* it should be, unless somebody touched it.
LEMMA JudgementKeeps ==
    ASSUME IntegrityInv, done < Len(listed), NEW passed \in BOOLEAN, NEW bytes \in Nat,
           checks' = Added(passed, bytes), done' = done + 1, sized' = Nothing \/ sized' = sized,
           sized = Nothing \/ sized' = Nothing,
           UNCHANGED <<storage, listed, tampered>>,
           NEW found \in SUBSET {done + 1}, unreadable' = unreadable \cup found,
           Current.path \notin tampered =>
               (passed <=> found = {} /\ storage[Current.path] = Current.version)
    PROVE  IntegrityInv'
<1>0. IntegrityTypeOK /\ UnreadableJudged /\ ReportTrue
  BY DEF IntegrityInv
<1>1. /\ checks.ok \in Nat /\ checks.failed \in Nat /\ checks.bytes \in Nat
      /\ checks.list \in Seq(BOOLEAN) /\ Len(checks.list) = done
      /\ done \in Nat /\ Len(listed) \in Nat /\ sized' = Nothing
  BY <1>0 DEF IntegrityTypeOK, Report, ReportTrue
<1>2. /\ checks'.list = Append(checks.list, passed)
      /\ checks'.ok \in Nat /\ checks'.failed \in Nat
      /\ checks'.ok + checks'.failed = checks.ok + checks.failed + 1
      /\ checks' \in Report
  <2> DEFINE ok == checks.ok + (IF passed THEN 1 ELSE 0)
             failed == checks.failed + (IF passed THEN 0 ELSE 1)
             total == checks.bytes + bytes
             list == Append(checks.list, passed)
  <2>0. checks.ok \in Nat /\ checks.failed \in Nat /\ checks.bytes \in Nat
    BY <1>1
  <2>1. /\ ok \in Nat /\ failed \in Nat /\ total \in Nat
        /\ ok + failed = checks.ok + checks.failed + 1
    <3>1. total \in Nat
      BY <2>0, OneMore
    <3>2. CASE passed
      <4>1. ok = checks.ok + 1 /\ failed = checks.failed + 0
        BY <3>2, Zenon
      <4> QED
        BY <2>0, <3>1, <4>1, OneMore, Zenon
    <3>3. CASE ~passed
      <4>1. ok = checks.ok + 0 /\ failed = checks.failed + 1
        BY <3>3, Zenon
      <4> QED
        BY <2>0, <3>1, <4>1, OneMore, Zenon
    <3> QED
      BY <3>2, <3>3
  <2>2. list \in Seq(BOOLEAN)
    <3> DEFINE B == BOOLEAN
    <3>1. passed \in B /\ checks.list \in Seq(B)
      BY <1>1
    <3> HIDE DEF B
    <3>2. Append(checks.list, passed) \in Seq(B)
      BY <3>1
    <3> QED
      BY <3>2 DEF B
  <2>3. checks' = [ok |-> ok, failed |-> failed, bytes |-> total, list |-> list]
    BY Zenon DEF Added
  <2> HIDE DEF ok, failed, total, list
  <2>4. checks'.ok = ok /\ checks'.failed = failed /\ checks'.list = list
    BY <2>3
  <2>5. checks' \in Report
    BY <2>1, <2>2, <2>3 DEF Report
  <2> QED
    BY <2>1, <2>4, <2>5 DEF list
<1>3. Len(checks'.list) = done + 1 /\ checks'.list[done + 1] = passed
      /\ \A i \in 1..done : checks'.list[i] = checks.list[i]
  BY <1>1, <1>2
<1>4. IntegrityTypeOK' /\ UnreadableJudged'
  <2>1. done + 1 \in 1..Len(listed)
    BY <1>1
  <2>2. unreadable' \subseteq 1..Len(listed)
    BY <1>0, <2>1 DEF IntegrityTypeOK
  <2>3. UnreadableJudged'
    BY <1>0, <1>1 DEF UnreadableJudged
  <2> QED
    BY <1>0, <1>1, <1>2, <2>2, <2>3 DEF IntegrityTypeOK
<1>5. ASSUME NEW i \in 1..(done + 1), listed[i].path \notin tampered
      PROVE  checks'.list[i] <=>
                 i \notin unreadable' /\ storage[listed[i].path] = listed[i].version
  <2>1. CASE i = done + 1
    <3>1. done + 1 \notin unreadable
      BY <1>0, <1>1 DEF UnreadableJudged
    <3>2. done + 1 \notin unreadable' <=> found = {}
      BY <3>1
    <3>3. checks'.list[i] <=> passed
      BY <1>3, <2>1
    <3> QED
      BY <1>5, <2>1, <3>2, <3>3 DEF Current
  <2>2. CASE i # done + 1
    <3>1. i \in 1..done /\ (i \in unreadable' <=> i \in unreadable)
      BY <1>1, <1>5, <2>2
    <3> QED
      BY <1>0, <1>3, <1>5, <3>1 DEF ReportTrue
  <2> QED
    BY <2>1, <2>2
<1>6. ReportTrue'
  BY <1>0, <1>2, <1>3, <1>5 DEF ReportTrue
<1> QED
  BY <1>1, <1>4, <1>6 DEF IntegrityInv, SizedRight

\* Every step of a verification, and every change of a file, keeps the invariant.
LEMMA IntegritySteps ==
    IntegrityInv /\ [IntegrityNext]_<<clockVars, integrityVars>> => IntegrityInv'
<1> SUFFICES ASSUME IntegrityInv, [IntegrityNext]_<<clockVars, integrityVars>>
             PROVE  IntegrityInv'
  OBVIOUS
<1>0. IntegrityTypeOK /\ SizedRight /\ UnreadableJudged /\ ReportTrue
  BY DEF IntegrityInv
<1> DEFINE v == storage[Current.path]
<1>1. done < Len(listed) =>
         /\ Current \in [path : CheckedFiles, version : Versions]
         /\ v \in Versions \cup {Nothing}
  <2> DEFINE Told == [path : CheckedFiles, version : Versions]
  <2>0. listed \in Seq(Told) /\ done \in Nat /\ Len(listed) \in Nat
    BY <1>0 DEF IntegrityTypeOK
  <2>1. done < Len(listed) => Current \in Told
    <3> HIDE DEF Told
    <3> QED
      BY <2>0 DEF Current
  <2> QED
    BY <1>0, <2>1 DEF IntegrityTypeOK
<1>2. ASSUME NEW f \in CheckedFiles, Tamper(f) PROVE IntegrityInv'
  <2>1. /\ UNCHANGED <<listed, done, sized, checks, unreadable>> /\ tampered' = tampered \cup {f}
        /\ storage' \in [CheckedFiles -> Versions \cup {Nothing}]
        /\ \A g \in CheckedFiles : g # f => storage'[g] = storage[g]
    BY <1>0, <1>2 DEF Tamper, IntegrityTypeOK
  <2>2. IntegrityTypeOK'
    BY <1>0, <2>1 DEF IntegrityTypeOK
  <2>3. SizedRight'
    BY <1>0, <1>1, <2>1 DEF SizedRight, Current
  <2>4. \A i \in 1..done : listed[i].path \in CheckedFiles
    <3> DEFINE Told == [path : CheckedFiles, version : Versions]
    <3>1. listed \in Seq(Told) /\ done \in 0..Len(listed)
      BY <1>0 DEF IntegrityTypeOK
    <3>2. \A i \in 1..done : listed[i] \in Told
      <4> HIDE DEF Told
      <4> QED
        BY <3>1
    <3> QED
      BY <3>2
  <2>5. ReportTrue'
    BY <1>0, <2>1, <2>4 DEF ReportTrue
  <2> QED
    BY <1>0, <2>1, <2>2, <2>3, <2>5 DEF IntegrityInv, UnreadableJudged
<1>3. ASSUME CheckSize PROVE IntegrityInv'
  <2>1. /\ done < Len(listed) /\ sized = Nothing
        /\ UNCHANGED <<storage, listed, tampered>>
    BY <1>3 DEF CheckSize
  <2>2. CASE /\ v = Nothing
             /\ checks' = Added(FALSE, 0) /\ done' = done + 1
             /\ UNCHANGED <<sized, unreadable>>
    <3>1. v # Current.version /\ unreadable' = unreadable \cup {}
      BY <1>1, <2>1, <2>2, IntegrityAssumption
    <3> QED
      BY <2>1, <2>2, <3>1, JudgementKeeps
  <2>3. CASE /\ checks' = Added(FALSE, 0) /\ unreadable' = unreadable \cup {done + 1}
             /\ done' = done + 1 /\ sized' = sized
    BY <2>1, <2>3, JudgementKeeps
  <2>4. CASE /\ v # Nothing /\ v.size # Current.version.size
             /\ checks' = Added(FALSE, v.size) /\ done' = done + 1
             /\ UNCHANGED <<sized, unreadable>>
    <3>1. v.size \in Nat /\ v # Current.version /\ unreadable' = unreadable \cup {}
      BY <1>1, <2>1, <2>4, IntegrityAssumption
    <3> QED
      BY <2>1, <2>4, <3>1, JudgementKeeps
  <2>5. CASE /\ v # Nothing /\ v.size = Current.version.size
             /\ sized' = v.size
             /\ UNCHANGED <<checks, done, unreadable>>
    <3>1. v.size \in Nat
      BY <1>1, <2>1, <2>5, IntegrityAssumption
    <3>2. IntegrityTypeOK' /\ UnreadableJudged' /\ ReportTrue'
      BY <1>0, <2>1, <2>5, <3>1 DEF IntegrityTypeOK, UnreadableJudged, ReportTrue
    <3>3. SizedRight'
      BY <2>1, <2>5 DEF SizedRight, Current
    <3> QED
      BY <3>2, <3>3 DEF IntegrityInv
  <2> QED
    BY <1>3, <2>2, <2>3, <2>4, <2>5 DEF CheckSize
<1>4. ASSUME CheckSum PROVE IntegrityInv'
  <2>1. /\ sized # Nothing /\ sized' = Nothing /\ done' = done + 1
        /\ UNCHANGED <<storage, listed, tampered>>
    BY <1>4 DEF CheckSum
  <2>2. done < Len(listed) /\ sized \in Nat
    BY <1>0, <2>1 DEF SizedRight, IntegrityTypeOK
  <2> DEFINE same == v.sum = Current.version.sum
  <2>3. CASE /\ v = Nothing
             /\ checks' = Added(FALSE, 0) /\ UNCHANGED unreadable
    <3>1. v # Current.version /\ unreadable' = unreadable \cup {}
      BY <1>1, <2>2, <2>3, IntegrityAssumption
    <3> QED
      BY <2>1, <2>2, <2>3, <3>1, JudgementKeeps
  <2>4. CASE checks' = Added(FALSE, 0) /\ unreadable' = unreadable \cup {done + 1}
    BY <2>1, <2>2, <2>4, JudgementKeeps
  <2>5. CASE /\ v # Nothing
             /\ checks' = Added(same, sized) /\ UNCHANGED unreadable
    <3>1. same \in BOOLEAN /\ unreadable' = unreadable \cup {}
      BY <2>5
    <3>2. Current.path \notin tampered => (same <=> v = Current.version)
      <4>1. v \in [size : Nat, sum : Nat] /\ Current.version \in [size : Nat, sum : Nat]
        BY <1>1, <2>2, <2>5, IntegrityAssumption
      <4>2. Current.path \notin tampered => v.size = Current.version.size
        BY <1>0, <2>1 DEF SizedRight
      <4> QED
        BY <4>1, <4>2
    <3> HIDE DEF same
    <3> QED
      BY <2>1, <2>2, <2>5, <3>1, <3>2, JudgementKeeps
  <2> QED
    BY <1>4, <2>3, <2>4, <2>5, Zenon DEF CheckSum
<1>5. CASE UNCHANGED <<clockVars, integrityVars>>
  BY <1>0, <1>5 DEF integrityVars, IntegrityInv, IntegrityTypeOK, SizedRight,
                    UnreadableJudged, ReportTrue, Current
<1> QED
  BY <1>2, <1>3, <1>4, <1>5 DEF IntegrityNext

\* verify_files, for any files, any list of entries and any changes meanwhile: the
\* report has one judgement for each entry, and the right one for untouched files that
\* could be read.
THEOREM ReportsAreTrue == IntegritySpec => []ReportTrue
<1>1. IntegrityInv => ReportTrue
  BY DEF IntegrityInv
<1> QED
  BY <1>1, IntegrityStart, IntegritySteps, PTL DEF IntegritySpec

-----------------------------------------------------------------------------
(* Scheduler *)

\* A call under way accounts for every task it set out with, has set aside only
\* tasks that may not run, and takes none that is outranked by one it leaves.
CallSound ==
    call # Nothing =>
        /\ call \in SchedulerCall
        /\ queue \cup call.skipped = call.before \ {call.result}
        /\ call.open => \A q \in call.skipped : ~MayRun(q.task)
        /\ call.result = Nothing => ~(call.ended /\ call.open)
        /\ call.result # Nothing =>
              /\ call.ended /\ call.open /\ MayRun(call.result.task)
              /\ \A q \in queue \cup {call.result} : ~Outranks(q.task, call.result.task)

ScheduleInv == served \in Nat /\ queue \subseteq Queued /\ CallSound

\* A call that begins has done nothing yet.
LEMMA CallBegins ==
    ASSUME NEW all \in BOOLEAN, queue' \subseteq Queued,
           \/ call' = [Begun(all) EXCEPT !.before = queue']
           \/ call' = Begun(all) /\ queue' = queue
    PROVE  CallSound'
<1>1. /\ call' \in SchedulerCall /\ call'.before = queue' /\ call'.skipped = {}
      /\ call'.result = Nothing /\ ~call'.ended
  <2> DEFINE open == IsWithin(Window, clock)
  <2>1. open \in BOOLEAN
    BY DEF IsWithin
  <2> HIDE DEF open
  <2>2. call' = [all |-> all, before |-> queue', open |-> open, skipped |-> {},
                 result |-> Nothing, ended |-> FALSE]
    BY DEF Begun, open
  <2> QED
    BY <2>1, <2>2 DEF SchedulerCall
<1>2. Nothing \notin queue'
  BY SchedulerAssumption DEF Queued
<1> QED
  BY <1>1, <1>2 DEF CallSound

\* Taking the next task from the heap.
LEMMA PopKeeps == ASSUME ScheduleInv, Pop PROVE ScheduleInv'
<1>1. PICK q \in Greatest : call' = Popped(q) /\ queue' = queue \ {q}
  BY DEF Pop
<1>2. /\ call # Nothing /\ ~call.ended /\ call \in SchedulerCall /\ call.result = Nothing
      /\ served' = served
  BY DEF Pop, ScheduleInv, CallSound, clockVars
<1>3. /\ q \in queue /\ q \in Queued /\ q # Nothing
      /\ \A r \in queue : ~Outranks(r.task, q.task)
  BY <1>1, SchedulerAssumption DEF Greatest, ScheduleInv, Queued
<1>4. queue \cup call.skipped = call.before \ {Nothing}
  BY <1>2 DEF ScheduleInv, CallSound
<1>5. CASE call.open /\ MayRun(q.task)
  <2>1. call' = [call EXCEPT !.result = q, !.ended = TRUE]
    BY <1>1, <1>5 DEF Popped
  <2>2. /\ call' \in SchedulerCall /\ call'.result = q /\ call'.ended /\ call'.open
        /\ call'.before = call.before /\ call'.skipped = call.skipped
    BY <1>2, <1>3, <1>5, <2>1 DEF SchedulerCall
  <2>3. q \notin call.skipped
    BY <1>2, <1>5 DEF ScheduleInv, CallSound
  <2>4. queue' \cup call'.skipped = call'.before \ {q}
    BY <1>1, <1>2, <1>3, <1>4, <2>2, <2>3, SchedulerAssumption DEF SchedulerCall, Queued
  <2>5. \A r \in queue' \cup {q} : ~Outranks(r.task, q.task)
    BY <1>1, <1>3
  <2>6. CallSound'
    <3>1. call'.open => \A r \in call'.skipped : ~MayRun(r.task)
      <4>1. call.open => \A r \in call.skipped : ~MayRun(r.task)
        BY <1>2 DEF ScheduleInv, CallSound
      <4> QED
        BY <1>5, <2>2, <4>1
    <3>2. call'.result # Nothing /\ MayRun(call'.result.task)
      BY <1>3, <1>5, <2>2
    <3>3. \A r \in queue' \cup {call'.result} : ~Outranks(r.task, call'.result.task)
      BY <2>2, <2>5
    <3> QED
      BY <2>2, <2>4, <3>1, <3>2, <3>3 DEF CallSound, MayRun, Outranks, QualityScore
  <2> QED
    BY <1>1, <1>2, <2>6 DEF ScheduleInv
<1>6. CASE ~(call.open /\ MayRun(q.task))
  <2>1. PICK over \in BOOLEAN :
           /\ call' = [call EXCEPT !.skipped = @ \cup {q}, !.ended = over]
           /\ over => ~call.open
    <3>1. CASE ~call.open
      BY <1>1, <3>1 DEF Popped
    <3>2. CASE call.open
      <4>1. call' = [call EXCEPT !.skipped = @ \cup {q}]
        BY <1>1, <1>6, <3>2 DEF Popped
      <4>2. [call EXCEPT !.skipped = @ \cup {q}]
              = [call EXCEPT !.skipped = @ \cup {q}, !.ended = FALSE]
        BY <1>2 DEF SchedulerCall
      <4> QED
        BY <4>1, <4>2
    <3> QED
      BY <3>1, <3>2
  <2>2. /\ call' \in SchedulerCall /\ call'.result = Nothing /\ call'.ended = over
        /\ call'.before = call.before /\ call'.skipped = call.skipped \cup {q}
        /\ call'.open = call.open
    BY <1>2, <1>3, <2>1 DEF SchedulerCall
  <2>3. queue' \cup call'.skipped = call'.before \ {Nothing}
    BY <1>1, <1>3, <1>4, <2>2
  <2>4. call'.open => \A r \in call'.skipped : ~MayRun(r.task)
    BY <1>2, <1>6, <2>2 DEF ScheduleInv, CallSound
  <2>5. CallSound'
    BY <2>1, <2>2, <2>3, <2>4 DEF CallSound, MayRun, QualityScore
  <2> QED
    BY <1>1, <1>2, <2>5 DEF ScheduleInv
<1> QED
  BY <1>5, <1>6

\* Putting back what was set aside ends the call, or begins the next one.
LEMMA PutBackKeeps == ASSUME ScheduleInv, PutBack PROVE ScheduleInv'
<1>1. call \in SchedulerCall /\ queue' = queue \cup call.skipped /\ served' = served
  BY DEF PutBack, ScheduleInv, CallSound, clockVars
<1>2. queue' \subseteq Queued
  BY <1>1 DEF SchedulerCall, ScheduleInv
<1>3. CallSound'
  <2>1. CASE call' = Nothing
    BY <2>1 DEF CallSound
  <2>2. CASE call' = [Begun(TRUE) EXCEPT !.before = queue']
    BY <1>2, <2>2, CallBegins
  <2> QED
    BY <2>1, <2>2 DEF PutBack
<1> QED
  BY <1>1, <1>2, <1>3 DEF ScheduleInv

\* Every step.
LEMMA ScheduleKeeps ==
    ASSUME ScheduleInv, [SchedulerNext]_<<clockVars, scheduleVars>>
    PROVE  ScheduleInv'
<1>1. ASSUME NEW t \in ScheduleTasks, Enqueue(t) \/ RemoveTask(t.id)
      PROVE  ScheduleInv'
  <2>1. served' \in Nat /\ call' = Nothing
    BY <1>1 DEF Enqueue, RemoveTask, Request, ScheduleInv
  <2>2. queue' \subseteq Queued
    BY <1>1 DEF Enqueue, RemoveTask, ScheduleInv, Queued
  <2> QED
    BY <2>1, <2>2 DEF ScheduleInv, CallSound
<1>2. ASSUME NEW all \in BOOLEAN, ScheduleStarts(all) PROVE ScheduleInv'
  <2>1. served' \in Nat /\ queue' = queue /\ call' = Begun(all)
    BY <1>2 DEF ScheduleStarts, Request, ScheduleInv
  <2>2. queue' \subseteq Queued
    BY <2>1 DEF ScheduleInv
  <2> QED
    BY <2>1, <2>2, CallBegins DEF ScheduleInv
<1>3. CASE (Passes /\ UNCHANGED scheduleVars) \/ UNCHANGED <<clockVars, scheduleVars>>
  <2>1. UNCHANGED <<served, queue, call>>
    BY <1>3 DEF Passes, scheduleVars, clockVars
  <2> QED
    BY <2>1 DEF ScheduleInv, CallSound, MayRun, Outranks, QualityScore
<1> QED
  BY <1>1, <1>2, <1>3, PopKeeps, PutBackKeeps DEF SchedulerNext

\* schedule_next loses no task and takes one that may run and that none that may run
\* outranks, and comes back with nothing only when there is none or the window is
\* closed, for any tasks, window and threshold and whatever the order in which the heap
\* yields equals.
THEOREM SchedulesRight == SchedulerSpec => []NextTaskRight
<1>1. ClockInit /\ SchedulerInit => ScheduleInv
  BY DEF ClockInit, SchedulerInit, ScheduleInv, CallSound
<1>2. ScheduleInv => NextTaskRight
  <2> SUFFICES ASSUME ScheduleInv, call # Nothing, call.ended \/ queue = {}
               PROVE  /\ queue \cup call.skipped = call.before \ {call.result}
                      /\ IF call.result = Nothing
                         THEN call.open => \A q \in call.before : ~MayRun(q.task)
                         ELSE /\ call.open /\ MayRun(call.result.task)
                              /\ \A q \in call.before :
                                    MayRun(q.task) => ~Outranks(q.task, call.result.task)
    BY DEF NextTaskRight
  <2>1. queue \cup call.skipped = call.before \ {call.result} /\ call \in SchedulerCall
    BY DEF ScheduleInv, CallSound
  <2>2. CASE call.result = Nothing
    <3>1. call.open => queue = {}
      BY <2>2 DEF ScheduleInv, CallSound
    <3>2. Nothing \notin call.before
      BY <2>1, SchedulerAssumption DEF SchedulerCall, Queued
    <3> QED
      BY <2>1, <2>2, <3>1, <3>2 DEF ScheduleInv, CallSound
  <2>3. CASE call.result # Nothing
    BY <2>1, <2>3 DEF ScheduleInv, CallSound
  <2> QED
    BY <2>1, <2>2, <2>3
<1> QED
  BY <1>1, <1>2, ScheduleKeeps, PTL DEF SchedulerSpec

-----------------------------------------------------------------------------
(* Selecting from sequences *)

\* A finite set of positions, and the ranks of its members.
LEMMA RankOnto ==
    ASSUME NEW n \in Nat, NEW I, I \subseteq 1..n
    PROVE  /\ IsFiniteSet(I) /\ Cardinality(I) \in Nat
           /\ \A i \in I : Rank(I, i) \in 1..Cardinality(I)
           /\ \A i, j \in I : i < j => Rank(I, i) < Rank(I, j)
           /\ \A i, j \in I : Rank(I, i) = Rank(I, j) => i = j
           /\ \A k \in 1..Cardinality(I) : Nth(I, k) \in I /\ Rank(I, Nth(I, k)) = k
           /\ \A i \in I : Nth(I, Rank(I, i)) = i
<1>1. IsFiniteSet(I) /\ Cardinality(I) \in Nat
  <2>1. IsFiniteSet(1..n)
    BY FS_Interval
  <2> QED
    BY <2>1, FS_Subset, FS_CardinalityType
<1> DEFINE upTo(i) == {j \in I : j <= i}
<1>2. \A i : IsFiniteSet(upTo(i)) /\ Cardinality(upTo(i)) \in Nat
              /\ Cardinality(upTo(i)) <= Cardinality(I)
  BY <1>1, FS_Subset, FS_CardinalityType
<1>3. ASSUME NEW i \in I PROVE Rank(I, i) \in 1..Cardinality(I)
  <2>1. i \in upTo(i)
    OBVIOUS
  <2>2. Cardinality(upTo(i)) # 0
    BY <1>2, <2>1, FS_EmptySet
  <2> QED
    BY <1>1, <1>2, <2>2 DEF Rank
<1>4. ASSUME NEW i \in I, NEW j \in I, i < j PROVE Rank(I, i) < Rank(I, j)
  <2>1. upTo(i) \in SUBSET upTo(j) /\ j \in upTo(j) /\ j \notin upTo(i)
    <3>1. \A x \in I : x \in Int
      OBVIOUS
    <3>2. \A x \in I : x <= i => x <= j
      BY <1>4, <3>1
    <3>3. ~(j <= i) /\ j <= j
      BY <1>4, <3>1
    <3> QED
      BY <3>2, <3>3
  <2>2. /\ IsFiniteSet(upTo(j)) /\ Cardinality(upTo(i)) \in Nat
        /\ Cardinality(upTo(j)) \in Nat
    BY <1>2
  <2> HIDE DEF upTo
  <2>3. /\ Cardinality(upTo(i)) <= Cardinality(upTo(j))
        /\ Cardinality(upTo(i)) # Cardinality(upTo(j))
    BY <2>1, <2>2, FS_Subset
  <2>4. Cardinality(upTo(i)) < Cardinality(upTo(j))
    BY <2>2, <2>3
  <2> USE DEF upTo
  <2> QED
    BY <2>4 DEF Rank
<1>5. \A i, j \in I : Rank(I, i) = Rank(I, j) => i = j
  BY <1>3, <1>4
<1>6. ASSUME NEW k \in 1..Cardinality(I) PROVE \E i \in I : Rank(I, i) = k
  <2> DEFINE f == [i \in I |-> Rank(I, i)]
  <2>1. f \in Injection(I, 1..Cardinality(I))
    BY <1>3, <1>5 DEF Injection, IsInjective
  <2>2. IsFiniteSet(1..Cardinality(I)) /\ Cardinality(1..Cardinality(I)) = Cardinality(I)
    BY <1>1, FS_Interval
  <2>3. f \in Surjection(I, 1..Cardinality(I))
    BY <2>1, <2>2, FS_Injection
  <2> QED
    BY <2>3 DEF Surjection
<1>7. ASSUME NEW k \in 1..Cardinality(I)
      PROVE  Nth(I, k) \in I /\ Rank(I, Nth(I, k)) = k
  BY <1>6 DEF Nth
<1>8. ASSUME NEW i \in I PROVE Nth(I, Rank(I, i)) = i
  BY <1>3, <1>5, <1>7
<1> QED
  BY <1>1, <1>3, <1>4, <1>5, <1>7, <1>8

\* What is picked from a sequence.
LEMMA PickedElements ==
    ASSUME NEW S, NEW s \in Seq(S), NEW I, I \subseteq DOMAIN s
    PROVE  /\ Picked(s, I) \in Seq(S)
           /\ Len(Picked(s, I)) = Cardinality(I) /\ Cardinality(I) \in Nat
           /\ \A k \in 1..Cardinality(I) : Nth(I, k) \in I /\ Picked(s, I)[k] = s[Nth(I, k)]
           /\ \A i \in I : Rank(I, i) \in 1..Cardinality(I) /\ Picked(s, I)[Rank(I, i)] = s[i]
<1>1. DOMAIN s = 1..Len(s) /\ Len(s) \in Nat /\ \A i \in 1..Len(s) : s[i] \in S
  OBVIOUS
<1>2. /\ Cardinality(I) \in Nat
      /\ \A k \in 1..Cardinality(I) : Nth(I, k) \in I
      /\ \A i \in I : Rank(I, i) \in 1..Cardinality(I) /\ Nth(I, Rank(I, i)) = i
  BY <1>1, RankOnto
<1>3. Picked(s, I) \in [1..Cardinality(I) -> S]
  BY <1>1, <1>2 DEF Picked
<1>4. Picked(s, I) \in Seq(S) /\ Len(Picked(s, I)) = Cardinality(I)
  BY <1>2, <1>3
<1>5. \A k \in 1..Cardinality(I) : Picked(s, I)[k] = s[Nth(I, k)]
  BY DEF Picked
<1> QED
  BY <1>2, <1>4, <1>5

-----------------------------------------------------------------------------
(* Compliance *)

RulesInv ==
    /\ clock \in Nat
    /\ ruleList \in Seq(RuleSet)
    /\ records \subseteq [path : DataPaths, created : Nat]

\* Whatever rules are added and dropped and whatever is stored and swept.
LEMMA RulesKeep ==
    ASSUME RulesInv, [ComplianceNext]_<<clockVars, complianceVars>>
    PROVE  RulesInv'
<1>1. clock' \in Nat
  <2>1. clock' = clock \/ clock' = clock + 1
    BY DEF ComplianceNext, AddRule, DropRule, CheckCompliance, NewManager, StoreRecord,
       Sweep, Request, Passes, clockVars
  <2> QED
    BY <2>1 DEF RulesInv
<1>2. ruleList' \in Seq(RuleSet)
  <2>1. ASSUME NEW rule \in RuleSet, AddRule(rule) PROVE ruleList' \in Seq(RuleSet)
    BY <2>1 DEF AddRule, RulesInv
  <2>2. ASSUME NEW rule \in RuleSet, DropRule(rule.id) PROVE ruleList' \in Seq(RuleSet)
    <3> DEFINE left == {i \in DOMAIN ruleList : ruleList[i].id # rule.id}
    <3>1. ruleList' = Picked(ruleList, left) /\ left \subseteq DOMAIN ruleList
      BY <2>2 DEF DropRule
    <3> HIDE DEF left
    <3> QED
      BY <3>1, PickedElements DEF RulesInv
  <2>3. CASE UNCHANGED ruleList
    BY <2>3 DEF RulesInv
  <2> QED
    BY <2>1, <2>2, <2>3 DEF ComplianceNext, CheckCompliance, NewManager, StoreRecord, Sweep,
       complianceVars
<1>3. records' \subseteq [path : DataPaths, created : Nat]
  <2>1. ASSUME NEW path \in DataPaths, StoreRecord(path)
        PROVE  records' \subseteq [path : DataPaths, created : Nat]
    BY <2>1 DEF StoreRecord, RulesInv
  <2>2. CASE records' \subseteq records
    BY <2>2 DEF RulesInv
  <2> QED
    BY <2>1, <2>2 DEF ComplianceNext, AddRule, DropRule, CheckCompliance, NewManager, Sweep,
       complianceVars
<1> QED
  BY <1>1, <1>2, <1>3 DEF RulesInv

\* When the checker passes a policy for a path, a record of that path that is as old as
\* the policy keeps it is retained only by rules the checker holds no policy to, for any
\* rules of any kind in any order, any paths and any number of days: not by a rule of
\* years, nor by a date that it reports as passed.
THEOREM RetentionAgrees == ComplianceSpec => []CompliantDeletions
<1>1. ClockInit /\ ComplianceInit => RulesInv
  BY DEF ClockInit, ComplianceInit, RulesInv
<1>2. RulesInv => CompliantDeletions
  <2> SUFFICES ASSUME RulesInv, NEW r \in records, NEW days \in Retentions,
                      NEW region \in r.path.regions, Compliant(r.path, region, days),
                      clock - r.created >= days, NEW i \in Applicable(ruleList, r.path),
                      ~TooHigh(ruleList[i], r.path), Retains(ruleList[i], r)
               PROVE  \/ ruleList[i].retention.kind \in {"all", "custom"}
                      \/ /\ ruleList[i].retention.kind = "until"
                         /\ "info" \notin RuleFindings(ruleList[i], r.path, region, days)
    BY DEF CompliantDeletions
  <2> DEFINE kind == ruleList[i].retention.kind
             years == ruleList[i].retention.years
  <2>1. ruleList[i] \in RuleSet /\ i \in ApplyingRules(r.path)
    BY DEF RulesInv, Applicable, ApplyingRules
  <2>2. kind \in {"all", "years", "until", "unparsed", "custom"}
    BY <2>1, ComplianceAssumption
  <2>3. kind # "years"
    <3> SUFFICES ASSUME kind = "years" PROVE ~Retains(ruleList[i], r)
      OBVIOUS
    <3>1. RulePassed(ruleList[i], r.path, region, days)
      BY <2>1 DEF Compliant, FailedRules
    <3>2. days >= years * DaysPerYear
      BY <3>1 DEF RulePassed, RuleFindings, RetentionMet
    <3>3. /\ years * DaysPerYear \in Nat /\ days \in Nat /\ r.created \in Nat /\ clock \in Nat
      BY <2>1, ComplianceAssumption DEF RulesInv
    <3>4. ~(clock < r.created + years * DaysPerYear)
      <4> HIDE DEF years
      <4> DEFINE span == years * DaysPerYear
      <4>1. span \in Nat /\ days >= span
        BY <3>2, <3>3
      <4> HIDE DEF span
      <4>2. ~(clock < r.created + span)
        BY <3>3, <4>1
      <4> QED
        BY <4>2 DEF span
    <3> QED
      BY <3>4 DEF Retains
  <2>4. kind # "unparsed"
    BY DEF Retains
  <2>5. CASE kind = "until"
    <3>1. clock <= ruleList[i].retention.date
      BY <2>5 DEF Retains
    <3>2. ~(clock > ruleList[i].retention.date)
      BY <2>1, <2>5, <3>1, ComplianceAssumption DEF RulesInv
    <3>3. "info" \notin RuleFindings(ruleList[i], r.path, region, days)
      BY <3>2 DEF RuleFindings
    <3> QED
      BY <2>5, <3>3
  <2> QED
    BY <2>2, <2>3, <2>4, <2>5
<1> QED
  BY <1>1, <1>2, RulesKeep, PTL DEF ComplianceSpec

\* Any non-empty set of natural numbers has a least member.
LEMMA LeastNatural ==
    ASSUME NEW T, T \subseteq Nat, T # {}
    PROVE  \E n \in T : \A m \in T : n <= m
<1> DEFINE R == OpToRel(<,Nat)
<1>1. IsWellFoundedOn(R, Nat)
  BY NatLessThanWellFounded, Zenon
<1>2. R = {ss \in Nat \X Nat : ss[1] < ss[2]}
  BY Zenon DEF OpToRel
<1>3. \A x, y \in Nat : y < x => <<y, x>> \in R
  BY <1>2
<1> HIDE DEF R
<1>4. \E x \in T : \A y \in T : ~ (<<y, x>> \in R)
  BY <1>1, WFMin, Zenon
<1>5. PICK n \in T : \A m \in T : ~ (<<m, n>> \in R)
  BY <1>4, Zenon
<1>6. \A m \in T : ~ (m < n)
  BY <1>3, <1>5, Zenon
<1> QED
  BY <1>6

-----------------------------------------------------------------------------
(* Classifier *)

\* The least element is the one CHOOSE finds.
LEMMA LeastIs ==
    ASSUME NEW D, D \subseteq Nat, NEW i \in D, \A j \in D : i <= j
    PROVE  (CHOOSE x \in D : \A j \in D : x <= j) = i
<1>1. ASSUME NEW x \in D, \A j \in D : x <= j PROVE x = i
  <2>1. x <= i /\ i <= x /\ x \in Nat /\ i \in Nat
    BY <1>1
  <2> QED
    BY <2>1
<1> QED
  BY <1>1

\* Classification with and without the rules that cannot decide.
LEMMA BrokenPassedOver ==
    ASSUME NEW list \in Seq(CustomRules), NEW path, NEW I,
           I = {i \in DOMAIN list : list[i].enabled /\ list[i].valid}
    PROVE  Classify(list, path) = Classify(Picked(list, I), path)
<1> DEFINE effective == Picked(list, I)
           D == Deciding(list, path)
           E == Deciding(effective, path)
<1>1. DOMAIN list = 1..Len(list) /\ Len(list) \in Nat /\ I \subseteq DOMAIN list
  OBVIOUS
<1>2. D \subseteq I /\ D \subseteq Nat
  BY <1>1 DEF Deciding, Decides
<1>3. /\ effective \in Seq(CustomRules) /\ Cardinality(I) \in Nat /\ Len(effective) = Cardinality(I)
      /\ \A k \in 1..Cardinality(I) : Nth(I, k) \in I /\ effective[k] = list[Nth(I, k)]
      /\ \A i \in I : Rank(I, i) \in 1..Cardinality(I) /\ effective[Rank(I, i)] = list[i]
  BY <1>1, PickedElements
<1>4. /\ \A i, j \in I : i < j => Rank(I, i) < Rank(I, j)
      /\ \A k \in 1..Cardinality(I) : Rank(I, Nth(I, k)) = k
  BY <1>1, RankOnto
<1>5. DOMAIN effective = 1..Cardinality(I)
  BY <1>3
<1> HIDE DEF effective
<1>6. E \subseteq 1..Cardinality(I) /\ \A k \in E : Nth(I, k) \in D
  BY <1>1, <1>3, <1>5 DEF Deciding, Decides
<1>7. \A i \in D : Rank(I, i) \in E /\ effective[Rank(I, i)] = list[i]
  <2>1. ASSUME NEW i \in D PROVE Rank(I, i) \in E /\ effective[Rank(I, i)] = list[i]
    <3>1. /\ i \in I /\ Decides(list[i], path)
          /\ Rank(I, i) \in 1..Cardinality(I) /\ effective[Rank(I, i)] = list[i]
      BY <1>2, <1>3 DEF Deciding
    <3> QED
      BY <1>5, <3>1 DEF Deciding
  <2> QED
    BY <2>1
<1>8. CASE D = {}
  <2>1. E = {}
    BY <1>6, <1>8
  <2> QED
    BY <1>8, <2>1 DEF Classify, effective
<1>9. CASE D # {}
  <2>1. PICK i \in D : \A j \in D : i <= j
    BY <1>2, <1>9, LeastNatural
  <2> DEFINE k == Rank(I, i)
  <2>2. k \in E /\ effective[k] = list[i]
    BY <1>7
  <2>3. ASSUME NEW l \in E PROVE k <= l
    <3>1. Nth(I, l) \in D /\ i <= Nth(I, l) /\ i \in I /\ Nth(I, l) \in I
          /\ Rank(I, Nth(I, l)) = l /\ i \in Nat /\ Nth(I, l) \in Nat
      BY <1>2, <1>4, <1>6, <2>1
    <3>2. CASE i = Nth(I, l)
      <4>1. k = l
        BY <3>1, <3>2
      <4> QED
        BY <1>3, <3>1, <4>1
    <3>3. CASE i < Nth(I, l)
      <4>1. k < l
        BY <1>4, <3>1, <3>3
      <4> QED
        BY <1>3, <1>6, <3>1, <4>1
    <3> QED
      BY <3>1, <3>2, <3>3
  <2>4. (CHOOSE x \in D : \A j \in D : x <= j) = i
    BY <1>2, <2>1, LeastIs
  <2>5. E \subseteq Nat
    <3>1. 1..Cardinality(I) \subseteq Nat
      OBVIOUS
    <3> QED
      BY <1>6, <3>1
  <2>6. (CHOOSE x \in E : \A j \in E : x <= j) = k
    <3> HIDE DEF E, k
    <3> QED
      BY <2>2, <2>3, <2>5, LeastIs
  <2>7. E # {}
    BY <2>2
  <2> DEFINE Found(r) == [category |-> r.category, priority |-> r.priority,
                          mode |-> BackupMode(r.category), rule |-> r.name]
  <2>8. Classify(list, path) = Found(list[CHOOSE x \in D : \A j \in D : x <= j])
    BY <1>9 DEF Classify
  <2>9. Classify(effective, path) = Found(effective[CHOOSE x \in E : \A j \in E : x <= j])
    BY <2>7 DEF Classify
  <2>10. Classify(list, path) = Found(list[i]) /\ Classify(effective, path) = Found(effective[k])
    <3> HIDE DEF Found, D, E, k
    <3> QED
      BY <2>4, <2>6, <2>8, <2>9
  <2> QED
    BY <2>2, <2>10 DEF effective
<1> QED
  BY <1>8, <1>9

\* A rule that is switched off or does not compile costs nothing but itself: every path
\* is classified as if it had never been added, for any rules in any order.
THEOREM BrokenRulesPassedOver == ClassifierSpec => []BrokenRulesHarmless
<1> DEFINE Inv == customRules \in Seq(CustomRules)
<1>1. ClockInit /\ ClassifierInit => Inv
  BY DEF ClassifierInit
<1>2. Inv /\ [ClassifierNext]_<<clockVars, classifierVars>> => Inv'
  <2> SUFFICES ASSUME Inv, [ClassifierNext]_<<clockVars, classifierVars>> PROVE Inv'
    OBVIOUS
  <2>1. ASSUME NEW rule \in CustomRules, AddCustomRule(rule) PROVE Inv'
    BY <2>1 DEF AddCustomRule
  <2>2. ASSUME NEW rule \in CustomRules, RemoveCustomRule(rule.name) PROVE Inv'
    <3> DEFINE left == {i \in DOMAIN customRules : customRules[i].name # rule.name}
    <3>1. customRules' = Picked(customRules, left) /\ left \subseteq DOMAIN customRules
      BY <2>2 DEF RemoveCustomRule
    <3> HIDE DEF left
    <3> QED
      BY <3>1, PickedElements
  <2>3. CASE UNCHANGED customRules
    BY <2>3
  <2> QED
    BY <2>1, <2>2, <2>3 DEF ClassifierNext, ClassifyPath, classifierVars
<1>3. Inv => BrokenRulesHarmless
  <2> SUFFICES ASSUME Inv, NEW path \in FilePaths
               PROVE  Classify(customRules, path)
                        = Classify(Picked(customRules, {i \in DOMAIN customRules :
                               customRules[i].enabled /\ customRules[i].valid}), path)
    BY DEF BrokenRulesHarmless
  <2> QED
    BY BrokenPassedOver
<1> QED
  BY <1>1, <1>2, <1>3, PTL DEF ClassifierSpec

-----------------------------------------------------------------------------
(* FileSearch *)

\* The score of a match is a number, whatever the entry says.
LEMMA RelevanceType == ASSUME NEW e, NEW keyword PROVE Relevance(e, keyword) \in Nat
BY DEF Relevance, Score

\* The lesser of two numbers.
LEMMA MinOfTwo ==
    ASSUME NEW a \in Nat, NEW b \in Nat
    PROVE  Min({a, b}) = IF a < b THEN a ELSE b
<1> DEFINE m == IF a < b THEN a ELSE b
<1>1. m \in {a, b} /\ \A y \in {a, b} : m <= y
  OBVIOUS
<1>2. ASSUME NEW x \in {a, b}, \A y \in {a, b} : x <= y PROVE x = m
  BY <1>2
<1> HIDE DEF m
<1>3. (CHOOSE x \in {a, b} : \A y \in {a, b} : x <= y) = m
  BY <1>1, <1>2
<1> QED
  BY <1>3 DEF Min, m

\* What a search over any index returns.
LEMMA RankedBest ==
    ASSUME NEW idx, NEW keyword, NEW limit \in Nat, NEW s \in Ranked(idx, keyword, limit)
    PROVE  LET found == Matching(idx, keyword)
               paths == {s[i] : i \in DOMAIN s}
           IN  /\ paths \subseteq found
               /\ Len(s) = Min({limit, Cardinality(found)})
               /\ \A p \in found \ paths, q \in paths :
                     Relevance(idx[q], keyword) >= Relevance(idx[p], keyword)
<1> DEFINE found == Matching(idx, keyword)
           paths == {s[i] : i \in DOMAIN s}
           n == Cardinality(found)
           k == IF limit < n THEN limit ELSE n
           R(p) == Relevance(idx[p], keyword)
<1>1. IsFiniteSet(found) /\ n \in Nat
  <2>1. found \in SUBSET IndexPaths
    BY DEF Matching
  <2> QED
    BY <2>1, SearchAssumption, FS_Subset, FS_CardinalityType
<1>2. \A p : R(p) \in Nat
  BY RelevanceType
<1>3. PICK o \in [1..n -> found] :
         /\ \A i, j \in 1..n : i # j => o[i] # o[j]
         /\ \A i, j \in 1..n : i < j => R(o[i]) >= R(o[j])
         /\ s = [i \in 1..k |-> o[i]]
  BY DEF Ranked
<1> HIDE DEF R, found
<1>4. k \in Nat /\ k <= n /\ 1..k \subseteq 1..n
  BY <1>1
<1>5. \A p \in found : \E i \in 1..n : o[i] = p
  <2>1. o \in Injection(1..n, found)
    BY <1>3 DEF Injection, IsInjective
  <2>2. Cardinality(1..n) = n
    BY <1>1, FS_Interval
  <2>3. o \in Surjection(1..n, found)
    <3> HIDE DEF n
    <3>1. Cardinality(1..n) = Cardinality(found)
      BY <2>2 DEF n
    <3> QED
      BY <1>1, <2>1, <3>1, FS_Injection
  <2> QED
    BY <2>3 DEF Surjection
<1> HIDE DEF n, k
<1>6. DOMAIN s = 1..k /\ \A i \in 1..k : s[i] = o[i]
  BY <1>3
<1>7. Len(s) = k
  <2>1. s \in [1..k -> found]
    BY <1>3, <1>4
  <2> QED
    BY <1>4, <2>1
<1>8. paths \subseteq found
  BY <1>3, <1>4, <1>6
<1>9. ASSUME NEW p \in found \ paths, NEW q \in paths
      PROVE  R(q) >= R(p)
  <2>1. PICK i \in 1..k : q = o[i]
    BY <1>6
  <2>2. PICK j \in 1..n : p = o[j]
    BY <1>5
  <2>3. j \notin 1..k
    BY <1>6, <2>2
  <2>4. i \in 1..n /\ i < j
    BY <1>1, <1>4, <2>3
  <2> QED
    BY <1>3, <2>1, <2>2, <2>4
<1>10. k = Min({limit, Cardinality(found)})
  BY <1>1, MinOfTwo DEF k, n
<1> QED
  BY <1>7, <1>8, <1>9, <1>10 DEF found, R

\* What a search leaves behind.
Answer(idx, keyword, limit, s) ==
    [keyword |-> keyword, from |-> idx, paths |-> s, limit |-> limit]

\* A search returns the best matches, and as many of them as there are room and matches
\* for, for any index, keyword and limit and however the sort orders equals.
THEOREM SearchesFindBest == SearchSpec => []BestMatches
<1> DEFINE Inv == results # Nothing =>
                      \E idx, keyword : \E limit \in Nat : \E s \in Ranked(idx, keyword, limit) :
                          results = Answer(idx, keyword, limit, s)
<1>1. ClockInit /\ SearchInit => Inv
  BY DEF SearchInit
<1>2. Inv /\ [SearchNext]_<<clockVars, searchVars>> => Inv'
  <2> SUFFICES ASSUME Inv, [SearchNext]_<<clockVars, searchVars>> PROVE Inv'
    OBVIOUS
  <2>1. ASSUME NEW keyword \in Keywords, SearchKeyword(keyword) \/ SemanticSearch(keyword)
        PROVE  Inv'
    <3>1. Cardinality(IndexPaths) \in Nat /\ ResultLimit \in Nat
      BY SearchAssumption, FS_CardinalityType
    <3> QED
      BY <2>1, <3>1 DEF SearchKeyword, SemanticSearch, Answer
  <2>2. CASE UNCHANGED results
    BY <2>2
  <2> QED
    BY <2>1, <2>2 DEF SearchNext, Upsert, RemoveEntry, NewSearch, searchVars
<1>3. Inv => BestMatches
  <2> SUFFICES ASSUME Inv, results # Nothing
               PROVE  LET found == Matching(results.from, results.keyword)
                      IN  /\ ResultPaths \subseteq found
                          /\ Len(results.paths) = Min({results.limit, Cardinality(found)})
                          /\ \A p \in found \ ResultPaths, q \in ResultPaths :
                                Relevance(results.from[q], results.keyword)
                                    >= Relevance(results.from[p], results.keyword)
    BY DEF BestMatches
  <2>1. PICK idx, keyword : \E limit \in Nat : \E s \in Ranked(idx, keyword, limit) :
                                  results = Answer(idx, keyword, limit, s)
    OBVIOUS
  <2>2. PICK limit \in Nat : \E s \in Ranked(idx, keyword, limit) :
                                 results = Answer(idx, keyword, limit, s)
    BY <2>1
  <2>3. PICK s \in Ranked(idx, keyword, limit) : results = Answer(idx, keyword, limit, s)
    BY <2>2
  <2>4. /\ results.from = idx /\ results.keyword = keyword /\ results.limit = limit
        /\ results.paths = s
    BY <2>3 DEF Answer
  <2> QED
    BY <2>4, RankedBest DEF ResultPaths
<1> QED
  BY <1>1, <1>2, <1>3, PTL DEF SearchSpec

-----------------------------------------------------------------------------
(* Notifications *)

\* Induction, with the claim as a set of numbers.
LEMMA NaturalInduction ==
    ASSUME NEW T, 0 \in T, \A n \in Nat : n \in T => n + 1 \in T
    PROVE  Nat \subseteq T
<1> SUFFICES ASSUME NEW m \in Nat, m \notin T PROVE FALSE
  OBVIOUS
<1>1. PICK n \in Nat \ T : \A k \in Nat \ T : n <= k
  <2>1. Nat \ T \subseteq Nat /\ Nat \ T # {}
    OBVIOUS
  <2> QED
    BY <2>1, LeastNatural
<1>2. n # 0 /\ n - 1 \in Nat /\ n - 1 < n /\ (n - 1) + 1 = n
  BY <1>1
<1>3. n - 1 \in T
  BY <1>1, <1>2
<1> QED
  BY <1>1, <1>2, <1>3

\* No entry of a history falls into the window of a later one of its key.
Spaced(h) ==
    \A i, j \in DOMAIN h :
        i < j /\ h[i].key = h[j].key => h[j].at - h[i].at >= h[j].window

\* While rules are applied: nothing of the key is younger than the time last sent.
AccSound(acc, key) ==
    /\ acc.history \in Seq(Notification) /\ acc.lastSent \in Nat \cup {Nothing}
    /\ \A i \in DOMAIN acc.history :
          /\ acc.history[i].at <= clock
          /\ IF acc.history[i].key = key
             THEN acc.lastSent # Nothing /\ acc.history[i].at <= acc.lastSent
             ELSE LET last == dedup[acc.history[i].key]
                  IN  last # Nothing /\ acc.history[i].at <= last
    /\ Spaced(acc.history)

\* Between calls.
DedupInv ==
    /\ clock \in Nat /\ rules \in Seq(Rules) /\ history \in Seq(Notification)
    /\ dedup \in [Keys -> Nat \cup {Nothing}]
    /\ \A i \in DOMAIN history :
          LET last == dedup[history[i].key]
          IN  /\ history[i].at <= clock
              /\ last # Nothing /\ history[i].at <= last
    /\ DedupAcrossRules

\* One rule.
LEMMA AfterRuleKeeps ==
    ASSUME clock \in Nat, NEW key \in Keys, NEW severity, NEW rule \in Rules, NEW acc,
           AccSound(acc, key)
    PROVE  AccSound(AfterRule(rule, key, severity, acc), key)
<1>1. CASE ~Matches(rule, key, severity) \/ WithinWindow(rule, acc.lastSent)
  BY <1>1 DEF AfterRule
<1>2. CASE ~(~Matches(rule, key, severity) \/ WithinWindow(rule, acc.lastSent))
  <2> DEFINE e == [key |-> key, at |-> clock, window |-> rule.window, read |-> FALSE]
             h == acc.history
             next == Record(acc, rule, key)
  <2>1. /\ AfterRule(rule, key, severity, acc) = next
        /\ next.history = Append(h, e) /\ next.lastSent = clock
    BY <1>2 DEF AfterRule, Record
  <2>2. rule.window \in Nat /\ e \in Notification
    BY NotificationAssumption DEF Notification
  <2>3. /\ e.key = key /\ e.at = clock /\ e.window = rule.window
    OBVIOUS
  <2> HIDE DEF e, next
  <2>4. h \in Seq(Notification) /\ acc.lastSent \in Nat \cup {Nothing} /\ Nothing \notin Nat
    BY NotificationAssumption DEF AccSound
  <2>5. /\ Append(h, e) \in Seq(Notification) /\ Len(h) \in Nat
        /\ DOMAIN h = 1..Len(h) /\ DOMAIN Append(h, e) = 1..(Len(h) + 1)
        /\ \A i \in 1..Len(h) : Append(h, e)[i] = h[i]
        /\ Append(h, e)[Len(h) + 1] = e
    BY <2>2, <2>4
  <2>6. \A i \in 1..Len(h) : h[i] \in Notification
    BY <2>4
  <2>7. \A i \in 1..Len(h) : h[i].at \in Nat
    BY <2>6 DEF Notification
  <2>8. ASSUME NEW i \in DOMAIN Append(h, e)
        PROVE  /\ Append(h, e)[i].at <= clock
               /\ IF Append(h, e)[i].key = key
                  THEN clock # Nothing /\ Append(h, e)[i].at <= clock
                  ELSE LET last == dedup[Append(h, e)[i].key]
                       IN  last # Nothing /\ Append(h, e)[i].at <= last
    <3>1. CASE i = Len(h) + 1
      BY <2>3, <2>4, <2>5, <3>1
    <3>2. CASE i \in 1..Len(h)
      BY <2>4, <2>5, <3>2 DEF AccSound
    <3> QED
      BY <2>5, <3>1, <3>2
  <2>9. ASSUME NEW i \in DOMAIN Append(h, e), NEW j \in DOMAIN Append(h, e), i < j,
               Append(h, e)[i].key = Append(h, e)[j].key
        PROVE  Append(h, e)[j].at - Append(h, e)[i].at >= Append(h, e)[j].window
    <3>1. i \in 1..Len(h)
      BY <2>5, <2>9
    <3>2. CASE j \in 1..Len(h)
      BY <2>5, <2>9, <3>1, <3>2 DEF AccSound, Spaced
    <3>3. CASE j = Len(h) + 1
      <4>1. h[i].key = key /\ Append(h, e)[i] = h[i] /\ Append(h, e)[j] = e
        BY <2>3, <2>5, <2>9, <3>1, <3>3
      <4>2. /\ h[i].at <= clock /\ acc.lastSent # Nothing /\ h[i].at <= acc.lastSent
            /\ h[i].at \in Nat /\ acc.lastSent \in Nat
        BY <2>4, <2>5, <2>7, <3>1, <4>1 DEF AccSound
      <4>3. rule.window = 0 \/ clock - acc.lastSent >= rule.window
        BY <1>2, <2>2, <4>2 DEF WithinWindow
      <4> QED
        BY <2>2, <2>3, <4>1, <4>2, <4>3
    <3> QED
      BY <2>5, <3>2, <3>3
  <2> QED
    BY <2>1, <2>5, <2>8, <2>9 DEF AccSound, Spaced
<1> QED
  BY <1>1, <1>2

\* All rules.
LEMMA DeliverKeeps ==
    ASSUME DedupInv, NEW key \in Keys, NEW severity
    PROVE  AccSound(Deliver(key, severity), key)
<1> DEFINE start == [history |-> history, lastSent |-> dedup[key], channels |-> {}]
           Next1(acc, n) == AfterRule(rules[n], key, severity, acc)
           Chain(g, n) == /\ g = [i \in 0..n |-> g[i]] /\ g[0] = start
                          /\ \A i \in 1..n : g[i] = Next1(g[i - 1], i)
           T == {n \in Nat : \E g : Chain(g, n)}
           N == Len(rules)
<1>1. N \in Nat /\ \A n \in 1..N : rules[n] \in Rules
  BY DEF DedupInv
<1>2. AccSound(start, key)
  <2>1. start.history = history /\ start.lastSent = dedup[key]
    OBVIOUS
  <2> HIDE DEF start
  <2> QED
    BY <2>1 DEF AccSound, DedupInv, DedupAcrossRules, Spaced
<1> HIDE DEF start, Next1
<1>3. Nat \subseteq T
  <2>1. 0 \in T
    <3> DEFINE g == [i \in 0..0 |-> start]
    <3>1. Chain(g, 0)
      OBVIOUS
    <3> QED
      BY <3>1
  <2>2. ASSUME NEW n \in Nat, n \in T PROVE n + 1 \in T
    <3>1. PICK g : Chain(g, n)
      BY <2>2
    <3> DEFINE f == [i \in 0..(n + 1) |-> IF i <= n THEN g[i] ELSE Next1(g[n], n + 1)]
    <3>2. f = [i \in 0..(n + 1) |-> f[i]] /\ f[0] = start
      BY <3>1
    <3>3. \A i \in 1..(n + 1) : f[i] = Next1(f[i - 1], i)
      <4> SUFFICES ASSUME NEW i \in 1..(n + 1) PROVE f[i] = Next1(f[i - 1], i)
        OBVIOUS
      <4>1. CASE i <= n
        <5>1. f[i] = g[i] /\ f[i - 1] = g[i - 1] /\ i \in 1..n
          BY <4>1
        <5> QED
          BY <3>1, <5>1
      <4>2. CASE i = n + 1
        <5>1. f[i] = Next1(g[n], n + 1) /\ f[i - 1] = g[n] /\ i = n + 1
          BY <4>2
        <5> QED
          BY <5>1
      <4> QED
        BY <4>1, <4>2
    <3> HIDE DEF f
    <3>4. Chain(f, n + 1)
      BY <3>2, <3>3
    <3> HIDE DEF Chain
    <3> QED
      BY <3>4
  <2> HIDE DEF T
  <2> QED
    BY <2>1, <2>2, NaturalInduction
<1>4. PICK g : Chain(g, N)
  <2> HIDE DEF Chain
  <2> QED
    BY <1>1, <1>3
<1> DEFINE Body(f) == [n \in 0..N |-> IF n = 0 THEN start ELSE Next1(f[n - 1], n)]
           upTo == CHOOSE f : f = Body(f)
<1>5. g = Body(g)
  <2>1. ASSUME NEW n \in 0..N
        PROVE  g[n] = IF n = 0 THEN start ELSE Next1(g[n - 1], n)
    <3>1. n = 0 \/ (n # 0 /\ n \in 1..N)
      BY <1>1
    <3> QED
      BY <1>4, <3>1
  <2> QED
    BY <1>4, <2>1
<1>6. upTo = Body(upTo)
  BY <1>5
<1> HIDE DEF upTo
<1>7. upTo[0] = start /\ \A n \in 1..N : upTo[n] = Next1(upTo[n - 1], n)
  <2>1. \A n \in 0..N : upTo[n] = IF n = 0 THEN start ELSE Next1(upTo[n - 1], n)
    BY <1>6
  <2> QED
    BY <1>1, <2>1
<1> DEFINE S == {n \in Nat : n <= N => AccSound(upTo[n], key)}
<1>8. 0 \in S
  BY <1>2, <1>7
<1>9. ASSUME NEW n \in Nat, n \in S PROVE n + 1 \in S
  <2> SUFFICES ASSUME n + 1 <= N PROVE AccSound(upTo[n + 1], key)
    OBVIOUS
  <2>1. AccSound(upTo[n], key) /\ n + 1 \in 1..N /\ (n + 1) - 1 = n
    BY <1>1, <1>9
  <2>2. rules[n + 1] \in Rules /\ upTo[n + 1] = Next1(upTo[n], n + 1)
    BY <1>1, <1>7, <2>1
  <2>3. AccSound(AfterRule(rules[n + 1], key, severity, upTo[n]), key)
    BY <2>1, <2>2, AfterRuleKeeps DEF DedupInv
  <2> QED
    BY <2>2, <2>3 DEF Next1
<1>10. AccSound(upTo[N], key)
  <2>1. Nat \subseteq S
    <3> HIDE DEF S
    <3> QED
      BY <1>8, <1>9, NaturalInduction
  <2> QED
    BY <1>1, <2>1
<1>11. Deliver(key, severity) = upTo[N]
  BY DEF Deliver, upTo, start, Next1
<1> QED
  BY <1>10, <1>11

\* A history of which only the read marks changed.
LEMMA MarksKeep ==
    ASSUME DedupInv, UNCHANGED <<clock, rules, dedup>>, history' \in Seq(Notification),
           DOMAIN history' = DOMAIN history,
           \A i \in DOMAIN history :
               /\ history'[i].key = history[i].key /\ history'[i].at = history[i].at
               /\ history'[i].window = history[i].window
    PROVE  DedupInv'
BY DEF DedupInv, DedupAcrossRules

\* A history that is as spaced as the rules left it.
LEMMA SendKeeps ==
    ASSUME DedupInv, NEW key \in Keys, NEW severity, Send(key, severity)
    PROVE  DedupInv'
<1>1. PICK acc : /\ acc = Deliver(key, severity)
                 /\ history' = acc.history /\ dedup' = [dedup EXCEPT ![key] = acc.lastSent]
  BY DEF Send
<1>2. AccSound(acc, key)
  BY <1>1, DeliverKeeps
<1>3. UNCHANGED <<clock, rules>>
  BY DEF Send, Request
<1>4. dedup' \in [Keys -> Nat \cup {Nothing}] /\ dedup'[key] = acc.lastSent
      /\ \A k \in Keys : k # key => dedup'[k] = dedup[k]
  BY <1>1, <1>2 DEF DedupInv, AccSound
<1>5. history' \in Seq(Notification)
  BY <1>1, <1>2 DEF AccSound
<1>6. ASSUME NEW i \in DOMAIN history' PROVE history'[i].key \in Keys
  <2>1. history'[i] \in Notification
    BY <1>5
  <2> QED
    BY <2>1 DEF Notification
<1>7. ASSUME NEW i \in DOMAIN history'
      PROVE  LET last == dedup'[history'[i].key]
             IN  history'[i].at <= clock /\ last # Nothing /\ history'[i].at <= last
  BY <1>1, <1>2, <1>4, <1>6 DEF AccSound
<1>8. DedupAcrossRules'
  BY <1>1, <1>2 DEF AccSound, Spaced, DedupAcrossRules
<1> QED
  BY <1>3, <1>4, <1>5, <1>7, <1>8 DEF DedupInv

\* Deduplication counts what any rule sent: no rule with a window records a notification
\* while another of the same key, whichever rule recorded it, is younger than the
\* window, for any rules that are set, changed and removed at any time.
THEOREM NoneWithinWindow == NotifySpec => []DedupAcrossRules
<1>1. ClockInit /\ NotifyInit => DedupInv
  BY NotificationAssumption DEF ClockInit, NotifyInit, DedupInv, DedupAcrossRules
<1>2. DedupInv /\ [NotifyNext]_<<clockVars, notifyVars>> => DedupInv'
  <2> SUFFICES ASSUME DedupInv, [NotifyNext]_<<clockVars, notifyVars>> PROVE DedupInv'
    OBVIOUS
  <2>1. ASSUME NEW rule \in Rules, SetRule(rule) \/ RemoveRule(rule.id) PROVE DedupInv'
    <3>1. UNCHANGED <<clock, history, dedup>>
      BY <2>1 DEF SetRule, RemoveRule, Request
    <3>2. CASE SetRule(rule)
      <4>1. rules' \in Seq(Rules)
        <5>1. CASE \E i \in DOMAIN rules : rules[i].id = rule.id
          <6> DEFINE at == CHOOSE i \in DOMAIN rules :
                               /\ rules[i].id = rule.id
                               /\ \A j \in 1..(i - 1) : rules[j].id # rule.id
          <6>1. rules' = [rules EXCEPT ![at] = rule]
            BY <3>2, <5>1 DEF SetRule
          <6> HIDE DEF at
          <6>2. rules \in [1..Len(rules) -> Rules] /\ Len(rules) \in Nat
            BY DEF DedupInv
          <6>3. rules' \in [1..Len(rules) -> Rules]
            BY <6>1, <6>2
          <6> QED
            BY <6>2, <6>3
        <5>2. CASE ~\E i \in DOMAIN rules : rules[i].id = rule.id
          BY <3>2, <5>2 DEF SetRule, DedupInv
        <5> QED
          BY <5>1, <5>2
      <4> QED
        BY <3>1, <4>1 DEF DedupInv, DedupAcrossRules
    <3>3. CASE RemoveRule(rule.id)
      <4> DEFINE left == {i \in DOMAIN rules : rules[i].id # rule.id}
      <4>1. rules' = Picked(rules, left) /\ left \subseteq DOMAIN rules
        BY <3>3 DEF RemoveRule
      <4>2. rules' \in Seq(Rules)
        <5> HIDE DEF left
        <5> QED
          BY <4>1, PickedElements DEF DedupInv
      <4> QED
        BY <3>1, <4>2 DEF DedupInv, DedupAcrossRules
    <3> QED
      BY <2>1, <3>2, <3>3
  <2>2. ASSUME NEW key \in Keys, NEW severity \in Severities, Send(key, severity)
        PROVE  DedupInv'
    BY <2>2, SendKeeps
  <2>3. ASSUME NEW i \in DOMAIN history, MarkRead(i) PROVE DedupInv'
    <3>1. \A j \in DOMAIN history : history[j] \in Notification
      BY DEF DedupInv
    <3>2. /\ UNCHANGED <<clock, rules, dedup>>
          /\ history' = [history EXCEPT ![i].read = TRUE]
      BY <2>3 DEF MarkRead, Request
    <3>3. [history[i] EXCEPT !.read = TRUE] \in Notification
      BY <3>1 DEF Notification
    <3>4. history' \in Seq(Notification) /\ DOMAIN history' = DOMAIN history
      BY <3>2, <3>3 DEF DedupInv
    <3> QED
      BY <3>1, <3>2, <3>4, MarksKeep DEF Notification
  <2>4. CASE MarkAllRead
    <3>1. \A j \in DOMAIN history : history[j] \in Notification
      BY DEF DedupInv
    <3>2. /\ UNCHANGED <<clock, rules, dedup>>
          /\ history' = [i \in DOMAIN history |-> [history[i] EXCEPT !.read = TRUE]]
      BY <2>4 DEF MarkAllRead, Request
    <3>3. \A i \in DOMAIN history : [history[i] EXCEPT !.read = TRUE] \in Notification
      BY <3>1 DEF Notification
    <3>4. history' \in Seq(Notification) /\ DOMAIN history' = DOMAIN history
      BY <3>2, <3>3 DEF DedupInv
    <3> QED
      BY <3>1, <3>2, <3>4, MarksKeep DEF Notification
  <2>5. CASE ClearHistory
    BY <2>5 DEF ClearHistory, Request, DedupInv, DedupAcrossRules
  <2>6. CASE Passes /\ UNCHANGED notifyVars
    <3>1. clock' = clock + 1 /\ UNCHANGED <<rules, history, dedup>>
      BY <2>6 DEF Passes, notifyVars
    <3>2. ASSUME NEW i \in DOMAIN history PROVE history[i].at \in Nat
      <4>1. history[i] \in Notification
        BY DEF DedupInv
      <4> QED
        BY <4>1 DEF Notification
    <3>3. \A i \in DOMAIN history : history[i].at <= clock'
      BY <3>1, <3>2 DEF DedupInv
    <3> QED
      BY <3>1, <3>3 DEF DedupInv, DedupAcrossRules
  <2>7. CASE UNCHANGED <<clockVars, notifyVars>>
    BY <2>7 DEF clockVars, notifyVars, DedupInv, DedupAcrossRules
  <2> QED
    BY <2>1, <2>2, <2>3, <2>4, <2>5, <2>6, <2>7 DEF NotifyNext
<1>3. DedupInv => DedupAcrossRules
  BY DEF DedupInv
<1> QED
  BY <1>1, <1>2, <1>3, PTL DEF NotifySpec

-----------------------------------------------------------------------------
(* Pages of the audit log *)

\* How many of the entries at the indices I a page-wise reader meets before i.
NewerThan(I, i) == Cardinality({j \in I : j > i})

\* What a reader has not seen of the entries it began with is still ahead of it: each
\* matches, and no fewer newer ones do than the pages it has read hold.
Ahead(rd) ==
    /\ rd = [q |-> rd.q, page |-> rd.page, seen |-> rd.seen, matched |-> rd.matched]
    /\ rd.page \in Nat
    /\ \A x \in rd.matched : x \in Nat /\ x < next_seq
    /\ \A i \in DOMAIN entries : entries[i].seq \in rd.matched =>
           /\ i \in MatchesOf(rd.q)
           /\ entries[i].seq \in rd.seen \/ NewerThan(MatchesOf(rd.q), i) >= rd.page * PerPage

PagesInv ==
    /\ reading = [r \in Readers |-> reading[r]]
    /\ \A r \in Readers : \A rd : reading[r] = rd /\ rd # AnyBody => Ahead(rd)
    /\ PagesMissNothing

\* Ranks count from the oldest, pages from the newest.
LEMMA RanksFromTheNewest ==
    ASSUME NEW n \in Nat, NEW I, I \subseteq 1..n, NEW i \in I
    PROVE  /\ NewerThan(I, i) \in Nat /\ Cardinality(I) \in Nat
           /\ Rank(I, i) = Cardinality(I) - NewerThan(I, i)
           /\ NewerThan(I, i) < Cardinality(I)
<1>1. /\ IsFiniteSet(I) /\ Cardinality(I) \in Nat
      /\ Rank(I, i) \in 1..Cardinality(I)
  BY RankOnto
<1> DEFINE above == {j \in I : j > i}
<1>2. IsFiniteSet(above) /\ Cardinality(above) \in Nat
  BY <1>1, FS_Subset, FS_CardinalityType
<1>3. I \ above = {j \in I : j <= i} /\ I \cap above = above
  <2>1. i \in Int /\ \A j \in I : j \in Int
    OBVIOUS
  <2>2. ASSUME NEW j PROVE j \in I \ above <=> j \in {m \in I : m <= i}
    <3>1. j \in I => (j <= i <=> ~(j > i))
      BY <2>1
    <3> QED
      BY <3>1
  <2>3. I \cap above = above
    OBVIOUS
  <2> QED
    BY <2>2, <2>3
<1>4. Cardinality(I \ above) = Cardinality(I) - Cardinality(I \cap above)
  BY <1>1, FS_Difference
<1>5. Cardinality({j \in I : j <= i}) = Cardinality(I) - Cardinality(above)
  BY <1>3, <1>4
<1> HIDE DEF above
<1>6. Rank(I, i) = Cardinality(I) - Cardinality(above) /\ NewerThan(I, i) = Cardinality(above)
  BY <1>5 DEF Rank, NewerThan, above
<1> QED
  BY <1>1, <1>2, <1>6

\* An entry is on the page that its number of newer entries tells.
LEMMA PageHolds ==
    ASSUME TypeOK, NEW q, NEW page \in Nat, NEW i \in MatchesOf(q),
           page * PerPage <= NewerThan(MatchesOf(q), i),
           NewerThan(MatchesOf(q), i) < (page + 1) * PerPage
    PROVE  entries[i].seq \in SeqsOf(PageOf(q, page))
<1> DEFINE I == MatchesOf(q)
           picked == Picked(entries, I)
           filtered == Filtered(q)
           c == Cardinality(I)
           k == NewerThan(I, i)
           from == page * PerPage
           end == (page + 1) * PerPage
           to == IF end < Len(filtered) THEN end ELSE Len(filtered)
           items == PageOf(q, page)
<1>1. entries \in Seq(Entry) /\ I \subseteq DOMAIN entries /\ I \subseteq 1..Len(entries)
      /\ Len(entries) \in Nat
  BY DEF TypeOK, MatchesOf
<1>2. from \in Nat /\ end \in Nat
  BY QueryAssumption
<1> HIDE DEF I, from, end
<1>3. /\ picked \in Seq(Entry) /\ Len(picked) = c /\ c \in Nat
      /\ Rank(I, i) \in 1..c /\ picked[Rank(I, i)] = entries[i]
  BY <1>1, PickedElements DEF I
<1>4. k \in Nat /\ Rank(I, i) = c - k /\ k < c
  BY <1>1, RanksFromTheNewest DEF I
<1> HIDE DEF picked, c, k
<1>5. filtered = [j \in 1..c |-> picked[c - j + 1]]
  BY <1>3 DEF filtered, Filtered, Reverse, picked, I
<1>6. /\ filtered \in Seq(Entry) /\ Len(filtered) = c
      /\ filtered[k + 1] = entries[i]
  <2>1. \A j \in 1..c : c - j + 1 \in 1..c
    BY <1>3
  <2>2. \A j \in 1..c : picked[j] \in Entry
    BY <1>3
  <2>3. filtered \in [1..c -> Entry]
    BY <1>5, <2>1, <2>2
  <2>4. k + 1 \in 1..c /\ c - (k + 1) + 1 = Rank(I, i)
    BY <1>3, <1>4
  <2> QED
    BY <1>3, <1>5, <2>3, <2>4
<1> HIDE DEF filtered
<1>7. /\ from + 1 <= k + 1 /\ k + 1 <= to /\ to <= c /\ to \in Nat
  BY <1>2, <1>3, <1>4, <1>6 DEF from, end, k, I
<1>8. items = SubSeq(filtered, from + 1, to)
  BY DEF PageOf, from, end, filtered
<1> HIDE DEF to
<1>9. /\ k + 1 - from \in DOMAIN items /\ items[k + 1 - from] = entries[i]
  BY <1>2, <1>3, <1>4, <1>6, <1>7, <1>8
<1> HIDE DEF items
<1> QED
  BY <1>9 DEF SeqsOf, items

\* A page without an entry is beyond the last one.
LEMMA PageEmpty ==
    ASSUME TypeOK, NEW q, NEW page \in Nat, NEW i \in MatchesOf(q),
           page * PerPage <= NewerThan(MatchesOf(q), i)
    PROVE  SeqsOf(PageOf(q, page)) # {}
<1> DEFINE I == MatchesOf(q)
           from == page * PerPage
           at == Cardinality(I) - from
           e == Nth(I, at)
<1>1. I \subseteq DOMAIN entries /\ I \subseteq 1..Len(entries) /\ Len(entries) \in Nat
  BY DEF TypeOK, MatchesOf
<1>2. from \in Nat /\ (page + 1) * PerPage = from + PerPage /\ PerPage > 0
  BY QueryAssumption
<1> HIDE DEF I, from
<1>3. NewerThan(I, i) \in Nat /\ NewerThan(I, i) < Cardinality(I) /\ Cardinality(I) \in Nat
  BY <1>1, RanksFromTheNewest DEF I
<1>4. at \in 1..Cardinality(I)
  BY <1>2, <1>3 DEF I, from
<1> HIDE DEF at
<1>5. e \in I /\ Rank(I, e) = at
  BY <1>1, <1>4, RankOnto
<1> HIDE DEF e
<1>6. NewerThan(I, e) = from
  BY <1>1, <1>2, <1>4, <1>5, RanksFromTheNewest DEF at
<1>7. entries[e].seq \in SeqsOf(PageOf(q, page))
  BY <1>2, <1>5, <1>6, QueryAssumption, PageHolds DEF I, from
<1> QED
  BY <1>7

\* A call to the log leaves what a reader has not seen ahead of it: append puts entries
\* before it, and takes away the oldest.
LEMMA LogKeepsAhead ==
    ASSUME ~Alterable, TypeOK, NumberedInv, [Next]_vars, NEW rd, Ahead(rd)
    PROVE  Ahead(rd)'
<1>1. CASE Tick \/ UNCHANGED vars
  BY <1>1 DEF Tick, vars, Ahead, MatchesOf, MatchesQuery
<1>2. ASSUME NEW b \in Bodies, append(b) PROVE Ahead(rd)'
  <2>1. PICK n \in 0..Len(entries) :
            /\ Len(entries') = Len(entries) + 1 - n
            /\ \A i \in 1..Len(entries') :
                   entries'[i] = IF n + i <= Len(entries) THEN entries[n + i] ELSE NewEntry(b)
    BY <1>2, Appended
  <2>2. /\ next_seq' = next_seq + 1 /\ next_seq \in Nat /\ NewEntry(b).seq = next_seq
    BY <1>2 DEF append, NewEntry, EntryAfter, TypeOK
  <2>3. /\ Len(entries) \in Nat /\ DOMAIN entries = 1..Len(entries)
        /\ DOMAIN entries' = 1..Len(entries') /\ Len(entries') \in Nat
    BY <1>2, AppendType DEF TypeOK
  <2> DEFINE I == MatchesOf(rd.q)
             J == {i \in DOMAIN entries' : MatchesQuery(rd.q, entries'[i])}
  <2>4. I \subseteq 1..Len(entries) /\ J \subseteq 1..Len(entries')
    BY <2>3 DEF MatchesOf
  <2>5. ASSUME NEW i \in 1..Len(entries'), entries'[i].seq \in rd.matched
        PROVE  /\ i \in J
               /\ entries'[i].seq \in rd.seen \/ NewerThan(J, i) >= rd.page * PerPage
    <3>1. n + i <= Len(entries)
      BY <2>1, <2>2, <2>3, <2>5 DEF Ahead
    <3>2. n + i \in DOMAIN entries /\ entries'[i] = entries[n + i]
      BY <2>1, <2>3, <3>1
    <3>3. /\ n + i \in I
          /\ entries'[i].seq \in rd.seen \/ NewerThan(I, n + i) >= rd.page * PerPage
      BY <2>5, <3>2 DEF Ahead
    <3>4. i \in J
      BY <2>3, <3>2, <3>3 DEF MatchesOf
    <3>5. NewerThan(I, n + i) <= NewerThan(J, i) /\ NewerThan(I, n + i) \in Nat /\ NewerThan(J, i) \in Nat
      <4> DEFINE older == {j \in I : j > n + i}
                 now == {j \in J : j > i}
                 f == [j \in older |-> j - n]
      <4>1. IsFiniteSet(now) /\ IsFiniteSet(older)
            /\ Cardinality(now) \in Nat /\ Cardinality(older) \in Nat
        <5>1. IsFiniteSet(I) /\ IsFiniteSet(J)
          BY <2>3, <2>4, RankOnto
        <5> QED
          BY <5>1, FS_Subset, FS_CardinalityType
      <4>2. ASSUME NEW j \in older PROVE j - n \in now
        <5>1. j \in 1..Len(entries) /\ j > n + i
          BY <2>4
        <5>2. j - n \in 1..Len(entries') /\ j - n > i /\ n + (j - n) = j
          BY <2>1, <2>3, <5>1
        <5>3. entries'[j - n] = entries[j]
          BY <2>1, <5>1, <5>2
        <5> QED
          BY <2>3, <5>2, <5>3 DEF MatchesOf
      <4>3. f \in Injection(older, now)
        <5>1. f \in [older -> now]
          BY <4>2
        <5>2. \A j, k \in older : f[j] = f[k] => j = k
          <6>1. \A j \in older : j \in Int
            BY <2>4
          <6> QED
            BY <6>1
        <5> HIDE DEF f, older, now
        <5> QED
          BY <5>1, <5>2 DEF Injection, IsInjective
      <4>4. Cardinality(older) <= Cardinality(now)
        <5> HIDE DEF f, older, now
        <5> QED
          BY <4>1, <4>3, FS_Injection
      <4> QED
        BY <4>1, <4>4 DEF NewerThan
    <3>6. rd.page * PerPage \in Nat
      BY QueryAssumption DEF Ahead
    <3> QED
      BY <3>3, <3>4, <3>5, <3>6
  <2>6. \A x \in rd.matched : x \in Nat /\ x < next_seq'
    BY <2>2 DEF Ahead
  <2>7. MatchesOf(rd.q)' = J
    BY DEF MatchesOf, MatchesQuery
  <2> HIDE DEF J
  <2> QED
    BY <2>3, <2>5, <2>6, <2>7 DEF Ahead, NewerThan
<1>3. ~\E i \in DOMAIN entries, b \in Bodies, rehash \in BOOLEAN : Alter(i, b, rehash)
  BY DEF Alter
<1> QED
  BY <1>1, <1>2, <1>3 DEF Next

\* A query that begins has everything it is to show ahead of it.
LEMMA QueryBegins ==
    ASSUME TypeOK, NumberedInv, NEW q
    PROVE  Ahead([q |-> q, page |-> 0, seen |-> {}, matched |-> SeqsOf(Filtered(q))])
<1> DEFINE I == MatchesOf(q)
           rd == [q |-> q, page |-> 0, seen |-> {}, matched |-> SeqsOf(Filtered(q))]
           picked == Picked(entries, I)
           c == Cardinality(I)
<1>1. /\ I \subseteq DOMAIN entries /\ entries \in Seq(Entry)
      /\ DOMAIN entries = 1..Len(entries) /\ Len(entries) \in Nat
      /\ \A i \in DOMAIN entries : entries[i].seq \in Nat
  <2>1. \A i \in DOMAIN entries : entries[i] \in Entry
    BY DEF TypeOK
  <2> QED
    BY <2>1 DEF TypeOK, MatchesOf, Entry
<1> HIDE DEF I
<1>2. c \in Nat /\ Len(picked) = c /\ picked \in Seq(Entry)
      /\ \A k \in 1..c : Nth(I, k) \in I /\ picked[k] = entries[Nth(I, k)]
  BY <1>1, PickedElements
<1> HIDE DEF picked, c
<1>3. Filtered(q) = [j \in 1..c |-> picked[c - j + 1]]
  BY <1>2 DEF Filtered, Reverse, picked, I
<1>4. ASSUME NEW x \in rd.matched PROVE \E i \in I : x = entries[i].seq
  <2>1. PICK j \in 1..c : x = picked[c - j + 1].seq
    BY <1>2, <1>3, <1>4 DEF SeqsOf
  <2>2. c - j + 1 \in 1..c
    BY <1>2
  <2> QED
    BY <1>2, <2>1, <2>2
<1>5. \A x \in rd.matched : x \in Nat /\ x < next_seq
  BY <1>1, <1>4 DEF NumberedInv
<1>6. ASSUME NEW i \in DOMAIN entries, entries[i].seq \in rd.matched
      PROVE  i \in I /\ NewerThan(I, i) >= 0 * PerPage
  <2>1. PICK j \in I : entries[i].seq = entries[j].seq
    BY <1>4, <1>6
  <2>2. i = j
    BY <1>1, <2>1 DEF NumberedInv, Ascending
  <2>3. NewerThan(I, i) \in Nat
    BY <1>1, <2>2, RanksFromTheNewest
  <2> QED
    BY <2>2, <2>3, QueryAssumption
<1> QED
  BY <1>5, <1>6 DEF Ahead, I

\* A reader that goes on to the next page has passed no entry it did not see.
LEMMA PagePassed ==
    ASSUME TypeOK, NEW rd, Ahead(rd), NEW next,
           next = [q |-> rd.q, page |-> rd.page + 1,
                   seen |-> rd.seen \cup SeqsOf(PageOf(rd.q, rd.page)),
                   matched |-> rd.matched]
    PROVE  Ahead(next)
<1> DEFINE I == MatchesOf(rd.q)
<1>1. rd.page \in Nat /\ I \subseteq 1..Len(entries) /\ Len(entries) \in Nat
  BY DEF Ahead, TypeOK, MatchesOf
<1>2. rd.page * PerPage \in Nat /\ (rd.page + 1) * PerPage \in Nat
  BY <1>1, QueryAssumption
<1>3. ASSUME NEW i \in DOMAIN entries, entries[i].seq \in rd.matched,
             entries[i].seq \notin next.seen
      PROVE  NewerThan(I, i) >= (rd.page + 1) * PerPage
  <2>1. i \in I /\ NewerThan(I, i) >= rd.page * PerPage
    BY <1>3 DEF Ahead
  <2>2. NewerThan(I, i) \in Nat
    BY <1>1, <2>1, RanksFromTheNewest
  <2>3. ~(NewerThan(I, i) < (rd.page + 1) * PerPage)
    BY <1>1, <1>2, <1>3, <2>1, <2>2, PageHolds
  <2> QED
    BY <1>2, <2>2, <2>3
<1> HIDE DEF I
<1> QED
  BY <1>1, <1>3 DEF Ahead, I

\* A reader that met an empty page has seen it all.
LEMMA LastPagePassed ==
    ASSUME TypeOK, NEW rd, Ahead(rd), SeqsOf(PageOf(rd.q, rd.page)) = {}
    PROVE  rd.matched \cap SeqsOf(entries) \subseteq rd.seen
<1> SUFFICES ASSUME NEW i \in DOMAIN entries, entries[i].seq \in rd.matched,
                    entries[i].seq \notin rd.seen
             PROVE  FALSE
  BY DEF SeqsOf
<1>1. /\ i \in MatchesOf(rd.q) /\ rd.page \in Nat
      /\ NewerThan(MatchesOf(rd.q), i) >= rd.page * PerPage
  BY DEF Ahead
<1>2. NewerThan(MatchesOf(rd.q), i) \in Nat /\ rd.page * PerPage \in Nat
  <2>1. MatchesOf(rd.q) \subseteq 1..Len(entries) /\ Len(entries) \in Nat
    BY DEF MatchesOf, TypeOK
  <2>2. NewerThan(MatchesOf(rd.q), i) \in Nat
    BY <1>1, <2>1, RanksFromTheNewest
  <2>3. rd.page * PerPage \in Nat
    BY <1>1, QueryAssumption
  <2> QED
    BY <2>2, <2>3
<1> QED
  BY <1>1, <1>2, PageEmpty

\* Steps of the readers and of the log.
LEMMA PagesKeep ==
    ASSUME ~Alterable, TypeOK, NumberedInv, PagesInv, [QueryNext]_<<vars, queryVars>>
    PROVE  PagesInv'
<1>1. ASSUME NEW q \in Filters, ExportMatching(q) PROVE PagesInv'
  <2>1. UNCHANGED <<vars, reading>> /\ report'.active = report'.seen
    BY <1>1 DEF ExportMatching
  <2>2. PagesMissNothing'
    BY <2>1 DEF PagesMissNothing
  <2> QED
    BY <2>1, <2>2 DEF PagesInv, Ahead, MatchesOf, MatchesQuery, vars
<1>2. ASSUME NEW q \in Filters, NEW r \in Readers, BeginQuery(r, q) PROVE PagesInv'
  <2> DEFINE began == [q |-> q, page |-> 0, seen |-> {}, matched |-> SeqsOf(Filtered(q))]
  <2>1. reading' = [reading EXCEPT ![r] = began] /\ UNCHANGED <<vars, report>>
    BY <1>2 DEF BeginQuery
  <2>2. Ahead(began)
    BY QueryBegins
  <2> HIDE DEF began
  <2>3. ASSUME NEW s \in Readers, NEW rd, reading'[s] = rd, rd # AnyBody PROVE Ahead(rd)'
    <3>1. Ahead(rd)
      BY <2>1, <2>2, <2>3 DEF PagesInv
    <3> QED
      BY <2>1, <3>1 DEF Ahead, MatchesOf, MatchesQuery, vars
  <2> QED
    BY <2>1, <2>3 DEF PagesInv, PagesMissNothing
<1>3. ASSUME NEW r \in Readers, ReadPage(r) PROVE PagesInv'
  <2>1. PICK rd : rd = reading[r] /\ rd # AnyBody
    BY <1>3 DEF ReadPage
  <2>2. Ahead(rd)
    BY <2>1 DEF PagesInv
  <2>3. UNCHANGED vars
    BY <1>3 DEF ReadPage
  <2> DEFINE items == SeqsOf(PageOf(rd.q, rd.page))
  <2>4. CASE items = {}
    <3>1. /\ report' = [seen |-> rd.seen, active |-> rd.matched \cap SeqsOf(entries)]
          /\ reading' = [reading EXCEPT ![r] = AnyBody]
      BY <1>3, <2>1, <2>4 DEF ReadPage
    <3>2. PagesMissNothing'
      BY <2>2, <2>4, <3>1, LastPagePassed DEF PagesMissNothing
    <3>3. ASSUME NEW s \in Readers, NEW ot, reading'[s] = ot, ot # AnyBody PROVE Ahead(ot)'
      <4>1. Ahead(ot)
        BY <3>1, <3>3 DEF PagesInv
      <4> QED
        BY <2>3, <4>1 DEF Ahead, MatchesOf, MatchesQuery, vars
    <3> QED
      BY <3>1, <3>2, <3>3 DEF PagesInv
  <2>5. CASE items # {}
    <3> DEFINE next == [q |-> rd.q, page |-> rd.page + 1, seen |-> rd.seen \cup items,
                        matched |-> rd.matched]
    <3>1. /\ reading' = [reading EXCEPT ![r].page = @ + 1, ![r].seen = @ \cup items]
          /\ UNCHANGED report
      BY <1>3, <2>1, <2>5 DEF ReadPage
    <3>2. reading' = [reading EXCEPT ![r] = next]
      <4>1. rd = [q |-> rd.q, page |-> rd.page, seen |-> rd.seen, matched |-> rd.matched]
        BY <2>2 DEF Ahead
      <4>2. reading = [s \in Readers |-> reading[s]]
        BY DEF PagesInv
      <4> DEFINE p == rd.page
                 n == rd.page + 1
                 seen == rd.seen
                 all == rd.seen \cup items
                 once == [q |-> rd.q, page |-> n, seen |-> seen, matched |-> rd.matched]
      <4>3. /\ reading[r].page + 1 = n /\ reading[r].seen \cup items = all
            /\ reading[r] = [q |-> rd.q, page |-> p, seen |-> seen, matched |-> rd.matched]
        BY <2>1, <4>1
      <4>4. next = [q |-> rd.q, page |-> n, seen |-> all, matched |-> rd.matched]
        OBVIOUS
      <4> HIDE DEF items, p, n, seen, all, next
      <4>5. [reading[r] EXCEPT !.page = n] = once
        BY <4>3
      <4>6. [once EXCEPT !.seen = all] = next
        BY <4>4
      <4>7. [reading EXCEPT ![r] = once][r] = once
        BY <4>2
      <4> HIDE DEF once
      <4>8. reading' = [[reading EXCEPT ![r] = once] EXCEPT ![r] = next]
        BY <3>1, <4>3, <4>5, <4>6, <4>7
      <4> QED
        BY <4>2, <4>8
    <3>3. Ahead(next)
      BY <2>2, PagePassed
    <3> HIDE DEF next
    <3>4. ASSUME NEW s \in Readers, NEW ot, reading'[s] = ot, ot # AnyBody PROVE Ahead(ot)'
      <4>1. Ahead(ot)
        BY <3>2, <3>3, <3>4 DEF PagesInv
      <4> QED
        BY <2>3, <4>1 DEF Ahead, MatchesOf, MatchesQuery, vars
    <3>5. PagesMissNothing'
      BY <3>1 DEF PagesInv, PagesMissNothing
    <3>6. reading' = [s \in Readers |-> reading'[s]]
      BY <3>2 DEF PagesInv
    <3> QED
      BY <3>4, <3>5, <3>6 DEF PagesInv
  <2> QED
    BY <2>4, <2>5
<1>4. CASE Next /\ UNCHANGED queryVars
  <2>1. ASSUME NEW s \in Readers, NEW rd, reading'[s] = rd, rd # AnyBody PROVE Ahead(rd)'
    BY <1>4, <2>1, LogKeepsAhead DEF PagesInv, queryVars
  <2> QED
    BY <1>4, <2>1 DEF PagesInv, PagesMissNothing, queryVars
<1>5. CASE UNCHANGED <<vars, queryVars>>
  BY <1>5 DEF PagesInv, PagesMissNothing, Ahead, MatchesOf, MatchesQuery, vars, queryVars
<1> QED
  BY <1>1, <1>2, <1>3, <1>4, <1>5 DEF QueryNext

\* Whoever pages through the log of which nobody alters an entry meets every entry that
\* matched at the first page and is active at the last, for any number of readers, any
\* page size and any calls and rotations between two pages.
THEOREM PagingIsComplete == ASSUME ~Alterable PROVE QuerySpec => []PagesMissNothing
<1>1. QueryInit => PagesInv
  BY DEF QueryInit, PagesInv, PagesMissNothing
<1>2. QuerySpec => Spec
  <2>1. [QueryNext]_<<vars, queryVars>> => [Next]_vars
    BY DEF QueryNext, ExportMatching, BeginQuery, ReadPage
  <2> QED
    BY <2>1, PTL DEF QuerySpec, Spec
<1>3. TypeOK /\ LogInv /\ PagesInv /\ [QueryNext]_<<vars, queryVars>> => PagesInv'
  BY PagesKeep DEF LogInv
<1>4. PagesInv => PagesMissNothing
  BY DEF PagesInv
<1> QED
  BY <1>1, <1>2, <1>3, <1>4, TypeCorrect, NumbersAndHashes, PTL DEF QuerySpec

-----------------------------------------------------------------------------
(* The dashboard.  Sums over finite sets: FoldSet is a recursive function on  *)
(* the subsets of a set.                                                   *)

Total(m, S) == FoldSet(LAMBDA x, sum : sum + m[x].size, 0, S)

Sums(g, m, S) ==
    g = [T \in SUBSET S |->
            IF T = {} THEN 0
            ELSE LET x == CHOOSE x \in T : TRUE IN g[T \ {x}] + m[x].size]

\* Such a function exists: there is one that is right for the subsets of at most
\* n elements, for every n.
LEMMA SumsExist ==
    ASSUME NEW m, NEW S, IsFiniteSet(S), \A x \in S : m[x].size \in Nat
    PROVE  \E g \in [SUBSET S -> Nat] : Sums(g, m, S)
<1> DEFINE Right(g, T) ==
               g[T] = IF T = {} THEN 0
                      ELSE LET x == CHOOSE x \in T : TRUE IN g[T \ {x}] + m[x].size
           Upto(g, n) == \A T \in SUBSET S : Cardinality(T) <= n => Right(g, T)
           N == {n \in Nat : \E g \in [SUBSET S -> Nat] : Upto(g, n)}
<1>1. \A T \in SUBSET S : /\ IsFiniteSet(T) /\ Cardinality(T) \in Nat
                          /\ Cardinality(T) <= Cardinality(S)
  BY FS_Subset, FS_CardinalityType
<1>2. \A T \in SUBSET S : T # {} =>
          LET x == CHOOSE x \in T : TRUE
          IN  /\ x \in T /\ T \ {x} \in SUBSET S /\ m[x].size \in Nat
              /\ Cardinality(T \ {x}) = Cardinality(T) - 1
  BY <1>1, FS_RemoveElement
<1>3. \A T \in SUBSET S : Cardinality(T) = 0 <=> T = {}
  BY <1>1, FS_EmptySet
<1>4. 0 \in N
  <2> DEFINE g == [T \in SUBSET S |-> 0]
  <2>1. g \in [SUBSET S -> Nat] /\ Upto(g, 0)
    BY <1>1, <1>3
  <2> QED
    BY <2>1
<1>5. ASSUME NEW n \in Nat, n \in N PROVE n + 1 \in N
  <2>1. PICK g \in [SUBSET S -> Nat] : Upto(g, n)
    BY <1>5
  <2> DEFINE Next1(T) == IF T = {} THEN 0
                         ELSE LET x == CHOOSE x \in T : TRUE IN g[T \ {x}] + m[x].size
             h == [T \in SUBSET S |-> Next1(T)]
  <2>2. h \in [SUBSET S -> Nat]
    <3>1. \A T \in SUBSET S : Next1(T) \in Nat
      BY <1>2
    <3> QED
      BY <3>1
  <2>3. ASSUME NEW T \in SUBSET S, Cardinality(T) <= n PROVE h[T] = g[T]
    BY <2>1, <2>3
  <2>4. ASSUME NEW T \in SUBSET S, Cardinality(T) <= n + 1 PROVE Right(h, T)
    <3>1. CASE T = {}
      BY <3>1
    <3>2. CASE T # {}
      <4> DEFINE x == CHOOSE x \in T : TRUE
      <4>1. T \ {x} \in SUBSET S /\ Cardinality(T \ {x}) <= n
        BY <1>1, <1>2, <2>4, <3>2
      <4>2. h[T \ {x}] = g[T \ {x}]
        BY <2>3, <4>1
      <4>3. h[T] = g[T \ {x}] + m[x].size
        BY <3>2
      <4> QED
        BY <3>2, <4>2, <4>3
    <3> QED
      BY <3>1, <3>2
  <2> HIDE DEF h
  <2>5. Upto(h, n + 1)
    BY <2>4
  <2> HIDE DEF Upto
  <2> QED
    BY <2>2, <2>5
<1>6. Cardinality(S) \in N
  <2> HIDE DEF N
  <2> QED
    BY <1>1, <1>4, <1>5, NaturalInduction
<1>7. PICK g \in [SUBSET S -> Nat] : Upto(g, Cardinality(S))
  BY <1>6
<1>8. \A T \in SUBSET S : Right(g, T)
  BY <1>1, <1>7
<1>9. Sums(g, m, S)
  BY <1>8 DEF Sums
<1> QED
  BY <1>9

\* On the sets both know, two such functions agree.
LEMMA SumsAgree ==
    ASSUME NEW m, NEW n, NEW S, NEW R, NEW g, NEW h, Sums(g, m, S), Sums(h, n, R),
           NEW T, T \subseteq S, T \subseteq R, IsFiniteSet(T),
           \A x \in T : m[x].size = n[x].size
    PROVE  g[T] = h[T]
<1> DEFINE N == {k \in Nat : \A A \in SUBSET T : Cardinality(A) <= k => g[A] = h[A]}
<1>1. \A A \in SUBSET T : IsFiniteSet(A) /\ Cardinality(A) \in Nat
  BY FS_Subset, FS_CardinalityType
<1>2. \A A \in SUBSET T : A # {} =>
          LET x == CHOOSE x \in A : TRUE
          IN  /\ x \in A /\ A \ {x} \in SUBSET T
              /\ Cardinality(A \ {x}) = Cardinality(A) - 1
  BY <1>1, FS_RemoveElement
<1>3. ASSUME NEW A \in SUBSET T
      PROVE  /\ A = {} => g[A] = h[A]
             /\ A # {} => LET x == CHOOSE x \in A : TRUE
                          IN  g[A \ {x}] = h[A \ {x}] => g[A] = h[A]
  <2>1. A \in SUBSET S /\ A \in SUBSET R
    OBVIOUS
  <2>2. g[A] = IF A = {} THEN 0
               ELSE LET x == CHOOSE x \in A : TRUE IN g[A \ {x}] + m[x].size
    BY <2>1 DEF Sums
  <2>3. h[A] = IF A = {} THEN 0
               ELSE LET x == CHOOSE x \in A : TRUE IN h[A \ {x}] + n[x].size
    BY <2>1 DEF Sums
  <2>4. A # {} => (CHOOSE x \in A : TRUE) \in T
    BY <1>2
  <2>5. CASE A = {}
    BY <2>2, <2>3, <2>5
  <2>6. CASE A # {}
    <3> DEFINE x == CHOOSE x \in A : TRUE
    <3>1. m[x].size = n[x].size
      BY <2>4, <2>6
    <3>2. g[A] = g[A \ {x}] + m[x].size /\ h[A] = h[A \ {x}] + n[x].size
      BY <2>2, <2>3, <2>6
    <3> QED
      BY <2>6, <3>1, <3>2
  <2> QED
    BY <2>5, <2>6
<1>4. 0 \in N
  <2>1. \A A \in SUBSET T : Cardinality(A) <= 0 => A = {}
    BY <1>1, FS_EmptySet
  <2> QED
    BY <1>3, <2>1
<1>5. ASSUME NEW k \in Nat, k \in N PROVE k + 1 \in N
  <2> SUFFICES ASSUME NEW A \in SUBSET T, Cardinality(A) <= k + 1 PROVE g[A] = h[A]
    OBVIOUS
  <2>1. CASE A = {}
    BY <1>3, <2>1
  <2>2. CASE A # {}
    <3> DEFINE x == CHOOSE x \in A : TRUE
    <3>1. A \ {x} \in SUBSET T /\ Cardinality(A \ {x}) <= k
      BY <1>1, <1>2, <2>2
    <3>2. g[A \ {x}] = h[A \ {x}]
      BY <1>5, <3>1
    <3> QED
      BY <1>3, <2>2, <3>2
  <2> QED
    BY <2>1, <2>2
<1>6. Cardinality(T) \in N
  <2> HIDE DEF N
  <2> QED
    BY <1>1, <1>4, <1>5, NaturalInduction
<1> QED
  BY <1>1, <1>6

\* A sum is a number, and each element may be taken out first.
LEMMA TotalOfSet ==
    ASSUME NEW m, NEW S, IsFiniteSet(S), \A x \in S : m[x].size \in Nat
    PROVE  /\ Total(m, S) \in Nat
           /\ \E g \in [SUBSET S -> Nat] :
                 Sums(g, m, S) /\ \A T \in SUBSET S : g[T] = Total(m, T)
<1> DEFINE G(T) == CHOOSE g : Sums(g, m, T)
<1>1. ASSUME NEW T \in SUBSET S PROVE Sums(G(T), m, T) /\ Total(m, T) = G(T)[T]
  <2>1. IsFiniteSet(T)
    BY FS_Subset
  <2>2. \E g : Sums(g, m, T)
    BY <2>1, SumsExist
  <2>3. Sums(G(T), m, T)
    BY <2>2
  <2>4. Total(m, T) = G(T)[T]
    BY DEF Total, FoldSet, MapThenFoldSet, Sums
  <2> QED
    BY <2>3, <2>4
<1> HIDE DEF G
<1>2. PICK g \in [SUBSET S -> Nat] : Sums(g, m, S)
  BY SumsExist
<1>3. ASSUME NEW T \in SUBSET S PROVE g[T] = Total(m, T)
  <2>1. IsFiniteSet(T)
    BY FS_Subset
  <2>2. Sums(G(T), m, T) /\ Total(m, T) = G(T)[T]
    BY <1>1
  <2>3. g[T] = G(T)[T]
    BY <1>2, <2>1, <2>2, SumsAgree
  <2> QED
    BY <2>2, <2>3
<1> QED
  BY <1>2, <1>3

\* Of two functions that agree on a set the sums over it agree.
LEMMA TotalsAgree ==
    ASSUME NEW m, NEW n, NEW S, IsFiniteSet(S), \A x \in S : m[x].size \in Nat,
           \A x \in S : m[x].size = n[x].size
    PROVE  Total(m, S) = Total(n, S)
<1>1. PICK g \in [SUBSET S -> Nat] :
          Sums(g, m, S) /\ \A T \in SUBSET S : g[T] = Total(m, T)
  BY TotalOfSet
<1>2. \A x \in S : n[x].size \in Nat
  OBVIOUS
<1>3. PICK h \in [SUBSET S -> Nat] :
          Sums(h, n, S) /\ \A T \in SUBSET S : h[T] = Total(n, T)
  BY <1>2, TotalOfSet
<1>4. g[S] = h[S]
  BY <1>1, <1>3, SumsAgree
<1> QED
  BY <1>1, <1>3, <1>4

\* Whichever element is taken out first.
LEMMA TotalWithout ==
    ASSUME NEW m, NEW S, IsFiniteSet(S), \A x \in S : m[x].size \in Nat, NEW y \in S
    PROVE  Total(m, S) = Total(m, S \ {y}) + m[y].size
<1>1. PICK g \in [SUBSET S -> Nat] :
          Sums(g, m, S) /\ \A T \in SUBSET S : g[T] = Total(m, T)
  BY TotalOfSet
<1> DEFINE Whichever(T) == \A z \in T : g[T] = g[T \ {z}] + m[z].size
           N == {n \in Nat : \A T \in SUBSET S : Cardinality(T) <= n => Whichever(T)}
<1>2. \A T \in SUBSET S : IsFiniteSet(T) /\ Cardinality(T) \in Nat /\ g[T] \in Nat
  BY FS_Subset, FS_CardinalityType
<1>3. \A T \in SUBSET S : T # {} =>
          LET x == CHOOSE x \in T : TRUE
          IN  /\ x \in T /\ T \ {x} \in SUBSET S /\ g[T] = g[T \ {x}] + m[x].size
              /\ Cardinality(T \ {x}) = Cardinality(T) - 1
  <2> SUFFICES ASSUME NEW T \in SUBSET S, T # {}
               PROVE  LET x == CHOOSE x \in T : TRUE
                      IN  /\ x \in T /\ T \ {x} \in SUBSET S /\ g[T] = g[T \ {x}] + m[x].size
                          /\ Cardinality(T \ {x}) = Cardinality(T) - 1
    OBVIOUS
  <2> DEFINE x == CHOOSE x \in T : TRUE
  <2>1. x \in T
    OBVIOUS
  <2>2. g[T] = g[T \ {x}] + m[x].size
    BY <1>1 DEF Sums
  <2> HIDE DEF x
  <2>3. Cardinality(T \ {x}) = Cardinality(T) - 1
    BY <1>2, <2>1, FS_RemoveElement
  <2> QED
    BY <2>1, <2>2, <2>3 DEF x
<1>4. 0 \in N
  <2>1. \A T \in SUBSET S : Cardinality(T) <= 0 => T = {}
    BY <1>2, FS_EmptySet
  <2> QED
    BY <2>1
<1>5. ASSUME NEW n \in Nat, n \in N PROVE n + 1 \in N
  <2> SUFFICES ASSUME NEW T \in SUBSET S, Cardinality(T) <= n + 1, NEW z \in T
               PROVE  g[T] = g[T \ {z}] + m[z].size
    OBVIOUS
  <2> DEFINE x == CHOOSE x \in T : TRUE
  <2>1. /\ x \in T /\ T \ {x} \in SUBSET S /\ g[T] = g[T \ {x}] + m[x].size
        /\ Cardinality(T \ {x}) <= n
    BY <1>2, <1>3
  <2> HIDE DEF x
  <2>2. CASE z = x
    BY <2>1, <2>2
  <2>3. CASE z # x
    <3> DEFINE rest == (T \ {x}) \ {z}
    <3>1. rest = (T \ {z}) \ {x} /\ rest \in SUBSET S /\ T \ {z} \in SUBSET S
      BY <2>1
    <3>2. g[T \ {x}] = g[rest] + m[z].size
      BY <1>5, <2>1, <2>3
    <3>3. g[T \ {z}] = g[rest] + m[x].size
      <4>1. Cardinality(T \ {z}) <= n
        BY <1>2, FS_RemoveElement
      <4>2. x \in T \ {z}
        BY <2>1, <2>3
      <4> HIDE DEF rest
      <4> QED
        BY <1>5, <3>1, <4>1, <4>2
    <3>4. g[rest] \in Nat /\ m[x].size \in Nat /\ m[z].size \in Nat
      BY <1>2, <2>1, <3>1
    <3> HIDE DEF rest
    <3> QED
      BY <2>1, <3>2, <3>3, <3>4
  <2> QED
    BY <2>2, <2>3
<1>6. Cardinality(S) \in N
  <2> HIDE DEF N
  <2> QED
    BY <1>2, <1>4, <1>5, NaturalInduction
<1>7. g[S] = g[S \ {y}] + m[y].size
  BY <1>2, <1>6
<1> QED
  BY <1>1, <1>7

\* What a viewer has read is plausible, and stays so while the counter only grows.
ViewSound(w) ==
    /\ w = [files |-> w.files, healthy |-> w.healthy, counted |-> w.counted, used |-> w.used]
    /\ w.files \in Nat /\ w.healthy \in Nat /\ w.counted \in Nat
    /\ w.healthy <= w.files /\ w.counted <= storageUsed
    /\ w.used # Nothing => w.used \in Nat /\ w.counted <= w.used

\* The counter covers what is listed.
OverviewInv ==
    /\ files \in [FileIds -> DashboardFile \cup {Nothing}] /\ IsFiniteSet(Listed)
    /\ storageUsed \in Nat /\ SizeOf(Listed) <= storageUsed
    /\ view = [v \in Viewers |-> view[v]]
    /\ \A v \in Viewers : \A w : view[v] = w /\ w # Nothing => ViewSound(w)
    /\ OverviewCoversFiles

\* What is listed is a file, its size a number.
LEMMA ListedSizes ==
    ASSUME OverviewInv
    PROVE  /\ \A f \in Listed : f \in FileIds /\ files[f] \in DashboardFile
           /\ \A f \in Listed : files[f].size \in Nat
           /\ \A S \in SUBSET Listed : SizeOf(S) = Total(files, S)
<1>1. \A f \in Listed : f \in FileIds /\ files[f] \in DashboardFile
  BY DEF OverviewInv, Listed
<1>2. \A entry \in DashboardFile : entry.size \in Nat
  BY DashboardAssumption DEF DashboardFile
<1>3. \A S : SizeOf(S) = Total(files, S)
  BY DEF SizeOf, Total
<1> QED
  BY <1>1, <1>2, <1>3

\* A rate is a rate.
LEMMA RateInRange ==
    ASSUME NEW healthy \in Nat, NEW total \in Nat, healthy <= total
    PROVE  HealthRate(healthy, total) \in 0..100
<1>1. CASE total > 0
  <2> DEFINE q == (100 * healthy) \div total
  <2>1. q \in Nat /\ q * total <= 100 * healthy
    BY <1>1
  <2>2. ~(q > 100)
    <3> SUFFICES ASSUME q >= 101 PROVE FALSE
      BY <2>1
    <3> HIDE DEF q
    <3>1. q * total >= 101 * total
      BY <1>1, <2>1
    <3> QED
      BY <1>1, <2>1, <3>1
  <2> QED
    BY <1>1, <2>1, <2>2 DEF HealthRate
<1>2. CASE ~(total > 0)
  BY <1>2 DEF HealthRate
<1> QED
  BY <1>1, <1>2

\* Adding a file counts at least what it adds.
LEMMA AddFileCounts ==
    ASSUME OverviewInv, NEW f \in FileIds, NEW entry \in DashboardFile, AddFile(f, entry)
    PROVE  /\ files' \in [FileIds -> DashboardFile \cup {Nothing}] /\ IsFiniteSet(Listed')
           /\ storageUsed' \in Nat /\ SizeOf(Listed)' <= storageUsed'
           /\ storageUsed <= storageUsed'
<1>1. /\ files' = [files EXCEPT ![f] = entry] /\ storageUsed' = storageUsed + entry.size
      /\ entry.size \in Nat /\ entry # Nothing
  BY DashboardAssumption DEF AddFile, Stored, DashboardFile
<1>2. files' \in [FileIds -> DashboardFile \cup {Nothing}] /\ files'[f] = entry
      /\ \A x \in FileIds : x # f => files'[x] = files[x]
  BY <1>1 DEF OverviewInv
<1>3. Listed' = Listed \cup {f}
  BY <1>1, <1>2 DEF Listed
<1>4. IsFiniteSet(Listed') /\ IsFiniteSet(Listed \ {f}) /\ IsFiniteSet(Listed)
  BY <1>3, FS_AddElement, FS_RemoveElement DEF OverviewInv
<1> DEFINE m == files'
           rest == Listed \ {f}
<1>5. /\ \A x \in Listed : files[x].size \in Nat
      /\ \A x \in rest : m[x].size = files[x].size
      /\ \A x \in Listed' : m[x].size \in Nat
      /\ f \in Listed' /\ Listed' \ {f} = rest /\ m[f].size = entry.size
  BY <1>1, <1>2, <1>3, ListedSizes DEF Listed
<1>6. SizeOf(Listed)' = Total(m, Listed') /\ SizeOf(Listed) = Total(files, Listed)
  BY DEF SizeOf, Total, FoldSet, MapThenFoldSet
<1>7. Total(files, rest) <= Total(files, Listed) /\ Total(files, rest) \in Nat
  <2>1. Total(files, rest) \in Nat
    BY <1>4, <1>5, TotalOfSet
  <2>2. CASE f \in Listed
    <3>1. Total(files, Listed) = Total(files, rest) + files[f].size
      BY <1>4, <1>5, <2>2, TotalWithout
    <3> QED
      BY <1>5, <2>1, <2>2, <3>1
  <2>3. CASE f \notin Listed
    <3>1. rest = Listed
      BY <2>3
    <3> QED
      BY <2>1, <3>1
  <2> QED
    BY <2>2, <2>3
<1> HIDE DEF m, rest
<1>8. Total(m, rest) = Total(files, rest)
  <2>1. \A x \in rest : files[x].size \in Nat
    BY <1>5 DEF rest
  <2> QED
    BY <1>4, <1>5, <2>1, TotalsAgree DEF rest
<1>9. Total(m, Listed') = Total(m, rest) + entry.size
  BY <1>4, <1>5, TotalWithout
<1>10. Total(files, Listed) \in Nat /\ Total(files, Listed) <= storageUsed /\ storageUsed \in Nat
  BY <1>4, <1>5, <1>6, TotalOfSet DEF OverviewInv
<1> QED
  BY <1>1, <1>2, <1>4, <1>6, <1>7, <1>8, <1>9, <1>10

\* A view of the counters of now, after they grew or not.
LEMMA ViewsStay ==
    ASSUME OverviewInv, UNCHANGED <<view, overview>>,
           storageUsed' \in Nat, storageUsed <= storageUsed'
    PROVE  /\ \A v \in Viewers : \A w : view'[v] = w /\ w # Nothing => ViewSound(w)'
           /\ OverviewCoversFiles' /\ view' = [v \in Viewers |-> view'[v]]
<1>1. storageUsed \in Nat
  BY DEF OverviewInv
<1> QED
  BY <1>1 DEF OverviewInv, ViewSound, OverviewCoversFiles

\* Steps of the dashboard.
LEMMA OverviewKeeps ==
    ASSUME OverviewInv, [DashboardNext]_<<clockVars, dashboardVars>>
    PROVE  OverviewInv'
<1>1. ASSUME NEW f \in FileIds, NEW entry \in DashboardFile, AddFile(f, entry)
      PROVE  OverviewInv'
  <2>1. UNCHANGED <<view, overview>>
    BY <1>1 DEF AddFile
  <2> QED
    BY <1>1, <2>1, AddFileCounts, ViewsStay DEF OverviewInv
<1>2. CASE UNCHANGED <<files, storageUsed, view, overview>>
  BY <1>2 DEF OverviewInv, ViewSound, OverviewCoversFiles, SizeOf, FoldSet, MapThenFoldSet, Listed
<1>3. ASSUME NEW v \in Viewers, OverviewReadsFiles(v) PROVE OverviewInv'
  <2> DEFINE well == {f \in Listed : files[f].health = "healthy"}
             n == Cardinality(Listed)
             h == Cardinality(well)
             c == SizeOf(Listed)
             read == [files |-> n, healthy |-> h, counted |-> c, used |-> Nothing]
  <2>1. /\ view' = [view EXCEPT ![v] = read]
        /\ UNCHANGED <<files, storageUsed, overview>>
    BY <1>3 DEF OverviewReadsFiles, counters
  <2>2. n \in Nat /\ h \in Nat /\ h <= n
    <3>1. IsFiniteSet(Listed) /\ well \subseteq Listed
      BY DEF OverviewInv
    <3> HIDE DEF well
    <3> QED
      BY <3>1, FS_Subset, FS_CardinalityType
  <2>3. c \in Nat /\ c <= storageUsed
    <3>1. IsFiniteSet(Listed) /\ c <= storageUsed
      BY DEF OverviewInv
    <3>2. c = Total(files, Listed) /\ \A f \in Listed : files[f].size \in Nat
      BY ListedSizes
    <3>3. Total(files, Listed) \in Nat
      BY <3>1, <3>2, TotalOfSet
    <3> QED
      BY <3>1, <3>2, <3>3
  <2> HIDE DEF n, h, c
  <2>4. ViewSound(read)
    BY <2>2, <2>3 DEF ViewSound
  <2> HIDE DEF read
  <2>5. ASSUME NEW u \in Viewers, NEW w, view'[u] = w, w # Nothing PROVE ViewSound(w)'
    <3>1. ViewSound(w)
      BY <2>1, <2>4, <2>5 DEF OverviewInv
    <3> QED
      BY <2>1, <3>1 DEF ViewSound
  <2>6. SizeOf(Listed)' = SizeOf(Listed) /\ Listed' = Listed
    BY <2>1 DEF SizeOf, FoldSet, MapThenFoldSet, Listed
  <2> QED
    BY <2>1, <2>5, <2>6 DEF OverviewInv, OverviewCoversFiles
<1>4. ASSUME NEW v \in Viewers, OverviewReadsStorage(v) PROVE OverviewInv'
  <2>1. PICK old : old = view[v] /\ old # Nothing /\ old.used = Nothing
    BY <1>4 DEF OverviewReadsStorage
  <2>2. ViewSound(old)
    BY <2>1 DEF OverviewInv
  <2>3. /\ view' = [view EXCEPT ![v] = [old EXCEPT !.used = storageUsed]]
        /\ UNCHANGED <<files, storageUsed, overview>>
    BY <1>4, <2>1 DEF OverviewReadsStorage, counters
  <2> DEFINE n == old.files
             h == old.healthy
             c == old.counted
             u == old.used
             read == [files |-> n, healthy |-> h, counted |-> c, used |-> storageUsed]
  <2>4. old = [files |-> n, healthy |-> h, counted |-> c, used |-> u]
        /\ n \in Nat /\ h \in Nat /\ c \in Nat /\ h <= n /\ c <= storageUsed
    BY <2>2 DEF ViewSound
  <2>5. storageUsed \in Nat
    BY DEF OverviewInv
  <2> HIDE DEF n, h, c, u
  <2>6. [old EXCEPT !.used = storageUsed] = read
    BY <2>4
  <2>7. ViewSound(read)
    BY <2>4, <2>5 DEF ViewSound
  <2> HIDE DEF read
  <2>8. view' = [view EXCEPT ![v] = read]
    BY <2>3, <2>6
  <2>9. ASSUME NEW x \in Viewers, NEW w, view'[x] = w, w # Nothing PROVE ViewSound(w)'
    <3>1. ViewSound(w)
      BY <2>7, <2>8, <2>9 DEF OverviewInv
    <3> QED
      BY <2>3, <3>1 DEF ViewSound
  <2>10. SizeOf(Listed)' = SizeOf(Listed) /\ Listed' = Listed
    BY <2>3 DEF SizeOf, FoldSet, MapThenFoldSet, Listed
  <2> QED
    BY <2>3, <2>8, <2>9, <2>10 DEF OverviewInv, OverviewCoversFiles
<1>5. ASSUME NEW v \in Viewers, OverviewReadsRest(v) PROVE OverviewInv'
  <2>1. PICK old : old = view[v] /\ old # Nothing /\ old.used # Nothing
    BY <1>5 DEF OverviewReadsRest
  <2>2. ViewSound(old)
    BY <2>1 DEF OverviewInv
  <2>3. /\ overview'.used = old.used /\ overview'.counted = old.counted
        /\ overview'.rate = HealthRate(old.healthy, old.files)
        /\ view' = [view EXCEPT ![v] = Nothing] /\ UNCHANGED <<files, storageUsed>>
    BY <1>5, <2>1 DEF OverviewReadsRest, counters
  <2>4. HealthRate(old.healthy, old.files) \in 0..100
    BY <2>2, RateInRange DEF ViewSound
  <2>5. OverviewCoversFiles'
    BY <2>1, <2>2, <2>3, <2>4 DEF OverviewCoversFiles, ViewSound
  <2>6. ASSUME NEW x \in Viewers, NEW w, view'[x] = w, w # Nothing PROVE ViewSound(w)'
    <3>1. ViewSound(w)
      BY <2>3, <2>6 DEF OverviewInv
    <3> QED
      BY <2>3, <3>1 DEF ViewSound
  <2>7. SizeOf(Listed)' = SizeOf(Listed) /\ Listed' = Listed
    BY <2>3 DEF SizeOf, FoldSet, MapThenFoldSet, Listed
  <2> QED
    BY <2>3, <2>5, <2>6, <2>7 DEF OverviewInv
<1>6. ASSUME NEW f \in FileIds, AddReplica(f) PROVE OverviewInv'
  BY <1>2, <1>6 DEF AddReplica
<1>7. ASSUME NEW acknowledged \in BOOLEAN, AddAlert(acknowledged) PROVE OverviewInv'
  BY <1>2, <1>7 DEF AddAlert
<1>8. CASE CreateDashboardPolicy
  BY <1>2, <1>8 DEF CreateDashboardPolicy
<1>9. ASSUME NEW count \in 0..1, SetActiveBackups(count) PROVE OverviewInv'
  BY <1>2, <1>9 DEF SetActiveBackups
<1>10. ASSUME NEW v \in Viewers, NEW healths, BeginListing(v, healths) PROVE OverviewInv'
  BY <1>2, <1>10 DEF BeginListing, counters
<1>11. ASSUME NEW v \in Viewers, ListFiles(v) PROVE OverviewInv'
  BY <1>2, <1>11 DEF ListFiles, counters
<1>12. CASE UNCHANGED dashboardVars
  BY <1>2, <1>12 DEF dashboardVars, counters
<1> QED
  BY <1>1, <1>3, <1>4, <1>5, <1>6, <1>7, <1>8, <1>9, <1>10, <1>11, <1>12 DEF DashboardNext

\* The files a viewer asked for, in the order of the map, and where its page begins.
Shown(healths) == Picked(order, {i \in DOMAIN order : files[order[i]].health \in healths})
Reached(s, page) ==
    IF (page - 1) * PageFiles < Len(s) THEN (page - 1) * PageFiles ELSE Len(s)

\* A viewer of a map that did not change has seen the pages before its page.
BrowseSound(b) ==
    /\ b = [healths |-> b.healths, page |-> b.page, seen |-> b.seen,
            unchanged |-> b.unchanged]
    /\ b.page \in Nat \ {0}
    /\ b.unchanged =>
           b.seen = SubSeq(Shown(b.healths), 1, Reached(Shown(b.healths), b.page))

ListingInv ==
    /\ order \in Seq(FileIds)
    /\ \A i, j \in DOMAIN order : i # j => order[i] # order[j]
    /\ browse = [v \in Viewers |-> browse[v]]
    /\ \A v \in Viewers : \A b : browse[v] = b /\ b # Nothing => BrowseSound(b)
    /\ PagesPartition

\* What is shown is a part of the map, each file once.
LEMMA ShownOnce ==
    ASSUME ListingInv, NEW healths
    PROVE  /\ Shown(healths) \in Seq(FileIds)
           /\ \A i, j \in DOMAIN Shown(healths) :
                 Shown(healths)[i] = Shown(healths)[j] => i = j
<1> DEFINE I == {i \in DOMAIN order : files[order[i]].health \in healths}
           s == Picked(order, I)
           c == Cardinality(I)
<1>1. order \in Seq(FileIds) /\ I \subseteq DOMAIN order /\ Len(order) \in Nat
      /\ I \subseteq 1..Len(order)
  BY DEF ListingInv
<1> HIDE DEF I
<1>2. /\ s \in Seq(FileIds) /\ Len(s) = c /\ c \in Nat
      /\ \A k \in 1..c : Nth(I, k) \in I /\ s[k] = order[Nth(I, k)]
  BY <1>1, PickedElements
<1>3. \A k \in 1..c : Rank(I, Nth(I, k)) = k
  BY <1>1, RankOnto
<1>4. DOMAIN s = 1..c
  BY <1>2
<1> HIDE DEF s, c
<1>5. \A i, j \in 1..c : s[i] = s[j] => i = j
  <2> SUFFICES ASSUME NEW i \in 1..c, NEW j \in 1..c, s[i] = s[j] PROVE i = j
    OBVIOUS
  <2>1. Nth(I, i) = Nth(I, j)
    BY <1>1, <1>2 DEF ListingInv
  <2> QED
    BY <1>3, <2>1
<1>6. Shown(healths) = s
  BY DEF Shown, s, I
<1> QED
  BY <1>2, <1>4, <1>5, <1>6

\* A page follows what was seen before it.
LEMMA PageFollows ==
    ASSUME NEW S, NEW s \in Seq(S), NEW page \in Nat \ {0}
    PROVE  LET seen == SubSeq(s, 1, Reached(s, page))
               items == PageOfFiles(s, page)
           IN  /\ items = <<>> => seen = s
               /\ items # <<>> => seen \o items = SubSeq(s, 1, Reached(s, page + 1))
<1> DEFINE skip == (page - 1) * PageFiles
           end == page * PageFiles
           n == Len(s)
           to == IF end < n THEN end ELSE n
           a == Reached(s, page)
           seen == SubSeq(s, 1, a)
           items == PageOfFiles(s, page)
<1>1. skip \in Nat /\ end = skip + PageFiles /\ PageFiles \in Nat \ {0} /\ n \in Nat
  BY DashboardAssumption
<1>2. a = IF skip < n THEN skip ELSE n
  BY DEF Reached
<1>3. Reached(s, page + 1) = to
  BY DEF Reached
<1>4. items = SubSeq(s, skip + 1, to)
  BY <1>1 DEF PageOfFiles
<1> HIDE DEF skip, end, n, a, items
<1>5. ASSUME items = <<>> PROVE seen = s
  <2>1. ~(skip < n)
    BY <1>1, <1>4, <1>5
  <2> QED
    BY <1>1, <1>2, <2>1 DEF n
<1>6. ASSUME items # <<>> PROVE seen \o items = SubSeq(s, 1, to)
  <2>1. skip < n
    BY <1>1, <1>4, <1>6
  <2>2. a = skip /\ to \in Nat /\ skip <= to /\ to <= n
    BY <1>1, <1>2, <2>1
  <2> HIDE DEF to
  <2>3. /\ seen \in Seq(S) /\ Len(seen) = skip /\ \A i \in 1..skip : seen[i] = s[i]
    BY <1>1, <2>2 DEF n
  <2>4. /\ items \in Seq(S) /\ Len(items) = to - skip
        /\ \A i \in 1..(to - skip) : items[i] = s[skip + i]
    BY <1>1, <1>4, <2>2 DEF n
  <2>5. /\ SubSeq(s, 1, to) \in Seq(S) /\ Len(SubSeq(s, 1, to)) = to
        /\ \A i \in 1..to : SubSeq(s, 1, to)[i] = s[i]
    BY <1>1, <2>2 DEF n
  <2> HIDE DEF seen
  <2>6. /\ seen \o items \in Seq(S) /\ Len(seen \o items) = to
        /\ \A i \in 1..to : (seen \o items)[i] = s[i]
    <3>1. /\ seen \o items \in Seq(S) /\ Len(seen \o items) = skip + (to - skip)
          /\ \A i \in 1..(skip + (to - skip)) :
                 (seen \o items)[i] = IF i <= skip THEN seen[i] ELSE items[i - skip]
      <4>1. /\ seen \o items \in Seq(S) /\ Len(seen \o items) = Len(seen) + Len(items)
            /\ \A i \in 1..(Len(seen) + Len(items)) :
                   (seen \o items)[i]
                       = IF i <= Len(seen) THEN seen[i] ELSE items[i - Len(seen)]
        BY <2>3, <2>4, ConcatProperties
      <4> QED
        BY <2>3, <2>4, <4>1
    <3>2. skip + (to - skip) = to
      BY <1>1, <2>2
    <3>3. ASSUME NEW i \in 1..to PROVE (seen \o items)[i] = s[i]
      <4>1. CASE i <= skip
        BY <1>1, <2>2, <2>3, <3>1, <3>2, <4>1
      <4>2. CASE ~(i <= skip)
        <5>1. i - skip \in 1..(to - skip) /\ skip + (i - skip) = i
          BY <1>1, <2>2, <4>2
        <5> QED
          BY <2>4, <3>1, <3>2, <4>2, <5>1
      <4> QED
        BY <4>1, <4>2
    <3> QED
      BY <3>1, <3>2, <3>3
  <2> QED
    BY <2>5, <2>6, SeqEqual
<1> QED
  BY <1>3, <1>5, <1>6 DEF items, a

\* Steps of the dashboard.
LEMMA ListingKeeps ==
    ASSUME ListingInv, IsFiniteSet(Listed), [DashboardNext]_<<clockVars, dashboardVars>>
    PROVE  ListingInv'
<1>1. ASSUME NEW f \in FileIds, NEW entry \in DashboardFile, AddFile(f, entry)
      PROVE  ListingInv'
  <2>1. /\ order' \in IF files[f] = Nothing THEN SetToSeqs(Listed \cup {f}) ELSE {order}
        /\ browse' = [v \in Viewers |-> IF browse[v] = Nothing THEN Nothing
                                        ELSE [browse[v] EXCEPT !.unchanged = FALSE]]
        /\ UNCHANGED browsed
    BY <1>1 DEF AddFile, Stored
  <2>2. order' \in Seq(FileIds) /\ \A i, j \in DOMAIN order' : i # j => order'[i] # order'[j]
    <3>1. CASE files[f] # Nothing
      BY <2>1, <3>1 DEF ListingInv
    <3>2. CASE files[f] = Nothing
      <4>1. PICK n : order' \in [1..n -> Listed \cup {f}]
                     /\ n = Cardinality(Listed \cup {f})
                     /\ \A i, j \in 1..n : i # j => order'[i] # order'[j]
        BY <2>1, <3>2 DEF SetToSeqs
      <4>2. n \in Nat
        BY <4>1, FS_AddElement, FS_CardinalityType
      <4>3. DOMAIN order' = 1..n /\ Listed \cup {f} \subseteq FileIds
        BY <4>1 DEF Listed
      <4>4. order' \in [1..n -> FileIds]
        BY <4>1, <4>3
      <4>5. order' \in Seq(FileIds)
        BY <4>2, <4>4
      <4> QED
        BY <4>1, <4>3, <4>5
    <3> QED
      BY <3>1, <3>2
  <2>3. ASSUME NEW v \in Viewers, NEW b, browse'[v] = b, b # Nothing PROVE BrowseSound(b)'
    <3>1. PICK old : old = browse[v]
      OBVIOUS
    <3>2. old # Nothing /\ b = [old EXCEPT !.unchanged = FALSE]
      BY <2>1, <2>3, <3>1
    <3>3. BrowseSound(old)
      BY <3>1, <3>2 DEF ListingInv
    <3> DEFINE h == old.healths
               p == old.page
               s == old.seen
               u == old.unchanged
    <3>4. old = [healths |-> h, page |-> p, seen |-> s, unchanged |-> u] /\ p \in Nat \ {0}
      BY <3>3 DEF BrowseSound
    <3> HIDE DEF h, p, s, u
    <3>5. b = [healths |-> h, page |-> p, seen |-> s, unchanged |-> FALSE]
      BY <3>2, <3>4
    <3> QED
      BY <3>4, <3>5 DEF BrowseSound
  <2> QED
    BY <2>1, <2>2, <2>3 DEF ListingInv, PagesPartition
<1>2. CASE UNCHANGED <<files, order, browse, browsed>>
  BY <1>2 DEF ListingInv, BrowseSound, PagesPartition, Shown
<1>3. ASSUME NEW v \in Viewers, NEW healths, BeginListing(v, healths) PROVE ListingInv'
  <2> DEFINE begun == [healths |-> healths, page |-> 1, seen |-> <<>>, unchanged |-> TRUE]
  <2>1. browse' = [browse EXCEPT ![v] = begun] /\ UNCHANGED <<files, order, browsed>>
    BY <1>3 DEF BeginListing
  <2>2. BrowseSound(begun)
    <3>1. Shown(healths) \in Seq(FileIds)
      BY ShownOnce
    <3>2. Reached(Shown(healths), 1) = 0
      BY <3>1, DashboardAssumption DEF Reached
    <3>3. SubSeq(Shown(healths), 1, 0) = <<>>
      BY <3>1
    <3> QED
      BY <3>2, <3>3 DEF BrowseSound
  <2> HIDE DEF begun
  <2>3. ASSUME NEW u \in Viewers, NEW b, browse'[u] = b, b # Nothing PROVE BrowseSound(b)'
    <3>1. BrowseSound(b)
      BY <2>1, <2>2, <2>3 DEF ListingInv
    <3> QED
      BY <2>1, <3>1 DEF BrowseSound, Shown
  <2> QED
    BY <2>1, <2>3 DEF ListingInv, PagesPartition
<1>4. ASSUME NEW v \in Viewers, ListFiles(v) PROVE ListingInv'
  <2>1. PICK old : old = browse[v] /\ old # Nothing
    BY <1>4 DEF ListFiles
  <2>2. BrowseSound(old) /\ UNCHANGED <<files, order>>
    BY <1>4, <2>1 DEF ListingInv, ListFiles
  <2> DEFINE all == Shown(old.healths)
             items == PageOfFiles(all, old.page)
  <2>3. /\ all \in Seq(FileIds)
        /\ \A i, j \in DOMAIN all : all[i] = all[j] => i = j
    BY ShownOnce
  <2>4. /\ IF items = <<>>
           THEN /\ browsed' = [healths |-> old.healths, seen |-> old.seen,
                               unchanged |-> old.unchanged, expected |-> ToSet(all)]
                /\ browse' = [browse EXCEPT ![v] = Nothing]
           ELSE /\ browse' = [browse EXCEPT ![v].page = @ + 1, ![v].seen = @ \o items]
                /\ UNCHANGED browsed
    BY <1>4, <2>1 DEF ListFiles, Shown
  <2>5. /\ items = <<>> => SubSeq(all, 1, Reached(all, old.page)) = all
        /\ items # <<>> => SubSeq(all, 1, Reached(all, old.page)) \o items
                           = SubSeq(all, 1, Reached(all, old.page + 1))
    BY <2>2, <2>3, PageFollows DEF BrowseSound
  <2>6. CASE items = <<>>
    <3>1. old.unchanged => old.seen = all
      BY <2>2, <2>5, <2>6 DEF BrowseSound
    <3>2. PagesPartition'
      BY <2>3, <2>4, <2>6, <3>1 DEF PagesPartition, IsInjective, ToSet
    <3>3. browse' = [browse EXCEPT ![v] = Nothing]
      BY <2>4, <2>6
    <3>4. ASSUME NEW u \in Viewers, NEW b, browse'[u] = b, b # Nothing PROVE BrowseSound(b)'
      <4>1. BrowseSound(b)
        BY <3>3, <3>4 DEF ListingInv
      <4> QED
        BY <2>2, <4>1 DEF BrowseSound, Shown
    <3> QED
      BY <2>2, <3>2, <3>3, <3>4 DEF ListingInv
  <2>7. CASE items # <<>>
    <3> DEFINE h == old.healths
               p == old.page
               n == old.page + 1
               s == old.seen
               t == old.seen \o items
               u == old.unchanged
               once == [healths |-> h, page |-> n, seen |-> s, unchanged |-> u]
               next == [healths |-> h, page |-> n, seen |-> t, unchanged |-> u]
    <3>1. /\ browse[v].page + 1 = n /\ browse[v].seen \o items = t
          /\ browse[v] = [healths |-> h, page |-> p, seen |-> s, unchanged |-> u]
          /\ n \in Nat \ {0}
      BY <2>1, <2>2 DEF BrowseSound
    <3>2. u => t = SubSeq(Shown(h), 1, Reached(Shown(h), n))
      BY <2>2, <2>5, <2>7 DEF BrowseSound
    <3>3. browse' = [browse EXCEPT ![v].page = @ + 1, ![v].seen = @ \o items]
          /\ UNCHANGED browsed
      BY <2>4, <2>7
    <3>4. browse = [w \in Viewers |-> browse[w]]
      BY DEF ListingInv
    <3> HIDE DEF items, h, p, n, s, t, u
    <3>5. [browse[v] EXCEPT !.page = n] = once /\ [once EXCEPT !.seen = t] = next
      BY <3>1
    <3>6. [browse EXCEPT ![v] = once][v] = once
      BY <3>4
    <3>7. BrowseSound(next)
      BY <3>1, <3>2 DEF BrowseSound
    <3> HIDE DEF once, next
    <3>8. browse' = [[browse EXCEPT ![v] = once] EXCEPT ![v] = next]
      BY <3>1, <3>3, <3>5, <3>6
    <3>9. browse' = [browse EXCEPT ![v] = next]
      BY <3>4, <3>8
    <3>10. ASSUME NEW w \in Viewers, NEW b, browse'[w] = b, b # Nothing PROVE BrowseSound(b)'
      <4>1. BrowseSound(b)
        BY <3>7, <3>9, <3>10 DEF ListingInv
      <4> QED
        BY <2>2, <4>1 DEF BrowseSound, Shown
    <3> QED
      BY <2>2, <3>3, <3>9, <3>10 DEF ListingInv, PagesPartition
  <2> QED
    BY <2>6, <2>7
<1>5. ASSUME NEW f \in FileIds, AddReplica(f) PROVE ListingInv'
  BY <1>2, <1>5 DEF AddReplica, listings
<1>6. ASSUME NEW acknowledged \in BOOLEAN, AddAlert(acknowledged) PROVE ListingInv'
  BY <1>2, <1>6 DEF AddAlert, listings
<1>7. CASE CreateDashboardPolicy
  BY <1>2, <1>7 DEF CreateDashboardPolicy, listings
<1>8. ASSUME NEW count \in 0..1, SetActiveBackups(count) PROVE ListingInv'
  BY <1>2, <1>8 DEF SetActiveBackups, listings
<1>9. ASSUME NEW v \in Viewers,
             OverviewReadsFiles(v) \/ OverviewReadsStorage(v) \/ OverviewReadsRest(v)
      PROVE  ListingInv'
  BY <1>2, <1>9 DEF OverviewReadsFiles, OverviewReadsStorage, OverviewReadsRest, listings
<1>10. CASE UNCHANGED dashboardVars
  BY <1>2, <1>10 DEF dashboardVars, listings
<1> QED
  BY <1>1, <1>3, <1>4, <1>5, <1>6, <1>7, <1>8, <1>9, <1>10 DEF DashboardNext

\* What a viewer puts together from several calls fits together: an overview states at
\* least the storage of the files it counts and a rate between 0 and 100, and the pages
\* of a map that did not change show each matching file once, for any number of viewers
\* and any files, sizes and calls in between.
THEOREM ViewsFitTogether == DashboardSpec => []ViewsCoherent
<1>1. ClockInit /\ DashboardInit => OverviewInv /\ ListingInv
  <2> SUFFICES ASSUME DashboardInit PROVE OverviewInv /\ ListingInv
    OBVIOUS
  <2>1. Listed = {}
    BY DEF DashboardInit, Listed
  <2>2. SizeOf(Listed) = 0 /\ IsFiniteSet(Listed)
    <3>1. IsFiniteSet({})
      BY FS_EmptySet
    <3>2. PICK g \in [SUBSET {} -> Nat] : Sums(g, files, {}) /\ g[{}] = Total(files, {})
      BY <3>1, TotalOfSet
    <3>3. Total(files, {}) = 0
      BY <3>2 DEF Sums
    <3> QED
      BY <2>1, <3>1, <3>3 DEF SizeOf, Total
  <2> QED
    BY <2>2 DEF DashboardInit, OverviewInv, ListingInv, OverviewCoversFiles, PagesPartition
<1>2. OverviewInv /\ ListingInv => ViewsCoherent
  BY DEF OverviewInv, ListingInv, ViewsCoherent
<1>3. OverviewInv => IsFiniteSet(Listed)
  BY DEF OverviewInv
<1> QED
  BY <1>1, <1>2, <1>3, OverviewKeeps, ListingKeeps, PTL DEF DashboardSpec

-----------------------------------------------------------------------------
(* Storage layers *)

Compressing(layer) == layer.layer \in {"zstd", "lz4"}
Sealing(layer) == layer.layer = "sealed"

\* What a process has between a file and the disk: at most one layer of each kind.
LayerSeq(s) ==
    \/ s = <<>>
    \/ \E a : s = <<a>> /\ (Compressing(a) \/ Sealing(a))
    \/ \E a, b : s = <<a, b>> /\ Compressing(a) /\ Sealing(b)
    \/ \E a, b : s = <<a, b>> /\ Sealing(a) /\ Compressing(b)

\* The folds over that many layers.
LEMMA StoreUnfolds ==
    ASSUME NEW data
    PROVE  /\ ProcessStore(<<>>, data) = data
           /\ \A a : ProcessStore(<<a>>, data) = Wrapped(a, data)
           /\ \A a, b : ProcessStore(<<a, b>>, data) = Wrapped(b, Wrapped(a, data))
<1> DEFINE Body(s, g) ==
        [I \in SUBSET (DOMAIN s) |->
            IF I = {} THEN data ELSE LET i == Max(I) IN Wrapped(s[i], g[I \ {i}])]
           G(s) == CHOOSE g : g = Body(s, g)
<1>1. \A s : ProcessStore(s, data) = G(s)[DOMAIN s]
  BY DEF ProcessStore, FoldLeft, MapThenFoldSet
<1>2. ASSUME NEW s, NEW g, g = Body(s, g) PROVE G(s) = Body(s, G(s))
  BY <1>2
<1>3. Max({1}) = 1 /\ Max({2}) = 2 /\ Max({1, 2}) = 2
  BY DEF Max
<1>4. /\ {1} \ {Max({1})} = {} /\ {2} \ {Max({2})} = {} /\ {1, 2} \ {Max({1, 2})} = {1}
      /\ {1} # {} /\ {2} # {} /\ {1, 2} # {}
  BY <1>3
<1>5. ProcessStore(<<>>, data) = data
  <2> DEFINE g == [I \in SUBSET {} |-> data]
  <2>1. DOMAIN <<>> = {} /\ SUBSET {} = {{}}
    OBVIOUS
  <2>2. g = Body(<<>>, g)
    BY <2>1
  <2>3. G(<<>>) = Body(<<>>, G(<<>>))
    BY <1>2, <2>2
  <2> HIDE DEF G
  <2>4. G(<<>>)[{}] = data
    BY <2>1, <2>3
  <2> QED
    BY <1>1, <2>1, <2>4
<1>6. ASSUME NEW a PROVE ProcessStore(<<a>>, data) = Wrapped(a, data)
  <2> DEFINE s == <<a>>
             g == [I \in SUBSET {1} |-> IF I = {} THEN data ELSE Wrapped(a, data)]
  <2>1. DOMAIN s = {1} /\ SUBSET {1} = {{}, {1}} /\ s[1] = a
    OBVIOUS
  <2> HIDE DEF s
  <2>2. g = Body(s, g)
    <3>1. g[{}] = data /\ g[{1}] = Wrapped(a, data)
      BY <1>4, <2>1
    <3>2. ASSUME NEW I \in SUBSET {1}
          PROVE  g[I] = IF I = {} THEN data ELSE Wrapped(s[Max(I)], g[I \ {Max(I)}])
      <4> HIDE DEF g
      <4>1. I = {} \/ I = {1}
        BY <2>1
      <4> QED
        BY <1>3, <1>4, <2>1, <3>1, <4>1
    <3>3. g = [I \in SUBSET {1} |-> g[I]]
      OBVIOUS
    <3> HIDE DEF g
    <3> QED
      BY <2>1, <3>2, <3>3
  <2>3. G(s) = Body(s, G(s))
    BY <1>2, <2>2
  <2> HIDE DEF G
  <2>4. \A I \in SUBSET {1} :
            G(s)[I] = IF I = {} THEN data ELSE Wrapped(s[Max(I)], G(s)[I \ {Max(I)}])
    BY <2>1, <2>3
  <2>5. G(s)[{}] = data /\ G(s)[{1}] = Wrapped(s[Max({1})], G(s)[{1} \ {Max({1})}])
    BY <1>4, <2>4
  <2> QED
    BY <1>1, <1>3, <1>4, <2>1, <2>5 DEF s
<1>7. ASSUME NEW a, NEW b PROVE ProcessStore(<<a, b>>, data) = Wrapped(b, Wrapped(a, data))
  <2> DEFINE s == <<a, b>>
             g == [I \in SUBSET {1, 2} |->
                      IF I = {} THEN data ELSE IF I = {1} THEN Wrapped(a, data)
                      ELSE IF I = {2} THEN Wrapped(b, data) ELSE Wrapped(b, Wrapped(a, data))]
  <2>1. /\ DOMAIN s = {1, 2} /\ SUBSET {1, 2} = {{}, {1}, {2}, {1, 2}}
        /\ s[1] = a /\ s[2] = b
    OBVIOUS
  <2> HIDE DEF s
  <2>2. g = Body(s, g)
    <3>1. /\ g[{}] = data /\ g[{1}] = Wrapped(a, data) /\ g[{2}] = Wrapped(b, data)
          /\ g[{1, 2}] = Wrapped(b, Wrapped(a, data))
      BY <1>4, <2>1
    <3>2. ASSUME NEW I \in SUBSET {1, 2}
          PROVE  g[I] = IF I = {} THEN data ELSE Wrapped(s[Max(I)], g[I \ {Max(I)}])
      <4> HIDE DEF g
      <4>1. I = {} \/ I = {1} \/ I = {2} \/ I = {1, 2}
        BY <2>1
      <4> QED
        BY <1>3, <1>4, <2>1, <3>1, <4>1
    <3>3. g = [I \in SUBSET {1, 2} |-> g[I]]
      OBVIOUS
    <3> HIDE DEF g
    <3> QED
      BY <2>1, <3>2, <3>3
  <2>3. G(s) = Body(s, G(s))
    BY <1>2, <2>2
  <2> HIDE DEF G
  <2>4. \A I \in SUBSET {1, 2} :
            G(s)[I] = IF I = {} THEN data ELSE Wrapped(s[Max(I)], G(s)[I \ {Max(I)}])
    BY <2>1, <2>3
  <2>5. G(s)[{}] = data /\ G(s)[{1}] = Wrapped(s[Max({1})], G(s)[{1} \ {Max({1})}])
        /\ G(s)[{1, 2}] = Wrapped(s[Max({1, 2})], G(s)[{1, 2} \ {Max({1, 2})}])
    BY <1>4, <2>4
  <2>6. /\ s[Max({1})] = a /\ s[Max({1, 2})] = b
        /\ {1} \ {Max({1})} = {} /\ {1, 2} \ {Max({1, 2})} = {1}
    BY <1>3, <1>4, <2>1
  <2>7. G(s)[{1, 2}] = Wrapped(b, Wrapped(a, data))
    BY <2>5, <2>6
  <2>8. ProcessStore(s, data) = G(s)[{1, 2}]
    BY <1>1, <2>1
  <2> QED
    BY <2>7, <2>8 DEF s
<1> QED
  BY <1>5, <1>6, <1>7

\* The same for the way back, whose layers are given in their order there.
UnwrapAll(layers, data) ==
    FoldLeft(LAMBDA d, layer : Unwrapped(layer, d), data, layers)

\* That fold.
LEMMA UnwrapUnfolds ==
    ASSUME NEW data
    PROVE  /\ UnwrapAll(<<>>, data) = data
           /\ \A a : UnwrapAll(<<a>>, data) = Unwrapped(a, data)
           /\ \A a, b : UnwrapAll(<<a, b>>, data) = Unwrapped(b, Unwrapped(a, data))
<1> DEFINE Body(s, g) ==
        [I \in SUBSET (DOMAIN s) |->
            IF I = {} THEN data ELSE LET i == Max(I) IN Unwrapped(s[i], g[I \ {i}])]
           G(s) == CHOOSE g : g = Body(s, g)
<1>1. \A s : UnwrapAll(s, data) = G(s)[DOMAIN s]
  BY DEF UnwrapAll, FoldLeft, MapThenFoldSet
<1>2. ASSUME NEW s, NEW g, g = Body(s, g) PROVE G(s) = Body(s, G(s))
  BY <1>2
<1>3. Max({1}) = 1 /\ Max({2}) = 2 /\ Max({1, 2}) = 2
  BY DEF Max
<1>4. /\ {1} \ {Max({1})} = {} /\ {2} \ {Max({2})} = {} /\ {1, 2} \ {Max({1, 2})} = {1}
      /\ {1} # {} /\ {2} # {} /\ {1, 2} # {}
  BY <1>3
<1>5. UnwrapAll(<<>>, data) = data
  <2> DEFINE g == [I \in SUBSET {} |-> data]
  <2>1. DOMAIN <<>> = {} /\ SUBSET {} = {{}}
    OBVIOUS
  <2>2. g = Body(<<>>, g)
    BY <2>1
  <2>3. G(<<>>) = Body(<<>>, G(<<>>))
    BY <1>2, <2>2
  <2> HIDE DEF G
  <2>4. G(<<>>)[{}] = data
    BY <2>1, <2>3
  <2> QED
    BY <1>1, <2>1, <2>4
<1>6. ASSUME NEW a PROVE UnwrapAll(<<a>>, data) = Unwrapped(a, data)
  <2> DEFINE s == <<a>>
             g == [I \in SUBSET {1} |-> IF I = {} THEN data ELSE Unwrapped(a, data)]
  <2>1. DOMAIN s = {1} /\ SUBSET {1} = {{}, {1}} /\ s[1] = a
    OBVIOUS
  <2> HIDE DEF s
  <2>2. g = Body(s, g)
    <3>1. g[{}] = data /\ g[{1}] = Unwrapped(a, data)
      BY <1>4, <2>1
    <3>2. ASSUME NEW I \in SUBSET {1}
          PROVE  g[I] = IF I = {} THEN data ELSE Unwrapped(s[Max(I)], g[I \ {Max(I)}])
      <4> HIDE DEF g
      <4>1. I = {} \/ I = {1}
        BY <2>1
      <4> QED
        BY <1>3, <1>4, <2>1, <3>1, <4>1
    <3>3. g = [I \in SUBSET {1} |-> g[I]]
      OBVIOUS
    <3> HIDE DEF g
    <3> QED
      BY <2>1, <3>2, <3>3
  <2>3. G(s) = Body(s, G(s))
    BY <1>2, <2>2
  <2> HIDE DEF G
  <2>4. \A I \in SUBSET {1} :
            G(s)[I] = IF I = {} THEN data ELSE Unwrapped(s[Max(I)], G(s)[I \ {Max(I)}])
    BY <2>1, <2>3
  <2>5. G(s)[{}] = data /\ G(s)[{1}] = Unwrapped(s[Max({1})], G(s)[{1} \ {Max({1})}])
    BY <1>4, <2>4
  <2> QED
    BY <1>1, <1>3, <1>4, <2>1, <2>5 DEF s
<1>7. ASSUME NEW a, NEW b PROVE UnwrapAll(<<a, b>>, data) = Unwrapped(b, Unwrapped(a, data))
  <2> DEFINE s == <<a, b>>
             g == [I \in SUBSET {1, 2} |->
                      IF I = {} THEN data ELSE IF I = {1} THEN Unwrapped(a, data)
                      ELSE IF I = {2} THEN Unwrapped(b, data) ELSE Unwrapped(b, Unwrapped(a, data))]
  <2>1. /\ DOMAIN s = {1, 2} /\ SUBSET {1, 2} = {{}, {1}, {2}, {1, 2}}
        /\ s[1] = a /\ s[2] = b
    OBVIOUS
  <2> HIDE DEF s
  <2>2. g = Body(s, g)
    <3>1. /\ g[{}] = data /\ g[{1}] = Unwrapped(a, data) /\ g[{2}] = Unwrapped(b, data)
          /\ g[{1, 2}] = Unwrapped(b, Unwrapped(a, data))
      BY <1>4, <2>1
    <3>2. ASSUME NEW I \in SUBSET {1, 2}
          PROVE  g[I] = IF I = {} THEN data ELSE Unwrapped(s[Max(I)], g[I \ {Max(I)}])
      <4> HIDE DEF g
      <4>1. I = {} \/ I = {1} \/ I = {2} \/ I = {1, 2}
        BY <2>1
      <4> QED
        BY <1>3, <1>4, <2>1, <3>1, <4>1
    <3>3. g = [I \in SUBSET {1, 2} |-> g[I]]
      OBVIOUS
    <3> HIDE DEF g
    <3> QED
      BY <2>1, <3>2, <3>3
  <2>3. G(s) = Body(s, G(s))
    BY <1>2, <2>2
  <2> HIDE DEF G
  <2>4. \A I \in SUBSET {1, 2} :
            G(s)[I] = IF I = {} THEN data ELSE Unwrapped(s[Max(I)], G(s)[I \ {Max(I)}])
    BY <2>1, <2>3
  <2>5. G(s)[{}] = data /\ G(s)[{1}] = Unwrapped(s[Max({1})], G(s)[{1} \ {Max({1})}])
        /\ G(s)[{1, 2}] = Unwrapped(s[Max({1, 2})], G(s)[{1, 2} \ {Max({1, 2})}])
    BY <1>4, <2>4
  <2>6. /\ s[Max({1})] = a /\ s[Max({1, 2})] = b
        /\ {1} \ {Max({1})} = {} /\ {1, 2} \ {Max({1, 2})} = {1}
    BY <1>3, <1>4, <2>1
  <2>7. G(s)[{1, 2}] = Unwrapped(b, Unwrapped(a, data))
    BY <2>5, <2>6
  <2>8. UnwrapAll(s, data) = G(s)[{1, 2}]
    BY <1>1, <2>1
  <2> QED
    BY <2>7, <2>8 DEF s
<1> QED
  BY <1>5, <1>6, <1>7

\* Retrieving takes the layers off from the outermost.
LEMMA RetrieveUnfolds ==
    ASSUME NEW data
    PROVE  /\ ProcessRetrieve(<<>>, data) = data
           /\ \A a : ProcessRetrieve(<<a>>, data) = Unwrapped(a, data)
           /\ \A a, b : ProcessRetrieve(<<a, b>>, data) = Unwrapped(a, Unwrapped(b, data))
<1>1. /\ Reverse(<<>>) = <<>> /\ \A a : Reverse(<<a>>) = <<a>>
      /\ \A a, b : Reverse(<<a, b>>) = <<b, a>>
  BY DEF Reverse
<1>2. \A s : ProcessRetrieve(s, data) = UnwrapAll(Reverse(s), data)
  BY DEF ProcessRetrieve, UnwrapAll
<1> QED
  BY <1>1, <1>2, UnwrapUnfolds

\* One layer: what it takes off, what it passes and what it refuses.
LEMMA OneLayer ==
    ASSUME NEW d, d # Failed
    PROVE  /\ \A a, b : Compressing(a) /\ Compressing(b) => Unwrapped(b, Wrapped(a, d)) = d
           /\ \A a : Sealing(a) => Unwrapped(a, Wrapped(a, d)) = d
           /\ \A a, b : Sealing(a) /\ Sealing(b) => Unwrapped(b, Wrapped(a, d)) \in {d, Failed}
           /\ \A a, b : Compressing(a) /\ Sealing(b) => Unwrapped(b, Wrapped(a, d)) = Failed
           /\ \A a, b : Sealing(a) /\ Compressing(b) =>
                  Unwrapped(b, Wrapped(a, d)) = Wrapped(a, d)
           /\ \A a : Wrapped(a, d) # Failed
           /\ \A b : Compressing(b) /\ ~Compressed(d) => Unwrapped(b, d) = d
           /\ \A b : Sealing(b) /\ d.layer # "sealed" => Unwrapped(b, d) = Failed
           /\ \A b : Unwrapped(b, Failed) = Failed
<1>1. ASSUME NEW a
      PROVE  /\ Compressing(a) => /\ Wrapped(a, d) = [layer |-> a.layer, of |-> d]
                                  /\ Wrapped(a, d).layer = a.layer /\ Wrapped(a, d).of = d
                                  /\ ~Sealing(a) /\ Compressed(Wrapped(a, d))
             /\ Sealing(a) => /\ Wrapped(a, d) = [layer |-> "sealed", key |-> a.key, of |-> d]
                              /\ Wrapped(a, d).layer = "sealed" /\ Wrapped(a, d).of = d
                              /\ Wrapped(a, d).key = a.key
                              /\ ~Compressing(a) /\ ~Compressed(Wrapped(a, d))
  BY DEF Compressing, Sealing, Wrapped, Compressed, Sealed, Frame
<1>2. \A a : Wrapped(a, d) # Failed
  <2> SUFFICES ASSUME NEW a, Wrapped(a, d) = Failed PROVE FALSE
    OBVIOUS
  <2>1. DOMAIN Failed = {"layer"} /\ "of" \in DOMAIN Wrapped(a, d)
    BY DEF Failed, Wrapped, Sealed, Frame
  <2> QED
    BY <2>1
<1>3. \A b : Sealing(b) =>
          Unwrapped(b, d) = IF d.layer = "sealed" /\ d.key = b.key THEN d.of ELSE Failed
  BY DEF Sealing, Unwrapped
<1>4. \A b : Compressing(b) => Unwrapped(b, d) = IF Compressed(d) THEN d.of ELSE d
  BY DEF Compressing, Unwrapped
<1>5. \A a, b : Sealing(b) =>
          Unwrapped(b, Wrapped(a, d)) =
              IF Wrapped(a, d).layer = "sealed" /\ Wrapped(a, d).key = b.key
              THEN Wrapped(a, d).of ELSE Failed
  BY <1>2 DEF Sealing, Unwrapped
<1>6. \A a, b : Compressing(b) =>
          Unwrapped(b, Wrapped(a, d)) =
              IF Compressed(Wrapped(a, d)) THEN Wrapped(a, d).of ELSE Wrapped(a, d)
  BY <1>2 DEF Compressing, Unwrapped
<1>7. \A b : Unwrapped(b, Failed) = Failed
  BY DEF Unwrapped
<1>8. \A a : Compressing(a) => a.layer # "sealed"
  BY DEF Compressing
<1>9. \A a, b : Compressing(a) /\ Compressing(b) => Unwrapped(b, Wrapped(a, d)) = d
  BY <1>1, <1>6
<1>10. \A a : Sealing(a) => Unwrapped(a, Wrapped(a, d)) = d
  BY <1>1, <1>5
<1>11. \A a, b : Sealing(a) /\ Sealing(b) => Unwrapped(b, Wrapped(a, d)) \in {d, Failed}
  BY <1>1, <1>5
<1>12. \A a, b : Compressing(a) /\ Sealing(b) => Unwrapped(b, Wrapped(a, d)) = Failed
  BY <1>1, <1>5, <1>8
<1>13. \A a, b : Sealing(a) /\ Compressing(b) => Unwrapped(b, Wrapped(a, d)) = Wrapped(a, d)
  BY <1>1, <1>6
<1>14. /\ \A b : Compressing(b) /\ ~Compressed(d) => Unwrapped(b, d) = d
       /\ \A b : Sealing(b) /\ d.layer # "sealed" => Unwrapped(b, d) = Failed
  BY <1>3, <1>4
<1> QED
  BY <1>2, <1>7, <1>9, <1>10, <1>11, <1>12, <1>13, <1>14

\* What a user stores is not sealed, and compressed only if it is a .zst file.
LEMMA UserDataIs ==
    ASSUME NEW d \in UserData
    PROVE  d # Failed /\ d.layer # "sealed"
<1>1. CASE \E c \in Plain : d = PlainData(c)
  <2>1. d.layer = "plain" /\ Failed.layer = "failed"
    BY <1>1 DEF PlainData, Failed
  <2> QED
    BY <2>1
<1>2. CASE \E c \in Plain : d = Frame("zstd", PlainData(c))
  <2>1. d.layer = "zstd" /\ Failed.layer = "failed"
    BY <1>2 DEF Frame, Failed
  <2> QED
    BY <2>1
<1> QED
  BY <1>1, <1>2 DEF UserData

\* The layers that were taken off are those that were put on.
LEMMA SameLayers ==
    ASSUME NEW s, LayerSeq(s), NEW d \in UserData
    PROVE  ProcessRetrieve(s, ProcessStore(s, d)) = d
<1>1. d # Failed
  BY UserDataIs
<1>2. CASE s = <<>>
  BY <1>2, StoreUnfolds, RetrieveUnfolds
<1>3. ASSUME NEW a, s = <<a>>, Compressing(a) \/ Sealing(a)
      PROVE  ProcessRetrieve(s, ProcessStore(s, d)) = d
  <2>1. ProcessStore(s, d) = Wrapped(a, d)
    BY <1>3, StoreUnfolds
  <2>2. ProcessRetrieve(s, Wrapped(a, d)) = Unwrapped(a, Wrapped(a, d))
    BY <1>3, RetrieveUnfolds
  <2>3. Unwrapped(a, Wrapped(a, d)) = d
    BY <1>1, <1>3, OneLayer
  <2> QED
    BY <2>1, <2>2, <2>3
<1>4. ASSUME NEW a, NEW b, s = <<a, b>>,
             Compressing(a) \/ Sealing(a), Compressing(b) \/ Sealing(b)
      PROVE  ProcessRetrieve(s, ProcessStore(s, d)) = d
  <2>1. ProcessStore(s, d) = Wrapped(b, Wrapped(a, d))
    BY <1>4, StoreUnfolds
  <2>2. Wrapped(a, d) # Failed
    BY <1>1, OneLayer
  <2>3. Unwrapped(b, Wrapped(b, Wrapped(a, d))) = Wrapped(a, d)
    <3> DEFINE w == Wrapped(a, d)
    <3>1. w # Failed
      BY <2>2
    <3> HIDE DEF w
    <3>2. Unwrapped(b, Wrapped(b, w)) = w
      BY <1>4, <3>1, OneLayer
    <3> QED
      BY <3>2 DEF w
  <2>4. Unwrapped(a, Wrapped(a, d)) = d
    BY <1>1, <1>4, OneLayer
  <2>5. ProcessRetrieve(s, Wrapped(b, Wrapped(a, d)))
            = Unwrapped(a, Unwrapped(b, Wrapped(b, Wrapped(a, d))))
    BY <1>4, RetrieveUnfolds
  <2> QED
    BY <2>1, <2>3, <2>4, <2>5
<1> QED
  BY <1>2, <1>3, <1>4 DEF LayerSeq

\* The kinds of layers tell how many there are.
LEMMA KindsOf ==
    /\ Kinds(<<>>) = <<>>
    /\ \A a : Kinds(<<a>>) = <<IF Sealing(a) THEN "seal" ELSE "compress">>
    /\ \A a, b : Kinds(<<a, b>>) = <<IF Sealing(a) THEN "seal" ELSE "compress",
                                     IF Sealing(b) THEN "seal" ELSE "compress">>
<1>1. Kinds(<<>>) = <<>>
  BY DEF Kinds
<1>2. ASSUME NEW a PROVE Kinds(<<a>>) = <<IF Sealing(a) THEN "seal" ELSE "compress">>
  BY DEF Kinds, Sealing
<1>3. ASSUME NEW a, NEW b
      PROVE  Kinds(<<a, b>>) = <<IF Sealing(a) THEN "seal" ELSE "compress",
                                 IF Sealing(b) THEN "seal" ELSE "compress">>
  BY DEF Kinds, Sealing
<1> QED
  BY <1>1, <1>2, <1>3

\* Layers around data that was stored without any.
LEMMA UnlayeredRestores ==
    ASSUME NEW now, LayerSeq(now), NEW d \in UserData,
           Compressed(d) => Kinds(now) = Kinds(<<>>)
    PROVE  ProcessRetrieve(now, d) \in {d, Failed}
<1>1. d # Failed /\ d.layer # "sealed"
  BY UserDataIs
<1>2. CASE now = <<>>
  BY <1>2, RetrieveUnfolds
<1>3. ASSUME now # <<>> PROVE ~Compressed(d)
  <2>1. Kinds(now) # <<>>
    <3>1. (\E a : now = <<a>>) \/ (\E a, b : now = <<a, b>>)
      BY <1>3 DEF LayerSeq
    <3> QED
      BY <3>1, KindsOf
  <2> QED
    BY <2>1, KindsOf
<1>4. ASSUME NEW a, now = <<a>>, Compressing(a) \/ Sealing(a)
      PROVE  ProcessRetrieve(now, d) \in {d, Failed}
  <2>1. ProcessRetrieve(now, d) = Unwrapped(a, d)
    BY <1>4, RetrieveUnfolds
  <2>2. ~Compressed(d)
    BY <1>3, <1>4
  <2>3. Unwrapped(a, d) \in {d, Failed}
    BY <1>1, <1>4, <2>2, OneLayer
  <2> QED
    BY <2>1, <2>3
<1>5. ASSUME NEW a, NEW b, now = <<a, b>>,
             Compressing(a) \/ Sealing(a), Compressing(b) \/ Sealing(b)
      PROVE  ProcessRetrieve(now, d) \in {d, Failed}
  <2>1. ProcessRetrieve(now, d) = Unwrapped(a, Unwrapped(b, d))
    BY <1>5, RetrieveUnfolds, ZenonT(60)
  <2>2. ~Compressed(d)
    BY <1>3, <1>5
  <2>3. Unwrapped(b, d) \in {d, Failed}
    BY <1>1, <1>5, <2>2, OneLayer
  <2>4. Unwrapped(a, d) \in {d, Failed} /\ Unwrapped(a, Failed) = Failed
    BY <1>1, <1>5, <2>2, OneLayer
  <2> QED
    BY <2>1, <2>3, <2>4
<1> QED
  BY <1>2, <1>4, <1>5 DEF LayerSeq

\* Layers around data that was stored through one, of a kind that is still there.
LEMMA OneLayerRestores ==
    ASSUME NEW now, LayerSeq(now), NEW a, Compressing(a) \/ Sealing(a), NEW d \in UserData,
           Extends(now, <<a>>), Compressed(d) => Kinds(now) = Kinds(<<a>>)
    PROVE  ProcessRetrieve(now, Wrapped(a, d)) \in {d, Failed}
<1>1. d # Failed /\ d.layer # "sealed"
  BY UserDataIs
<1>2. Wrapped(a, d) # Failed
  BY <1>1, OneLayer
<1>3. now # <<>>
  <2> SUFFICES ASSUME now = <<>> PROVE FALSE
    OBVIOUS
  <2>1. Kinds(<<a>>) # Kinds(<<>>) /\ <<a>> # <<>>
    BY KindsOf
  <2>2. DOMAIN <<>> = {}
    OBVIOUS
  <2> QED
    BY <2>1, <2>2 DEF Extends
<1>4. ASSUME NEW b, now = <<b>>, Compressing(b) \/ Sealing(b)
      PROVE  ProcessRetrieve(now, Wrapped(a, d)) \in {d, Failed}
  <2>1. Kinds(now)[1] = Kinds(<<a>>)[1]
    <3>1. DOMAIN <<b>> = {1} /\ <<a>> # <<>>
      OBVIOUS
    <3> QED
      BY <1>4, <3>1 DEF Extends
  <2>2. Sealing(a) <=> Sealing(b)
    BY <1>4, <2>1, KindsOf
  <2>3. Unwrapped(b, Wrapped(a, d)) \in {d, Failed}
    BY <1>1, <1>4, <2>2, OneLayer
  <2> QED
    BY <1>4, <2>3, RetrieveUnfolds
<1>5. ASSUME NEW b, NEW c, now = <<b, c>> PROVE ~Compressed(d)
  <2>1. Kinds(now) # Kinds(<<a>>)
    BY <1>5, KindsOf
  <2> QED
    BY <2>1
<1>6. ASSUME NEW c, NEW k, now = <<c, k>>, Compressing(c), Sealing(k)
      PROVE  ProcessRetrieve(now, Wrapped(a, d)) \in {d, Failed}
  <2>1. ~Compressed(d)
    BY <1>5, <1>6
  <2>2. ProcessRetrieve(now, Wrapped(a, d)) = Unwrapped(c, Unwrapped(k, Wrapped(a, d)))
    BY <1>6, RetrieveUnfolds
  <2>3. Unwrapped(k, Wrapped(a, d)) \in {d, Failed}
    BY <1>1, <1>6, OneLayer
  <2>4. Unwrapped(c, d) = d /\ Unwrapped(c, Failed) = Failed
    BY <1>1, <1>6, <2>1, OneLayer
  <2> QED
    BY <2>2, <2>3, <2>4
<1>7. ASSUME NEW c, NEW k, now = <<k, c>>, Compressing(c), Sealing(k)
      PROVE  ProcessRetrieve(now, Wrapped(a, d)) \in {d, Failed}
  <2>1. ProcessRetrieve(now, Wrapped(a, d)) = Unwrapped(k, Unwrapped(c, Wrapped(a, d)))
    BY <1>7, RetrieveUnfolds
  <2>2. CASE Sealing(a)
    <3>1. Unwrapped(c, Wrapped(a, d)) = Wrapped(a, d)
      BY <1>1, <1>7, <2>2, OneLayer
    <3>2. Unwrapped(k, Wrapped(a, d)) \in {d, Failed}
      BY <1>1, <1>7, <2>2, OneLayer
    <3> QED
      BY <2>1, <3>1, <3>2
  <2>3. CASE Compressing(a)
    <3>1. Unwrapped(c, Wrapped(a, d)) = d /\ Unwrapped(k, d) = Failed
      BY <1>1, <1>7, <2>3, OneLayer
    <3> QED
      BY <2>1, <3>1
  <2> QED
    BY <2>2, <2>3
<1> QED
  BY <1>3, <1>4, <1>6, <1>7 DEF LayerSeq

\* Two layers around data that was stored through two of the same kinds.
LEMMA TwoLayersRestore ==
    ASSUME NEW a, NEW b, NEW x, NEW y, NEW d \in UserData,
           \/ Compressing(a) /\ Sealing(b) /\ Compressing(x) /\ Sealing(y)
           \/ Sealing(a) /\ Compressing(b) /\ Sealing(x) /\ Compressing(y)
    PROVE  ProcessRetrieve(<<x, y>>, Wrapped(b, Wrapped(a, d))) \in {d, Failed}
<1> DEFINE w == Wrapped(a, d)
<1>1. d # Failed
  BY UserDataIs
<1>2. w # Failed
  BY <1>1, OneLayer
<1>3. Unwrapped(x, w) \in {d, Failed} /\ Unwrapped(x, Failed) = Failed
  BY <1>1, OneLayer
<1> HIDE DEF w
<1>4. Unwrapped(y, Wrapped(b, w)) \in {w, Failed}
  BY <1>2, OneLayer
<1>5. ProcessRetrieve(<<x, y>>, Wrapped(b, w)) = Unwrapped(x, Unwrapped(y, Wrapped(b, w)))
  BY RetrieveUnfolds, ZenonT(60)
<1>6. ProcessRetrieve(<<x, y>>, Wrapped(b, w)) \in {d, Failed}
  BY <1>3, <1>4, <1>5
<1> QED
  BY <1>6 DEF w

\* Data is restored, or refused, by layers that extend those it was stored through.
LEMMA ExtendedRestores ==
    ASSUME NEW now, LayerSeq(now), NEW then, LayerSeq(then), NEW d \in UserData,
           Extends(now, then), Compressed(d) => Kinds(now) = Kinds(then)
    PROVE  ProcessRetrieve(now, ProcessStore(then, d)) \in {d, Failed}
<1>1. CASE then = <<>>
  BY <1>1, StoreUnfolds, UnlayeredRestores
<1>2. ASSUME NEW a, then = <<a>>, Compressing(a) \/ Sealing(a)
      PROVE  ProcessRetrieve(now, ProcessStore(then, d)) \in {d, Failed}
  <2>1. ProcessStore(then, d) = Wrapped(a, d)
    BY <1>2, StoreUnfolds
  <2>2. ProcessRetrieve(now, Wrapped(a, d)) \in {d, Failed}
    BY <1>2, OneLayerRestores
  <2> QED
    BY <2>1, <2>2
<1>3. ASSUME NEW a, NEW b, then = <<a, b>>,
             \/ Compressing(a) /\ Sealing(b)
             \/ Sealing(a) /\ Compressing(b)
      PROVE  ProcessRetrieve(now, ProcessStore(then, d)) \in {d, Failed}
  <2>1. Kinds(now) = Kinds(<<a, b>>)
    <3>1. <<a, b>> # <<>> /\ Len(<<a, b>>) = 2
      OBVIOUS
    <3> QED
      BY <1>3, <3>1 DEF Extends
  <2>2. now # <<>> /\ \A x : now # <<x>>
    BY <2>1, KindsOf
  <2>3. PICK x, y : /\ now = <<x, y>>
                    /\ \/ Compressing(x) /\ Sealing(y)
                       \/ Sealing(x) /\ Compressing(y)
    BY <2>2 DEF LayerSeq
  <2>4. Sealing(x) <=> Sealing(a)
    <3>1. Kinds(<<x, y>>)[1] = Kinds(<<a, b>>)[1]
      BY <2>1, <2>3
    <3> QED
      BY <3>1, KindsOf
  <2>5. \A layer : ~(Sealing(layer) /\ Compressing(layer))
    BY DEF Sealing, Compressing
  <2>6. \/ Compressing(a) /\ Sealing(b) /\ Compressing(x) /\ Sealing(y)
        \/ Sealing(a) /\ Compressing(b) /\ Sealing(x) /\ Compressing(y)
    BY <1>3, <2>3, <2>4, <2>5
  <2>7. ProcessRetrieve(<<x, y>>, Wrapped(b, Wrapped(a, d))) \in {d, Failed}
    BY <2>6, TwoLayersRestore
  <2>8. ProcessStore(then, d) = Wrapped(b, Wrapped(a, d))
    BY <1>3, StoreUnfolds
  <2> QED
    BY <2>3, <2>7, <2>8
<1> QED
  BY <1>1, <1>2, <1>3 DEF LayerSeq

\* A configuration or a storage's decorators make at most one layer of each kind.
LEMMA ConfiguredLayers ==
    ASSUME NEW c \in [compression : {"none", "zstd", "lz4"}, encryption : BOOLEAN,
                      key : SealKeys \cup {Nothing}, outer : {"compress", "encrypt"}]
    PROVE  LayerSeq(Layers(c))
<1>1. \/ Compressors(c) = <<>>
      \/ \E a : Compressors(c) = <<a>> /\ Compressing(a)
  <2>1. CASE c.compression = "none"
    BY <2>1 DEF Compressors
  <2>2. CASE c.compression # "none"
    <3> DEFINE a == [layer |-> c.compression]
    <3>1. Compressors(c) = <<a>> /\ a.layer = c.compression /\ c.compression \in {"zstd", "lz4"}
      BY <2>2 DEF Compressors
    <3> HIDE DEF a
    <3> QED
      BY <3>1 DEF Compressing
  <2> QED
    BY <2>1, <2>2
<1>2. \/ Sealers(c) = <<>>
      \/ \E a : Sealers(c) = <<a>> /\ Sealing(a)
  <2>1. CASE ~(c.encryption /\ c.key # Nothing)
    BY <2>1 DEF Sealers
  <2>2. CASE c.encryption /\ c.key # Nothing
    <3> DEFINE a == [layer |-> "sealed", key |-> c.key]
    <3>1. Sealers(c) = <<a>> /\ a.layer = "sealed"
      BY <2>2 DEF Sealers
    <3> HIDE DEF a
    <3> QED
      BY <3>1 DEF Sealing
  <2> QED
    BY <2>1, <2>2
<1>3. /\ <<>> \o <<>> = <<>>
      /\ \A a : <<>> \o <<a>> = <<a>> /\ <<a>> \o <<>> = <<a>>
      /\ \A a, b : <<a>> \o <<b>> = <<a, b>>
  <2>1. <<>> \o <<>> = <<>>
    OBVIOUS
  <2>2. ASSUME NEW a PROVE <<>> \o <<a>> = <<a>> /\ <<a>> \o <<>> = <<a>>
    <3>1. <<a>> \in Seq({a})
      OBVIOUS
    <3> QED
      BY <3>1, ConcatProperties
  <2>3. ASSUME NEW a, NEW b PROVE <<a>> \o <<b>> = <<a, b>>
    <3> DEFINE S == {a, b}
    <3>1. <<a>> \in Seq(S) /\ <<b>> \in Seq(S) /\ <<a, b>> \in Seq(S)
      OBVIOUS
    <3>2. <<a>> \o <<b>> \in Seq(S) /\ Len(<<a>> \o <<b>>) = 2
      BY <3>1, ConcatProperties
    <3>3. \A i \in 1..2 : (<<a>> \o <<b>>)[i] = <<a, b>>[i]
      BY <3>1, ConcatProperties
    <3> QED
      BY <3>1, <3>2, <3>3, SeqEqual
  <2> QED
    BY <2>1, <2>2, <2>3
<1>4. Layers(c) = Compressors(c) \o Sealers(c) \/ Layers(c) = Sealers(c) \o Compressors(c)
  BY DEF Layers
<1>5. CASE Compressors(c) = <<>> /\ Sealers(c) = <<>>
  BY <1>3, <1>4, <1>5 DEF LayerSeq
<1>6. ASSUME NEW a, Compressors(c) = <<a>>, Compressing(a), Sealers(c) = <<>>
      PROVE  LayerSeq(Layers(c))
  BY <1>3, <1>4, <1>6 DEF LayerSeq
<1>7. ASSUME NEW b, Compressors(c) = <<>>, Sealers(c) = <<b>>, Sealing(b)
      PROVE  LayerSeq(Layers(c))
  BY <1>3, <1>4, <1>7 DEF LayerSeq
<1>8. ASSUME NEW a, NEW b, Compressors(c) = <<a>>, Compressing(a),
             Sealers(c) = <<b>>, Sealing(b)
      PROVE  LayerSeq(Layers(c))
  <2>1. Layers(c) = <<a, b>> \/ Layers(c) = <<b, a>>
    BY <1>3, <1>4, <1>8
  <2> QED
    BY <1>8, <2>1 DEF LayerSeq
<1> QED
  BY <1>1, <1>2, <1>5, <1>6, <1>7, <1>8

\* What a process may be configured to.
LayerSettings ==
    settings \in [compression : {"none", "zstd", "lz4"}, encryption : BOOLEAN,
                  key : SealKeys \cup {Nothing}, outer : {"compress", "encrypt"}]

\* The disk holds what was stored last, inside the layers of then.
StoredInLayers ==
    /\ DOMAIN disk = LayerFiles /\ DOMAIN contents = LayerFiles
    /\ \A f \in LayerFiles :
          disk[f] # Nothing =>
              /\ LayerSeq(contents[f].layers) /\ contents[f].data \in UserData
              /\ disk[f] = ProcessStore(contents[f].layers, contents[f].data)

\* Those hold of every reachable state of the layers.
LEMMA LayersKeep ==
    LayerSettings /\ StoredInLayers /\ [LayerNext]_<<clockVars, layerVars>>
        => LayerSettings' /\ StoredInLayers'
<1> SUFFICES ASSUME LayerSettings, StoredInLayers, [LayerNext]_<<clockVars, layerVars>>
             PROVE  LayerSettings' /\ StoredInLayers'
  OBVIOUS
<1>1. ASSUME NEW c \in LayerConfigs, Reconfigure(c) PROVE LayerSettings' /\ StoredInLayers'
  BY <1>1, LayerAssumption DEF Reconfigure, LayerSettings, StoredInLayers
<1>2. CASE SaveAndLoad
  BY <1>2 DEF SaveAndLoad, LayerSettings, StoredInLayers
<1>3. ASSUME NEW f \in LayerFiles, NEW data \in UserData, StoreFile(f, data)
      PROVE  LayerSettings' /\ StoredInLayers'
  <2> DEFINE record == [data |-> data, layers |-> Layers(settings)]
  <2>1. /\ disk' = [disk EXCEPT ![f] = ProcessStore(Layers(settings), data)]
        /\ contents' = [contents EXCEPT ![f] = record]
        /\ settings' = settings
    BY <1>3 DEF StoreFile
  <2>2. LayerSeq(Layers(settings))
    BY ConfiguredLayers DEF LayerSettings
  <2>3. record.data = data /\ record.layers = Layers(settings)
    OBVIOUS
  <2> HIDE DEF record
  <2>4. DOMAIN disk' = LayerFiles /\ DOMAIN contents' = LayerFiles
    BY <2>1 DEF StoredInLayers
  <2>5. ASSUME NEW g \in LayerFiles, disk'[g] # Nothing
        PROVE  /\ LayerSeq(contents'[g].layers) /\ contents'[g].data \in UserData
               /\ disk'[g] = ProcessStore(contents'[g].layers, contents'[g].data)
    <3>1. CASE g = f
      <4>1. disk'[g] = ProcessStore(Layers(settings), data) /\ contents'[g] = record
        BY <2>1, <3>1 DEF StoredInLayers
      <4> QED
        BY <2>2, <2>3, <4>1
    <3>2. CASE g # f
      <4>1. disk'[g] = disk[g] /\ contents'[g] = contents[g]
        BY <2>1, <3>2 DEF StoredInLayers
      <4> QED
        BY <2>5, <4>1 DEF StoredInLayers
    <3> QED
      BY <3>1, <3>2
  <2> QED
    BY <2>1, <2>4, <2>5 DEF LayerSettings, StoredInLayers
<1>4. ASSUME NEW f \in LayerFiles, RetrieveFile(f) PROVE LayerSettings' /\ StoredInLayers'
  BY <1>4 DEF RetrieveFile, LayerSettings, StoredInLayers
<1>5. CASE UNCHANGED <<clockVars, layerVars>>
  BY <1>5 DEF layerVars, LayerSettings, StoredInLayers
<1> QED
  BY <1>1, <1>2, <1>3, <1>4, <1>5 DEF LayerNext

\* A retrieval reads what was stored, and no other step changes what it read.
LEMMA RetrievalsKeep ==
    LayerSettings /\ StoredInLayers /\ RetrievedIsStored /\ [LayerNext]_<<clockVars, layerVars>>
        => RetrievedIsStored'
<1> SUFFICES ASSUME LayerSettings, StoredInLayers, RetrievedIsStored,
                    [LayerNext]_<<clockVars, layerVars>>
             PROVE  RetrievedIsStored'
  OBVIOUS
<1>1. ASSUME NEW f \in LayerFiles, RetrieveFile(f) PROVE RetrievedIsStored'
  <2> DEFINE now == Layers(settings)
             was == contents[f]
             out == ProcessRetrieve(now, disk[f])
  <2>1. retrieved'.layers = now /\ retrieved'.data = out /\ retrieved'.stored = was
    BY <1>1 DEF RetrieveFile
  <2>2. LayerSeq(now)
    BY ConfiguredLayers DEF LayerSettings
  <2>3. /\ LayerSeq(was.layers) /\ was.data \in UserData
        /\ out = ProcessRetrieve(now, ProcessStore(was.layers, was.data))
    BY <1>1 DEF RetrieveFile, StoredInLayers
  <2> HIDE DEF now, was, out
  <2>4. now = was.layers => out = was.data
    BY <2>2, <2>3, SameLayers
  <2>5. /\ Extends(now, was.layers)
        /\ Compressed(was.data) => Kinds(now) = Kinds(was.layers)
        => out \in {was.data, Failed}
    BY <2>2, <2>3, ExtendedRestores
  <2> QED
    BY <2>1, <2>4, <2>5 DEF RetrievedIsStored
<1>2. ASSUME UNCHANGED retrieved PROVE RetrievedIsStored'
  BY <1>2 DEF RetrievedIsStored
<1> QED
  BY <1>1, <1>2 DEF LayerNext, Reconfigure, SaveAndLoad, StoreFile, layerVars

\* A file retrieved through the layers it was stored through is the file stored,
\* and through layers that extend those, of whichever formats and keys, the file
\* or an error.  So does DataPipeline, and so do CompressedStorage and
\* EncryptedStorage in either nesting.
THEOREM RetrievalsReturnTheStored == LayerSpec => []RetrievedIsStored
<1>1. LayerInit => LayerSettings /\ StoredInLayers /\ RetrievedIsStored
  BY LayerAssumption DEF LayerInit, LayerSettings, StoredInLayers, RetrievedIsStored
<1> QED
  BY <1>1, LayersKeep, RetrievalsKeep, PTL DEF LayerSpec

-----------------------------------------------------------------------------
(* The anomaly predictor.  FoldLeft is a recursive function on the subsets *)
(* of a sequence's indices that takes the last of them off.                *)

SumStep(g, v, I) == IF I = {} THEN 0 ELSE g[I \ {Max(I)}] + v[Max(I)]

\* g adds up the values v of every set of indices up to n.
SumsUp(g, v, n) == g = [I \in SUBSET (1..n) |-> SumStep(g, v, I)]

\* The greatest of some indices.
LEMMA GreatestIs ==
    ASSUME NEW n \in Nat, NEW I \in SUBSET (1..n), I # {}
    PROVE  Max(I) \in I /\ \A y \in I : Max(I) >= y
<1> DEFINE D == {n - x : x \in I}
<1>1. D \subseteq Nat /\ D # {}
  <2>1. \A x \in I : n - x \in Nat
    OBVIOUS
  <2>2. PICK x \in I : TRUE
    OBVIOUS
  <2>3. n - x \in D
    OBVIOUS
  <2> QED
    BY <2>1, <2>3
<1>2. PICK d \in D : \A e \in D : d <= e
  BY <1>1, LeastNatural
<1>3. PICK x \in I : d = n - x
  BY <1>2
<1>4. \A y \in I : x >= y
  <2> TAKE y \in I
  <2>1. n - y \in D /\ y \in Int /\ x \in Int
    OBVIOUS
  <2>2. n - x <= n - y
    BY <1>2, <1>3, <2>1
  <2> QED
    BY <2>1, <2>2
<1> QED
  BY <1>4 DEF Max

\* The last index is the greatest.
LEMMA LastIsGreatest ==
    ASSUME NEW n \in Nat, NEW I \in SUBSET (1..n), n \in I
    PROVE  Max(I) = n
<1>1. Max(I) \in I /\ \A y \in I : Max(I) >= y
  BY GreatestIs
<1>2. Max(I) \in 1..n /\ Max(I) >= n
  BY <1>1
<1> HIDE DEF Max
<1> QED
  BY <1>2

\* There is such a function.
LEMMA SumsUpExist ==
    ASSUME NEW n \in Nat, NEW v \in [1..n -> Nat]
    PROVE  \E g : SumsUp(g, v, n)
<1> DEFINE T == {k \in Nat : k <= n => \E g : SumsUp(g, v, k)}
<1>1. 0 \in T
  <2> DEFINE g == [I \in SUBSET {} |-> 0]
  <2>1. 1..0 = {} /\ SUBSET {} = {{}}
    OBVIOUS
  <2>2. SumsUp(g, v, 0)
    BY <2>1 DEF SumsUp, SumStep
  <2> QED
    BY <2>2
<1>2. ASSUME NEW k \in Nat, k \in T PROVE k + 1 \in T
  <2> SUFFICES ASSUME k + 1 <= n PROVE \E g : SumsUp(g, v, k + 1)
    OBVIOUS
  <2>1. PICK g : SumsUp(g, v, k)
    BY <1>2
  <2> DEFINE h == [I \in SUBSET (1..(k + 1)) |->
                      IF k + 1 \in I THEN g[I \ {k + 1}] + v[k + 1] ELSE g[I]]
  <2>2. ASSUME NEW I \in SUBSET (1..(k + 1)), k + 1 \notin I PROVE h[I] = SumStep(h, v, I)
    <3>1. I \in SUBSET (1..k) /\ I \ {Max(I)} \in SUBSET (1..k)
      <4>1. \A x \in I : x \in 1..(k + 1) /\ x # k + 1
        BY <2>2
      <4>2. \A x \in I : x \in 1..k
        BY <4>1
      <4> QED
        BY <4>2
    <3>2. g[I] = SumStep(g, v, I)
      BY <2>1, <3>1 DEF SumsUp
    <3>3. h[I] = g[I]
      BY <2>2
    <3>4. k + 1 \notin I \ {Max(I)} /\ I \ {Max(I)} \in SUBSET (1..(k + 1))
      BY <2>2
    <3>5. h[I \ {Max(I)}] = g[I \ {Max(I)}]
      BY <3>4
    <3> HIDE DEF h
    <3> QED
      BY <3>2, <3>3, <3>5 DEF SumStep
  <2>3. ASSUME NEW I \in SUBSET (1..(k + 1)), k + 1 \in I PROVE h[I] = SumStep(h, v, I)
    <3>1. Max(I) = k + 1
      <4>1. k + 1 \in Nat
        OBVIOUS
      <4> QED
        BY <2>3, <4>1, LastIsGreatest
    <3>2. I \ {k + 1} \in SUBSET (1..(k + 1)) /\ k + 1 \notin I \ {k + 1}
      OBVIOUS
    <3>3. h[I \ {k + 1}] = g[I \ {k + 1}]
      BY <3>2
    <3>4. h[I] = g[I \ {k + 1}] + v[k + 1]
      BY <2>3
    <3> HIDE DEF h
    <3> QED
      BY <2>3, <3>1, <3>3, <3>4 DEF SumStep
  <2>4. h = [I \in SUBSET (1..(k + 1)) |-> h[I]]
    OBVIOUS
  <2> HIDE DEF h
  <2>5. \A I \in SUBSET (1..(k + 1)) : h[I] = SumStep(h, v, I)
    BY <2>2, <2>3
  <2>6. SumsUp(h, v, k + 1)
    BY <2>4, <2>5 DEF SumsUp
  <2> QED
    BY <2>6
<1> HIDE DEF T
<1>3. n \in T
  BY <1>1, <1>2, NaturalInduction
<1> QED
  BY <1>3 DEF T

\* The sum of values that are m, or at least m.
LEMMA SumBounds ==
    ASSUME NEW n \in Nat, NEW v \in [1..n -> Nat], NEW g, SumsUp(g, v, n), NEW m \in Nat
    PROVE  /\ (\A i \in 1..n : v[i] >= m) => g[1..n] \in Nat /\ g[1..n] >= n * m
           /\ (\A i \in 1..n : v[i] = m) => g[1..n] = n * m
<1> DEFINE LeastSum(k) == (\A i \in 1..n : v[i] >= m) => g[1..k] >= k * m
           EvenSum(k) == (\A i \in 1..n : v[i] = m) => g[1..k] = k * m
           T == {k \in Nat : k <= n => g[1..k] \in Nat /\ LeastSum(k) /\ EvenSum(k)}
<1>1. 0 \in T
  <2>1. 1..0 = {} /\ {} \in SUBSET (1..n)
    OBVIOUS
  <2>2. g[{}] = 0
    BY <2>1 DEF SumsUp, SumStep
  <2>3. 0 * m = 0
    OBVIOUS
  <2> QED
    BY <2>1, <2>2, <2>3
<1>2. ASSUME NEW k \in Nat, k \in T PROVE k + 1 \in T
  <2> SUFFICES ASSUME k + 1 <= n
               PROVE  g[1..(k + 1)] \in Nat /\ LeastSum(k + 1) /\ EvenSum(k + 1)
    OBVIOUS
  <2>1. g[1..k] \in Nat /\ LeastSum(k) /\ EvenSum(k)
    BY <1>2
  <2> DEFINE I == 1..(k + 1)
  <2>2. I \in SUBSET (1..n) /\ I # {} /\ k + 1 \in I
    <3>1. k + 1 \in I
      OBVIOUS
    <3>2. \A x \in I : x \in 1..n
      OBVIOUS
    <3> HIDE DEF I
    <3> QED
      BY <3>1, <3>2
  <2>3. Max(I) = k + 1
    <3>1. k + 1 \in Nat /\ I \in SUBSET (1..(k + 1))
      OBVIOUS
    <3> HIDE DEF I
    <3> QED
      BY <2>2, <3>1, LastIsGreatest
  <2>4. I \ {k + 1} = 1..k
    OBVIOUS
  <2>5. g[I] = g[1..k] + v[k + 1]
    <3>1. g[I] = SumStep(g, v, I)
      BY <2>2 DEF SumsUp
    <3> HIDE DEF I
    <3> QED
      BY <2>2, <2>3, <2>4, <3>1 DEF SumStep
  <2>6. v[k + 1] \in Nat /\ k + 1 \in 1..n
    OBVIOUS
  <2>7. (k + 1) * m = k * m + m /\ k * m \in Nat
    OBVIOUS
  <2> HIDE DEF I
  <2>8. g[I] \in Nat
    BY <2>1, <2>5, <2>6
  <2>9. (\A i \in 1..n : v[i] >= m) => g[I] >= (k + 1) * m
    BY <2>1, <2>5, <2>6, <2>7
  <2>10. (\A i \in 1..n : v[i] = m) => g[I] = (k + 1) * m
    BY <2>1, <2>5, <2>6, <2>7
  <2> QED
    BY <2>8, <2>9, <2>10 DEF I
<1> HIDE DEF T
<1>3. n \in T
  BY <1>1, <1>2, NaturalInduction
<1> QED
  BY <1>3 DEF T

Checkpoint == [files : Nat, errors : Nat, duration : Nat, passed : BOOLEAN]

\* Both rates of a checkpoint are numbers.
LEMMA RatesAreNumbers ==
    ASSUME NEW r \in Checkpoint
    PROVE  DurationPerFile(r) \in Nat /\ ErrorRate(r) \in Nat
<1>1. r.files \in Nat /\ r.errors \in Nat /\ r.duration \in Nat
  BY DEF Checkpoint
<1>2. CASE r.files = 0
  BY <1>2 DEF DurationPerFile, ErrorRate
<1>3. CASE r.files # 0
  <2>1. 100 * r.errors \in Nat /\ r.files > 0
    BY <1>1, <1>3
  <2>2. r.duration \div r.files \in Nat /\ (100 * r.errors) \div r.files \in Nat
    BY <1>1, <2>1
  <2> QED
    BY <1>3, <2>2 DEF DurationPerFile, ErrorRate
<1> QED
  BY <1>2, <1>3

\* The sum of the durations of some checkpoints.
LEMMA DurationsBetween ==
    ASSUME NEW s \in Seq(Checkpoint), NEW m \in Nat
    PROVE  /\ (\A i \in 1..Len(s) : DurationPerFile(s[i]) >= m) =>
                  TotalDuration(s) \in Nat /\ TotalDuration(s) >= Len(s) * m
           /\ (\A i \in 1..Len(s) : DurationPerFile(s[i]) = m) =>
                  TotalDuration(s) = Len(s) * m
<1> DEFINE n == Len(s)
           v == [i \in 1..n |-> DurationPerFile(s[i])]
           Body(g) == [I \in SUBSET (DOMAIN s) |->
                          IF I = {} THEN 0
                          ELSE LET i == Max(I) IN g[I \ {i}] + DurationPerFile(s[i])]
           G == CHOOSE g : g = Body(g)
<1>1. n \in Nat /\ DOMAIN s = 1..n /\ v \in [1..n -> Nat]
  BY RatesAreNumbers
<1>2. TotalDuration(s) = G[DOMAIN s]
  BY DEF TotalDuration, FoldLeft, MapThenFoldSet
<1>3. ASSUME NEW g PROVE Body(g) = [I \in SUBSET (1..n) |-> SumStep(g, v, I)]
  <2>1. \A I \in SUBSET (1..n) :
            SumStep(g, v, I) = IF I = {} THEN 0
                               ELSE g[I \ {Max(I)}] + DurationPerFile(s[Max(I)])
    <3> TAKE I \in SUBSET (1..n)
    <3>1. CASE I = {}
      BY <3>1 DEF SumStep
    <3>2. CASE I # {}
      <4>1. Max(I) \in 1..n
        BY <1>1, <3>2, GreatestIs
      <4>2. v[Max(I)] = DurationPerFile(s[Max(I)])
        BY <4>1
      <4> HIDE DEF v
      <4> QED
        BY <3>2, <4>2 DEF SumStep
    <3> QED
      BY <3>1, <3>2
  <2> HIDE DEF v
  <2> QED
    BY <1>1, <2>1
<1>4. G = Body(G)
  <2>1. PICK g : SumsUp(g, v, n)
    BY <1>1, SumsUpExist
  <2>2. g = Body(g)
    BY <1>3, <2>1 DEF SumsUp
  <2> HIDE DEF Body
  <2> QED
    BY <2>2
<1> HIDE DEF Body, G
<1>5. SumsUp(G, v, n)
  BY <1>3, <1>4 DEF SumsUp
<1>6. \A i \in 1..n : v[i] = DurationPerFile(s[i])
  OBVIOUS
<1>7. TotalDuration(s) = G[1..n]
  BY <1>1, <1>2
<1> HIDE DEF v, n
<1>8. /\ (\A i \in 1..n : v[i] >= m) => G[1..n] \in Nat /\ G[1..n] >= n * m
      /\ (\A i \in 1..n : v[i] = m) => G[1..n] = n * m
  BY <1>1, <1>5, SumBounds, ZenonT(60)
<1>9. /\ (\A i \in 1..n : DurationPerFile(s[i]) >= m) =>
             TotalDuration(s) \in Nat /\ TotalDuration(s) >= n * m
      /\ (\A i \in 1..n : DurationPerFile(s[i]) = m) => TotalDuration(s) = n * m
  BY <1>6, <1>7, <1>8
<1> QED
  BY <1>9 DEF n

\* The sum of the error rates of checkpoints without errors.
LEMMA ErrorsNone ==
    ASSUME NEW s \in Seq(Checkpoint), \A i \in 1..Len(s) : ErrorRate(s[i]) = 0
    PROVE  TotalErrors(s) = 0
<1> DEFINE n == Len(s)
           v == [i \in 1..n |-> 0]
           Body(g) == [I \in SUBSET (DOMAIN s) |->
                          IF I = {} THEN 0
                          ELSE LET i == Max(I) IN g[I \ {i}] + ErrorRate(s[i])]
           G == CHOOSE g : g = Body(g)
<1>1. n \in Nat /\ DOMAIN s = 1..n /\ v \in [1..n -> Nat]
  OBVIOUS
<1>2. TotalErrors(s) = G[DOMAIN s]
  BY DEF TotalErrors, FoldLeft, MapThenFoldSet
<1>3. ASSUME NEW g PROVE Body(g) = [I \in SUBSET (1..n) |-> SumStep(g, v, I)]
  <2>1. \A I \in SUBSET (1..n) :
            SumStep(g, v, I) = IF I = {} THEN 0 ELSE g[I \ {Max(I)}] + ErrorRate(s[Max(I)])
    <3> TAKE I \in SUBSET (1..n)
    <3>1. CASE I = {}
      BY <3>1 DEF SumStep
    <3>2. CASE I # {}
      <4>1. Max(I) \in 1..n
        BY <1>1, <3>2, GreatestIs
      <4>2. v[Max(I)] = ErrorRate(s[Max(I)])
        BY <4>1
      <4> HIDE DEF v
      <4> QED
        BY <3>2, <4>2 DEF SumStep
    <3> QED
      BY <3>1, <3>2
  <2> HIDE DEF v
  <2> QED
    BY <1>1, <2>1
<1>4. G = Body(G)
  <2>1. PICK g : SumsUp(g, v, n)
    BY <1>1, SumsUpExist
  <2>2. g = Body(g)
    BY <1>3, <2>1 DEF SumsUp
  <2> HIDE DEF Body
  <2> QED
    BY <2>2
<1> HIDE DEF Body, G
<1>5. SumsUp(G, v, n)
  BY <1>3, <1>4 DEF SumsUp
<1>6. \A i \in 1..n : v[i] = 0
  OBVIOUS
<1> HIDE DEF v
<1>7. G[1..n] = n * 0
  BY <1>1, <1>5, <1>6, SumBounds, SMTT(60)
<1>8. n * 0 = 0
  BY <1>1
<1> QED
  BY <1>1, <1>2, <1>7, <1>8


\* The clean checkpoint is as fast as any, and without an error.
LEMMA CleanIs ==
    ASSUME NEW s \in Seq(Checkpoint), s # <<>>
    PROVE  LET c == CleanAfter(s)
           IN  /\ c \in Checkpoint /\ c.passed = TRUE /\ ErrorRate(c) = 0
               /\ \A i \in 1..Len(s) : DurationPerFile(s[i]) >= DurationPerFile(c)
<1> DEFINE D == {DurationPerFile(s[i]) : i \in DOMAIN s}
           fastest == Min(D)
           c == [files |-> 1, errors |-> 0, duration |-> fastest, passed |-> TRUE]
<1>1. \A i \in 1..Len(s) : DurationPerFile(s[i]) \in Nat
  BY RatesAreNumbers
<1>2. DOMAIN s = 1..Len(s) /\ 1 \in 1..Len(s)
  OBVIOUS
<1>3. D \subseteq Nat /\ D # {}
  <2>1. DurationPerFile(s[1]) \in D
    BY <1>2
  <2> QED
    BY <1>1, <1>2, <2>1
<1>4. PICK d \in D : \A e \in D : d <= e
  BY <1>3, LeastNatural
<1>5. fastest \in D /\ \A e \in D : fastest <= e
  <2> HIDE DEF D
  <2> QED
    BY <1>4 DEF Min
<1>6. fastest \in Nat
  BY <1>3, <1>5
<1>7. \A i \in 1..Len(s) : DurationPerFile(s[i]) >= fastest
  <2> TAKE i \in 1..Len(s)
  <2>1. DurationPerFile(s[i]) \in D
    BY <1>2
  <2> HIDE DEF D, fastest
  <2> QED
    BY <1>1, <1>5, <1>6, <2>1
<1> HIDE DEF fastest
<1>8. c.files = 1 /\ c.errors = 0 /\ c.duration = fastest /\ c.passed = TRUE
  OBVIOUS
<1>9. c \in Checkpoint
  BY <1>6 DEF Checkpoint
<1>10. DurationPerFile(c) = fastest /\ ErrorRate(c) = 0
  <2>1. fastest \div 1 = fastest /\ (100 * 0) \div 1 = 0
    BY <1>6
  <2> HIDE DEF c
  <2> QED
    BY <1>8, <2>1 DEF DurationPerFile, ErrorRate
<1>11. CleanAfter(s) = c
  BY DEF CleanAfter, fastest
<1> HIDE DEF c
<1> QED
  BY <1>7, <1>8, <1>9, <1>10, <1>11

\* The records of a backend and as many clean checkpoints after them: the older
\* half are the records, the newer half is clean.
LEMMA RecoveryHalves ==
    ASSUME NEW s \in Seq(Checkpoint), NEW c \in Checkpoint
    PROVE  LET n == Len(s)
               clean == [i \in 1..n |-> c]
               all == s \o clean
           IN  /\ clean \in Seq(Checkpoint) /\ Len(clean) = n
               /\ all \in Seq(Checkpoint) /\ Len(all) = 2 * n
               /\ \A i \in (n + 1)..(2 * n) : all[i] = c
               /\ Older(all) = s /\ Newer(all) = clean
<1> DEFINE n == Len(s)
           clean == [i \in 1..n |-> c]
           all == s \o clean
<1>1. n \in Nat
  OBVIOUS
<1>2. clean \in Seq(Checkpoint) /\ Len(clean) = n
  BY <1>1
<1>3. \A i \in 1..n : clean[i] = c
  OBVIOUS
<1> HIDE DEF clean
<1>4. all \in Seq(Checkpoint) /\ Len(all) = n + n
  BY <1>2, ConcatProperties
<1>5. \A i \in 1..n : all[i] = s[i]
  BY <1>2, ConcatProperties
<1>6. \A i \in 1..n : all[n + i] = clean[i]
  <2> TAKE i \in 1..n
  <2>1. n + i \in (n + 1)..(n + n) /\ (n + i) - n = i
    BY <1>1
  <2> QED
    BY <1>2, <2>1, ConcatProperties
<1> HIDE DEF all
<1>7. Len(all) = 2 * n /\ Len(all) \div 2 = n
  BY <1>1, <1>4
<1>8. Older(all) = s
  <2>1. Older(all) = SubSeq(all, 1, n)
    BY <1>7 DEF Older
  <2>2. /\ SubSeq(all, 1, n) \in Seq(Checkpoint) /\ Len(SubSeq(all, 1, n)) = n
        /\ \A i \in 1..n : SubSeq(all, 1, n)[i] = all[i]
    BY <1>1, <1>4
  <2>3. \A i \in 1..n : SubSeq(all, 1, n)[i] = s[i]
    BY <1>5, <2>2
  <2> QED
    BY <2>1, <2>2, <2>3, SeqEqual
<1>9. Newer(all) = clean
  <2>1. Newer(all) = SubSeq(all, n + 1, 2 * n)
    BY <1>7 DEF Newer
  <2>2. /\ SubSeq(all, n + 1, 2 * n) \in Seq(Checkpoint)
        /\ Len(SubSeq(all, n + 1, 2 * n)) = n
        /\ \A i \in 1..n : SubSeq(all, n + 1, 2 * n)[i] = all[n + i]
    BY <1>1, <1>4, <1>7
  <2>3. \A i \in 1..n : SubSeq(all, n + 1, 2 * n)[i] = clean[i]
    BY <1>6, <2>2
  <2> QED
    BY <1>2, <2>1, <2>2, <2>3, SeqEqual
<1>10. \A i \in (n + 1)..(2 * n) : all[i] = c
  <2> TAKE i \in (n + 1)..(2 * n)
  <2>1. i - n \in 1..n /\ n + (i - n) = i
    BY <1>1
  <2> QED
    BY <1>3, <1>6, <2>1
<1> QED
  BY <1>2, <1>4, <1>7, <1>8, <1>9, <1>10 DEF clean, all

\* The records and as many clean and fast checkpoints after them carry no risk.
LEMMA CleanHalfIsLow ==
    ASSUME NEW s \in Seq(Checkpoint), s # <<>>
    PROVE  Risk(s \o [i \in 1..Len(s) |-> CleanAfter(s)]) = 0
<1> DEFINE c == CleanAfter(s)
           n == Len(s)
           clean == [i \in 1..n |-> c]
           all == s \o clean
           m == DurationPerFile(c)
<1>1. /\ c \in Checkpoint /\ c.passed = TRUE /\ ErrorRate(c) = 0
      /\ \A i \in 1..n : DurationPerFile(s[i]) >= m
  BY CleanIs
<1>2. n \in Nat /\ n > 0
  OBVIOUS
<1>3. m \in Nat
  BY <1>1, RatesAreNumbers
<1> HIDE DEF c, m
<1>4. /\ clean \in Seq(Checkpoint) /\ Len(clean) = n
      /\ all \in Seq(Checkpoint) /\ Len(all) = 2 * n
      /\ \A i \in (n + 1)..(2 * n) : all[i] = c
      /\ Older(all) = s /\ Newer(all) = clean
  BY <1>1, RecoveryHalves
<1>5. \A i \in 1..n : clean[i] = c
  OBVIOUS
<1> HIDE DEF clean
<1>6. TotalDuration(s) \in Nat /\ TotalDuration(s) >= n * m
  BY <1>1, <1>3, DurationsBetween
<1>7. TotalDuration(clean) = n * m
  <2>1. \A i \in 1..Len(clean) : DurationPerFile(clean[i]) = m
    BY <1>4, <1>5 DEF m
  <2> QED
    BY <1>3, <1>4, <2>1, DurationsBetween
<1>8. TotalErrors(clean) = 0
  <2>1. \A i \in 1..Len(clean) : ErrorRate(clean[i]) = 0
    BY <1>1, <1>4, <1>5
  <2> QED
    BY <1>4, <2>1, ErrorsNone
<1> HIDE DEF all
<1>9. ASSUME NEW percent \in Nat PROVE ~GrewBy(all, percent)
  <2> DEFINE d == TotalDuration(s)
             e == TotalDuration(clean)
             old == d * n
             new == e * n
  <2>1. d \in Nat /\ e \in Nat /\ e <= d
    <3>1. n * m \in Nat
      BY <1>2, <1>3
    <3> QED
      BY <1>6, <1>7, <3>1
  <2> HIDE DEF d, e
  <2>2. old \in Nat /\ new \in Nat /\ new <= old
    BY <1>2, <2>1
  <2>3. GrewBy(all, percent) <=> old > 0 /\ 100 * (new - old) > percent * old
    BY <1>4 DEF GrewBy, d, e, n
  <2> HIDE DEF old, new, n
  <2>4. percent * old \in Nat
    BY <2>2
  <2>5. 100 * (new - old) <= 0
    BY <2>2
  <2> QED
    BY <2>2, <2>3, <2>4, <2>5
<1>10. ASSUME NEW percent \in Nat PROVE ~ErrorsAbove(all, percent)
  <2>1. ErrorsAbove(all, percent) <=> 0 > percent * n
    BY <1>4, <1>8 DEF ErrorsAbove
  <2>2. percent * n \in Nat
    BY <1>2
  <2> QED
    BY <2>1, <2>2
<1>11. ConsecutiveFailures(all) = 0
  <2> DEFINE F == {k \in 0..(2 * n) :
                      \A i \in ((2 * n) - k + 1)..(2 * n) : ~all[i].passed}
  <2>1. ConsecutiveFailures(all) = Max(F)
    BY <1>4 DEF ConsecutiveFailures
  <2>2. 2 * n \in (n + 1)..(2 * n) /\ all[2 * n].passed = TRUE
    BY <1>1, <1>2, <1>4
  <2>3. \A k \in F : k = 0
    <3> SUFFICES ASSUME NEW k \in F, k # 0 PROVE FALSE
      OBVIOUS
    <3>1. k \in 0..(2 * n) /\ k >= 1
      OBVIOUS
    <3>2. 2 * n \in ((2 * n) - k + 1)..(2 * n)
      BY <1>2, <3>1
    <3> QED
      BY <2>2, <3>2
  <2>4. 0 \in F
    <3>1. 0 \in 0..(2 * n) /\ ((2 * n) - 0 + 1)..(2 * n) = {}
      BY <1>2
    <3> QED
      BY <3>1
  <2>5. F = {0}
    <3> HIDE DEF F
    <3> QED
      BY <2>3, <2>4
  <2> HIDE DEF F
  <2>6. Max({0}) = 0
    BY DEF Max
  <2> QED
    BY <2>1, <2>5, <2>6
<1>12. DurationRisk(all) = 0 /\ ErrorRisk(all) = 0
  BY <1>9, <1>10, AnomalyAssumption DEF DurationRisk, ErrorRisk
<1>13. FailureRisk(all) = 0
  <2>1. ~(0 >= CriticalFailures)
    BY AnomalyAssumption
  <2> QED
    BY <1>11, <2>1 DEF FailureRisk
<1>14. Max({0, 0, 0}) = 0
  BY DEF Max
<1>15. Risk(all) = 0
  BY <1>12, <1>13, <1>14 DEF Risk
<1> QED
  BY <1>15 DEF all, clean, c, n

\* What is recorded are checkpoints.
LEMMA CheckpointsStay ==
    checkpoints \in Seq(Checkpoint) /\ [AnomalyNext]_<<clockVars, anomalyVars>>
        => (checkpoints \in Seq(Checkpoint))'
<1> SUFFICES ASSUME checkpoints \in Seq(Checkpoint), [AnomalyNext]_<<clockVars, anomalyVars>>
             PROVE  checkpoints' \in Seq(Checkpoint)
  OBVIOUS
<1>1. ASSUME NEW r \in CheckpointKinds, RecordCheckpoint(r)
      PROVE  checkpoints' \in Seq(Checkpoint)
  <2>1. r \in Checkpoint
    BY AnomalyAssumption DEF Checkpoint
  <2> QED
    BY <1>1, <2>1 DEF RecordCheckpoint
<1>2. ASSUME UNCHANGED checkpoints PROVE checkpoints' \in Seq(Checkpoint)
  BY <1>2
<1> QED
  BY <1>1, <1>2 DEF AnomalyNext, Assess, anomalyVars

\* A backend recovers: as many clean and fast checkpoints as it had bring the risk
\* that assess computes back to low, for any records and thresholds.
THEOREM BackendsRecover == AnomalySpec => []BackendRecovers
<1>1. AnomalyInit => checkpoints \in Seq(Checkpoint)
  BY DEF AnomalyInit
<1>2. checkpoints \in Seq(Checkpoint) => BackendRecovers
  <2> SUFFICES ASSUME checkpoints \in Seq(Checkpoint), NEW n \in 1..Len(checkpoints)
               PROVE  LET before == SubSeq(checkpoints, 1, n)
                      IN  Risk(before \o [i \in 1..n |-> CleanAfter(before)]) = 0
    BY DEF BackendRecovers
  <2> DEFINE before == SubSeq(checkpoints, 1, n)
  <2>1. before \in Seq(Checkpoint) /\ Len(before) = n
    OBVIOUS
  <2> HIDE DEF before
  <2>2. before # <<>>
    BY <2>1
  <2>3. Risk(before \o [i \in 1..n |-> CleanAfter(before)]) = 0
    BY <2>1, <2>2, CleanHalfIsLow
  <2> QED
    BY <2>3 DEF before
<1> QED
  BY <1>1, <1>2, CheckpointsStay, PTL DEF AnomalySpec


-----------------------------------------------------------------------------
(* Chunking.  The hash of a scan is a recursive function of the position,  *)
(* the cuts of a file one of the start of a chunk.                         *)

\* The hash at i, from the hash x before it.
HashStep(data, initEnd, i, x) ==
    IF i <= initEnd THEN (2 * x + data[i]) % HashRange
    ELSE (2 * (x - data[i - HashWindow]) + data[i]) % HashRange

ScanStart(start) == start + MinChunk
ScanEnd(data, start) == Lesser(start + MaxChunk, Len(data))
InitEnd(data, start) == Lesser(ScanStart(start) + HashWindow, ScanEnd(data, start))

\* h are the hashes of a scan.
Hashes(h, data, start) ==
    h = [i \in ScanStart(start)..ScanEnd(data, start) |->
            IF i = ScanStart(start) THEN 0
            ELSE HashStep(data, InitEnd(data, start), i, h[i - 1])]

HashOf(data, start) == CHOOSE h : Hashes(h, data, start)

CutsOf(data, start) ==
    {i \in InitEnd(data, start)..ScanEnd(data, start) :
        HashOf(data, start)[i] % (Mask + 1) = Mask}

\* find_boundary in these terms.
LEMMA BoundaryIs ==
    ASSUME NEW data, NEW start
    PROVE  find_boundary(data, start) =
               IF Len(data) - start <= MinChunk THEN Len(data)
               ELSE IF CutsOf(data, start) = {} THEN ScanEnd(data, start)
                    ELSE Min(CutsOf(data, start))
BY DEF find_boundary, CutsOf, HashOf, Hashes, HashStep, ScanStart, ScanEnd, InitEnd

\* What a scan covers.
LEMMA ScanIs ==
    ASSUME NEW n \in Nat, NEW data, Len(data) = n, NEW start \in 0..n, n - start > MinChunk
    PROVE  LET S == ScanStart(start)
               E == ScanEnd(data, start)
               I == InitEnd(data, start)
           IN  /\ S \in Nat /\ E \in Nat /\ I \in Nat
               /\ S <= E /\ S <= I /\ I <= E /\ E <= n
               /\ start < I /\ (I < E => I = S + HashWindow)
BY ChunkerAssumption DEF ScanStart, ScanEnd, InitEnd, Lesser

\* There are such hashes.
LEMMA HashesExist ==
    ASSUME NEW data, Len(data) \in Nat, NEW start \in 0..Len(data),
           Len(data) - start > MinChunk
    PROVE  Hashes(HashOf(data, start), data, start)
<1> DEFINE S == ScanStart(start)
           E == ScanEnd(data, start)
           I == InitEnd(data, start)
           Upto(h, e) == h = [i \in S..e |-> IF i = S THEN 0
                                             ELSE HashStep(data, I, i, h[i - 1])]
           T == {k \in Nat : \E h : Upto(h, S + k)}
<1>1. S \in Nat /\ E \in Nat /\ S <= E
  BY ScanIs
<1> HIDE DEF S, E, I
<1>2. 0 \in T
  <2> DEFINE h == [i \in S..(S + 0) |-> 0]
  <2>1. \A i \in S..(S + 0) : i = S
    BY <1>1
  <2>2. Upto(h, S + 0)
    BY <2>1
  <2> QED
    BY <2>2
<1>3. ASSUME NEW k \in Nat, k \in T PROVE k + 1 \in T
  <2>1. PICK h : Upto(h, S + k)
    BY <1>3
  <2> DEFINE e == S + (k + 1)
             g == [i \in S..e |-> IF i = e THEN HashStep(data, I, e, h[e - 1]) ELSE h[i]]
  <2>2. e \in S..e /\ e # S /\ e - 1 \in S..(S + k) /\ e - 1 \in S..e /\ e - 1 # e
    BY <1>1
  <2>3. ASSUME NEW i \in S..e
        PROVE  g[i] = IF i = S THEN 0 ELSE HashStep(data, I, i, g[i - 1])
    <3>1. CASE i = e
      <4>1. g[e] = HashStep(data, I, e, h[e - 1]) /\ g[e - 1] = h[e - 1]
        BY <2>2
      <4> HIDE DEF g, e
      <4> QED
        BY <2>2, <3>1, <4>1
    <3>2. CASE i # e
      <4>1. i \in S..(S + k) /\ g[i] = h[i]
        BY <1>1, <3>2
      <4>2. h[i] = IF i = S THEN 0 ELSE HashStep(data, I, i, h[i - 1])
        BY <2>1, <4>1
      <4>3. i # S => i - 1 \in S..e /\ i - 1 # e
        BY <1>1, <4>1
      <4>4. i # S => g[i - 1] = h[i - 1]
        BY <4>3
      <4> HIDE DEF g, e
      <4> QED
        BY <4>1, <4>2, <4>4
    <3> QED
      BY <3>1, <3>2
  <2>4. g = [i \in S..e |-> g[i]]
    OBVIOUS
  <2> HIDE DEF g
  <2>5. Upto(g, S + (k + 1))
    BY <2>3, <2>4
  <2> HIDE DEF Upto
  <2>6. \E x : Upto(x, S + (k + 1))
    BY <2>5
  <2> QED
    BY <2>6
<1> HIDE DEF T
<1>4. E - S \in T
  BY <1>1, <1>2, <1>3, NaturalInduction
<1>5. PICK h : Upto(h, E)
  <2>1. S + (E - S) = E
    BY <1>1
  <2> QED
    BY <1>4, <2>1 DEF T
<1>6. Hashes(h, data, start)
  BY <1>5 DEF Hashes, S, E, I
<1> QED
  BY <1>6 DEF HashOf

\* Two files with the same bytes behind i and j.
SameTail(d, i, e, j) ==
    /\ i \in 0..Len(d) /\ j \in 0..Len(e)
    /\ Len(d) - i = Len(e) - j
    /\ \A k \in 1..(Len(d) - i) : d[i + k] = e[j + k]

\* The scans of such files from there run alike.
LEMMA ScansAlike ==
    ASSUME NEW d, Len(d) \in Nat, NEW e, Len(e) \in Nat, NEW i, NEW j,
           SameTail(d, i, e, j), Len(d) - i > MinChunk
    PROVE  /\ ScanStart(i) - i = ScanStart(j) - j
           /\ ScanEnd(d, i) - i = ScanEnd(e, j) - j
           /\ InitEnd(d, i) - i = InitEnd(e, j) - j
BY ChunkerAssumption DEF SameTail, ScanStart, ScanEnd, InitEnd, Lesser

\* So do their hashes.
LEMMA HashesAlike ==
    ASSUME NEW d, Len(d) \in Nat, NEW e, Len(e) \in Nat, NEW i, NEW j,
           SameTail(d, i, e, j), Len(d) - i > MinChunk,
           NEW p \in ScanStart(i)..ScanEnd(d, i)
    PROVE  HashOf(d, i)[p] = HashOf(e, j)[(p - i) + j]
<1> DEFINE S == ScanStart(i)
           E == ScanEnd(d, i)
           I == InitEnd(d, i)
           G == HashOf(d, i)
           H == HashOf(e, j)
           Sj == ScanStart(j)
           Ej == ScanEnd(e, j)
           Ij == InitEnd(e, j)
           T == {k \in Nat : S + k <= E => G[S + k] = H[Sj + k]}
<1>1. /\ i \in 0..Len(d) /\ j \in 0..Len(e) /\ Len(d) - i = Len(e) - j
      /\ Len(e) - j > MinChunk
      /\ \A k \in 1..(Len(d) - i) : d[i + k] = e[j + k]
  BY DEF SameTail
<1>2. Hashes(G, d, i) /\ Hashes(H, e, j)
  BY <1>1, HashesExist
<1>3. /\ S \in Nat /\ E \in Nat /\ I \in Nat
      /\ S <= E /\ S <= I /\ I <= E /\ E <= Len(d)
      /\ i < I /\ (I < E => I = S + HashWindow)
  BY <1>1, ScanIs
<1>4. /\ Sj \in Nat /\ Ej \in Nat /\ Ij \in Nat
      /\ Sj <= Ej /\ Sj <= Ij /\ Ij <= Ej /\ Ej <= Len(e)
      /\ j < Ij /\ (Ij < Ej => Ij = Sj + HashWindow)
  BY <1>1, ScanIs
<1>5. S - i = Sj - j /\ E - i = Ej - j /\ I - i = Ij - j
  BY ScansAlike
<1>6. S >= i
  BY <1>1, ChunkerAssumption DEF ScanStart
<1>7. /\ G = [x \in S..E |-> IF x = S THEN 0 ELSE HashStep(d, I, x, G[x - 1])]
      /\ H = [x \in Sj..Ej |-> IF x = Sj THEN 0 ELSE HashStep(e, Ij, x, H[x - 1])]
  BY <1>2 DEF Hashes
<1> HIDE DEF S, E, I, Sj, Ej, Ij, G, H
<1>8. 0 \in T
  BY <1>3, <1>4, <1>7
<1>9. ASSUME NEW k \in Nat, k \in T PROVE k + 1 \in T
  <2> SUFFICES ASSUME S + (k + 1) <= E PROVE G[S + (k + 1)] = H[Sj + (k + 1)]
    OBVIOUS
  <2> DEFINE x == S + (k + 1)
             y == Sj + (k + 1)
  <2>1. G[S + k] = H[Sj + k]
    BY <1>3, <1>9
  <2>2. /\ x \in S..E /\ x # S /\ x - 1 = S + k
        /\ y \in Sj..Ej /\ y # Sj /\ y - 1 = Sj + k
    BY <1>1, <1>3, <1>4, <1>5
  <2>3. x - i = y - j /\ x - i \in 1..(Len(d) - i) /\ x \in Nat /\ y \in Nat
    BY <1>1, <1>3, <1>4, <1>5, <1>6
  <2>4. G[x] = HashStep(d, I, x, G[x - 1]) /\ H[y] = HashStep(e, Ij, y, H[y - 1])
    BY <1>7, <2>2
  <2>5. x <= I <=> y <= Ij
    BY <1>1, <1>3, <1>4, <1>5, <2>3
  <2> HIDE DEF x, y
  <2>6. d[x] = e[y]
    <3>1. i + (x - i) = x /\ j + (x - i) = y
      BY <1>1, <2>3
    <3> QED
      BY <1>1, <2>3, <3>1
  <2>7. ~(x <= I) => d[x - HashWindow] = e[y - HashWindow]
    <3> SUFFICES ASSUME ~(x <= I) PROVE d[x - HashWindow] = e[y - HashWindow]
      OBVIOUS
    <3>1. HashWindow \in Nat \ {0}
      BY ChunkerAssumption
    <3>2. I < E /\ x <= E
      BY <1>3, <2>2, <2>3
    <3>3. x - HashWindow > S
      BY <1>3, <2>3, <3>1, <3>2
    <3> DEFINE m == (x - HashWindow) - i
    <3>4. m \in 1..(Len(d) - i)
      BY <1>1, <1>3, <1>6, <2>3, <3>1, <3>3
    <3>5. i + m = x - HashWindow /\ j + m = y - HashWindow
      BY <1>1, <2>3, <3>1
    <3> HIDE DEF m
    <3> QED
      BY <1>1, <3>4, <3>5
  <2>8. G[x - 1] = H[y - 1]
    BY <2>1, <2>2
  <2>9. HashStep(d, I, x, G[x - 1]) = HashStep(e, Ij, y, H[y - 1])
    BY <2>5, <2>6, <2>7, <2>8 DEF HashStep
  <2> QED
    BY <2>4, <2>9 DEF x, y
<1> HIDE DEF T
<1>10. p \in Nat /\ p >= S /\ p <= E
  BY <1>3 DEF S, E
<1>11. p - S \in T
  BY <1>3, <1>8, <1>9, <1>10, NaturalInduction
<1>12. S + (p - S) = p /\ Sj + (p - S) = (p - i) + j
  <2>1. i \in Int /\ j \in Int /\ S \in Int /\ Sj \in Int /\ p \in Int
    BY <1>1, <1>3, <1>4, <1>10
  <2>2. S - i = Sj - j
    BY <1>5
  <2> QED
    BY <2>1, <2>2
<1>13. G[p] = H[(p - i) + j]
  BY <1>10, <1>11, <1>12 DEF T
<1> QED
  BY <1>13 DEF G, H


\* A chunk ends behind its start and not behind the file.
LEMMA BoundaryAhead ==
    ASSUME NEW data, Len(data) \in Nat, NEW start \in 0..(Len(data) - 1)
    PROVE  find_boundary(data, start) \in (start + 1)..Len(data)
<1> DEFINE n == Len(data)
           C == CutsOf(data, start)
<1>1. n \in Nat /\ start \in 0..n /\ start < n
  OBVIOUS
<1>2. CASE n - start <= MinChunk
  BY <1>1, <1>2, BoundaryIs
<1>3. CASE n - start > MinChunk
  <2> DEFINE E == ScanEnd(data, start)
             I == InitEnd(data, start)
  <2>1. E \in Nat /\ I \in Nat /\ start < I /\ I <= E /\ E <= n
    BY <1>1, <1>3, ScanIs
  <2>2. MinChunk \in Nat
    BY ChunkerAssumption
  <2>3. find_boundary(data, start) = IF C = {} THEN E ELSE Min(C)
    BY <1>1, <1>3, <2>2, BoundaryIs
  <2>4. C \subseteq I..E
    BY DEF CutsOf
  <2> HIDE DEF C, I, E
  <2>5. ASSUME C # {} PROVE Min(C) \in C
    <3>1. C \subseteq Nat
      BY <2>1, <2>4
    <3>2. PICK x \in C : \A y \in C : x <= y
      BY <2>5, <3>1, LeastNatural
    <3> QED
      BY <3>2 DEF Min
  <2>6. find_boundary(data, start) \in I..E
    <3>1. CASE C = {}
      BY <2>1, <2>3, <3>1
    <3>2. CASE C # {}
      <4>1. Min(C) \in I..E
        BY <2>4, <2>5, <3>2
      <4> QED
        BY <2>3, <3>2, <4>1
    <3> QED
      BY <3>1, <3>2
  <2> QED
    BY <1>1, <2>1, <2>6
<1>4. MinChunk \in Nat
  BY ChunkerAssumption
<1> QED
  BY <1>1, <1>2, <1>3, <1>4

\* Files with the same bytes behind i and j have their next cut at the same place.
LEMMA BoundaryAlike ==
    ASSUME NEW d, Len(d) \in Nat, NEW e, Len(e) \in Nat, NEW i, NEW j,
           SameTail(d, i, e, j), i < Len(d)
    PROVE  find_boundary(d, i) - i = find_boundary(e, j) - j
<1> DEFINE n == Len(d)
           m == Len(e)
           C == CutsOf(d, i)
           D == CutsOf(e, j)
<1>1. i \in 0..n /\ j \in 0..m /\ n - i = m - j /\ n \in Nat /\ m \in Nat
  BY DEF SameTail
<1>2. MinChunk \in Nat
  BY ChunkerAssumption
<1>3. CASE n - i <= MinChunk
  <2>1. find_boundary(d, i) = n /\ find_boundary(e, j) = m
    BY <1>1, <1>3, BoundaryIs
  <2> QED
    BY <1>1, <2>1
<1>4. CASE n - i > MinChunk
  <2> DEFINE S == ScanStart(i)
             E == ScanEnd(d, i)
             I == InitEnd(d, i)
             Ej == ScanEnd(e, j)
             Ij == InitEnd(e, j)
  <2>1. /\ S \in Nat /\ E \in Nat /\ I \in Nat /\ S <= I /\ I <= E /\ E <= n
    BY <1>1, <1>4, ScanIs
  <2>2. Ej \in Nat /\ Ij \in Nat
    BY <1>1, <1>4, ScanIs
  <2>3. E - i = Ej - j /\ I - i = Ij - j
    BY <1>4, ScansAlike
  <2>4. /\ find_boundary(d, i) = IF C = {} THEN E ELSE Min(C)
        /\ find_boundary(e, j) = IF D = {} THEN Ej ELSE Min(D)
    BY <1>1, <1>2, <1>4, BoundaryIs
  <2>5. /\ C = {p \in I..E : HashOf(d, i)[p] % (Mask + 1) = Mask}
        /\ D = {q \in Ij..Ej : HashOf(e, j)[q] % (Mask + 1) = Mask}
    BY DEF CutsOf
  <2>6. \A p \in S..E : HashOf(d, i)[p] = HashOf(e, j)[(p - i) + j]
    BY <1>4, HashesAlike
  <2> HIDE DEF C, D, S, E, I, Ij, Ej
  <2>7. ASSUME NEW p \in Int PROVE p \in C <=> (p - i) + j \in D
    <3>1. p \in I..E <=> (p - i) + j \in Ij..Ej
      BY <1>1, <2>1, <2>2, <2>3
    <3>2. p \in I..E => p \in S..E
      BY <2>1
    <3> QED
      BY <2>5, <2>6, <3>1, <3>2
  <2>8. C \subseteq Nat /\ D \subseteq Nat
    BY <2>1, <2>2, <2>5
  <2>9. ASSUME NEW q \in D PROVE (q - j) + i \in C
    <3>1. q \in Int /\ (q - j) + i \in Int /\ (((q - j) + i) - i) + j = q
      BY <1>1, <2>8
    <3> QED
      BY <2>7, <3>1
  <2>10. CASE C = {}
    <3>1. D = {}
      BY <2>9, <2>10
    <3> QED
      BY <1>1, <2>1, <2>2, <2>3, <2>4, <2>10, <3>1
  <2>11. CASE C # {}
    <3>1. PICK p \in C : \A x \in C : p <= x
      BY <2>8, <2>11, LeastNatural
    <3> DEFINE q == (p - i) + j
    <3>2. q \in D /\ q \in Nat /\ p \in Nat
      <4>1. p \in Nat
        BY <2>8
      <4>2. q \in D
        BY <2>7, <4>1
      <4> QED
        BY <2>8, <4>1, <4>2
    <3>3. ASSUME NEW y \in D PROVE q <= y
      <4>1. (y - j) + i \in C /\ y \in Nat
        BY <2>8, <2>9
      <4>2. p <= (y - j) + i
        BY <3>1, <4>1
      <4> QED
        BY <1>1, <3>2, <4>1, <4>2
    <3> HIDE DEF q
    <3>4. Min(C) = p
      BY <2>8, <3>1, LeastIs DEF Min
    <3>5. Min(D) = q
      BY <2>8, <3>2, <3>3, LeastIs DEF Min
    <3>6. find_boundary(d, i) = p /\ find_boundary(e, j) = q
      BY <2>4, <2>11, <3>2, <3>4, <3>5
    <3> QED
      BY <1>1, <3>2, <3>6 DEF q
  <2> QED
    BY <2>10, <2>11
<1> QED
  BY <1>1, <1>2, <1>3, <1>4

\* g are the cuts from every position on.
CutsFrom(g, data) ==
    g = [start \in 0..Len(data) |->
            IF start = Len(data) THEN <<>>
            ELSE LET end == find_boundary(data, start) IN <<end>> \o g[end]]

CutsIn(data) == CHOOSE g : CutsFrom(g, data)

\* There are such cuts: there are those of the last k positions, for every k.
LEMMA CutsExist ==
    ASSUME NEW data, Len(data) \in Nat
    PROVE  CutsFrom(CutsIn(data), data)
<1> DEFINE n == Len(data)
           CutsAt(g, s) == IF s = n THEN <<>>
                        ELSE LET end == find_boundary(data, s) IN <<end>> \o g[end]
           Down(g, k) == g = [s \in (n - k)..n |-> CutsAt(g, s)]
           T == {k \in Nat : k <= n => \E g : Down(g, k)}
<1>1. 0 \in T
  <2> DEFINE g == [s \in (n - 0)..n |-> <<>>]
  <2>1. \A s \in (n - 0)..n : s = n
    OBVIOUS
  <2>2. Down(g, 0)
    BY <2>1
  <2> HIDE DEF g, Down
  <2>3. \E h : Down(h, 0)
    BY <2>2
  <2> QED
    BY <2>3
<1>2. ASSUME NEW k \in Nat, k \in T PROVE k + 1 \in T
  <2> SUFFICES ASSUME k + 1 <= n PROVE \E g : Down(g, k + 1)
    OBVIOUS
  <2>1. PICK g : Down(g, k)
    BY <1>2
  <2> DEFINE b == n - (k + 1)
             h == [s \in b..n |-> IF s = b THEN CutsAt(g, b) ELSE g[s]]
  <2>2. b \in 0..(n - 1) /\ \A s \in b..n : s # b => s \in (n - k)..n
    OBVIOUS
  <2>3. \A s \in (n - k)..n : s \in b..n /\ s # b
    OBVIOUS
  <2>4. ASSUME NEW s \in b..n, s # n
        PROVE  find_boundary(data, s) \in (n - k)..n
    <3>1. s \in 0..(n - 1)
      BY <2>4
    <3>2. find_boundary(data, s) \in (s + 1)..n
      BY <3>1, BoundaryAhead
    <3>3. s \in Int /\ n \in Nat /\ s >= n - (k + 1)
      OBVIOUS
    <3> HIDE DEF n
    <3>4. (s + 1)..n \subseteq (n - k)..n
      BY <3>3
    <3> QED
      BY <3>2, <3>4
  <2>5. ASSUME NEW s \in (n - k)..n PROVE h[s] = g[s]
    BY <2>3
  <2>6. h[b] = CutsAt(g, b)
    BY <2>2
  <2> HIDE DEF h
  <2>7. ASSUME NEW s \in b..n PROVE CutsAt(h, s) = CutsAt(g, s)
    BY <2>4, <2>5
  <2>8. ASSUME NEW s \in b..n PROVE h[s] = CutsAt(h, s)
    <3>1. CASE s = b
      BY <2>6, <2>7, <3>1
    <3>2. CASE s # b
      <4>1. s \in (n - k)..n /\ h[s] = g[s]
        BY <2>2, <2>5, <3>2
      <4>2. g[s] = CutsAt(g, s)
        BY <2>1, <4>1
      <4> HIDE DEF CutsAt
      <4> QED
        BY <2>7, <4>1, <4>2
    <3> QED
      BY <3>1, <3>2
  <2>9. h = [s \in b..n |-> h[s]]
    BY DEF h
  <2> HIDE DEF CutsAt
  <2>10. h = [s \in b..n |-> CutsAt(h, s)]
    BY <2>8, <2>9
  <2>11. Down(h, k + 1)
    BY <2>10
  <2> HIDE DEF Down
  <2> QED
    BY <2>11
<1> HIDE DEF T
<1>3. n \in T
  BY <1>1, <1>2, NaturalInduction
<1>4. PICK g : Down(g, n)
  BY <1>3 DEF T
<1>5. CutsFrom(g, data)
  <2>1. n - n = 0
    OBVIOUS
  <2> QED
    BY <1>4, <2>1 DEF CutsFrom
<1> QED
  BY <1>5 DEF CutsIn


\* Where the chunks from start on begin and end.
PositionsFrom(data, start) ==
    {start} \cup {CutsIn(data)[start][k] : k \in DOMAIN CutsIn(data)[start]}

\* The cuts from a start are the next one and the cuts from there.
LEMMA PositionsUnfold ==
    ASSUME NEW data, Len(data) \in Nat, NEW start \in 0..(Len(data) - 1)
    PROVE  /\ CutsIn(data)[start] = <<find_boundary(data, start)>>
                                        \o CutsIn(data)[find_boundary(data, start)]
           /\ find_boundary(data, start) \in (start + 1)..Len(data)
<1>1. start \in 0..Len(data) /\ start # Len(data)
  OBVIOUS
<1>2. CutsFrom(CutsIn(data), data)
  BY CutsExist
<1>3. find_boundary(data, start) \in (start + 1)..Len(data)
  BY BoundaryAhead
<1> QED
  BY <1>1, <1>2, <1>3 DEF CutsFrom

\* A claim about every start follows backwards from the end of the file.
LEMMA FromTheEnd ==
    ASSUME NEW n \in Nat, NEW T, n \in T,
           \A s \in 0..(n - 1) : (\A r \in (s + 1)..n : r \in T) => s \in T
    PROVE  0..n \subseteq T
<1> DEFINE U == {k \in Nat : \A r \in 0..n : r >= n - k => r \in T}
<1>1. 0 \in U
  OBVIOUS
<1>2. ASSUME NEW k \in Nat, k \in U PROVE k + 1 \in U
  <2> SUFFICES ASSUME NEW s \in 0..n, s >= n - (k + 1) PROVE s \in T
    OBVIOUS
  <2>1. CASE s >= n - k
    BY <1>2, <2>1
  <2>2. CASE ~(s >= n - k)
    <3>1. s \in 0..(n - 1)
      BY <2>2
    <3>2. ASSUME NEW r \in (s + 1)..n PROVE r \in T
      <4>1. r \in 0..n /\ r >= n - k
        OBVIOUS
      <4> QED
        BY <1>2, <4>1
    <3> QED
      BY <3>1, <3>2
  <2> QED
    BY <2>1, <2>2
<1> HIDE DEF U
<1>3. n \in U
  BY <1>1, <1>2, NaturalInduction
<1> QED
  BY <1>3 DEF U

\* They are sequences of positions behind the start.
LEMMA CutsAreAhead ==
    ASSUME NEW data, Len(data) \in Nat, NEW start \in 0..Len(data)
    PROVE  CutsIn(data)[start] \in Seq((start + 1)..Len(data))
<1> DEFINE n == Len(data)
           T == {s \in 0..n : CutsIn(data)[s] \in Seq((s + 1)..n)}
<1>1. n \in T
  <2>1. CutsFrom(CutsIn(data), data)
    BY CutsExist
  <2>2. CutsIn(data)[n] = <<>>
    BY <2>1 DEF CutsFrom
  <2>3. <<>> \in Seq((n + 1)..n) /\ n \in 0..n
    OBVIOUS
  <2> HIDE DEF n
  <2> QED
    BY <2>2, <2>3
<1>2. ASSUME NEW s \in 0..(n - 1), \A r \in (s + 1)..n : r \in T PROVE s \in T
  <2> DEFINE end == find_boundary(data, s)
  <2>1. CutsIn(data)[s] = <<end>> \o CutsIn(data)[end] /\ end \in (s + 1)..n
    BY PositionsUnfold
  <2> HIDE DEF end
  <2>2. CutsIn(data)[end] \in Seq((end + 1)..n)
    BY <1>2, <2>1
  <2>3. (end + 1)..n \subseteq (s + 1)..n
    BY <2>1
  <2>4. CutsIn(data)[end] \in Seq((s + 1)..n) /\ <<end>> \in Seq((s + 1)..n)
    BY <2>1, <2>2, <2>3
  <2>5. CutsIn(data)[s] \in Seq((s + 1)..n)
    BY <2>1, <2>4, ConcatProperties
  <2> QED
    BY <2>5
<1> HIDE DEF T
<1>3. start \in T
  BY <1>1, <1>2, FromTheEnd
<1> QED
  BY <1>3 DEF T

\* So the positions from a start are the start and the positions from the next cut.
LEMMA PositionsAre ==
    ASSUME NEW data, Len(data) \in Nat
    PROVE  /\ PositionsFrom(data, Len(data)) = {Len(data)}
           /\ \A s \in 0..(Len(data) - 1) :
                 PositionsFrom(data, s)
                     = {s} \cup PositionsFrom(data, find_boundary(data, s))
           /\ \A s \in 0..Len(data) : PositionsFrom(data, s) \subseteq s..Len(data)
<1> DEFINE n == Len(data)
<1>1. PositionsFrom(data, n) = {n}
  <2>1. CutsFrom(CutsIn(data), data)
    BY CutsExist
  <2>2. CutsIn(data)[n] = <<>>
    BY <2>1 DEF CutsFrom
  <2>3. DOMAIN CutsIn(data)[n] = {}
    BY <2>2
  <2> QED
    BY <2>3 DEF PositionsFrom
<1>2. ASSUME NEW s \in 0..n PROVE PositionsFrom(data, s) \subseteq s..n
  <2>1. CutsIn(data)[s] \in Seq((s + 1)..n)
    BY CutsAreAhead
  <2> DEFINE c == CutsIn(data)[s]
  <2>2. \A k \in DOMAIN c : c[k] \in (s + 1)..n
    BY <2>1
  <2>3. (s + 1)..n \subseteq s..n /\ s \in s..n
    OBVIOUS
  <2> HIDE DEF n
  <2> QED
    BY <2>2, <2>3 DEF PositionsFrom
<1>3. ASSUME NEW s \in 0..(n - 1)
      PROVE  PositionsFrom(data, s) = {s} \cup PositionsFrom(data, find_boundary(data, s))
  <2> DEFINE end == find_boundary(data, s)
             c == CutsIn(data)[s]
             r == CutsIn(data)[end]
  <2>1. c = <<end>> \o r /\ end \in (s + 1)..n
    BY PositionsUnfold
  <2>2. end \in 0..n
    BY <2>1
  <2> HIDE DEF end
  <2>3. r \in Seq((end + 1)..n)
    BY <2>2, CutsAreAhead
  <2> HIDE DEF c, r
  <2>4. r \in Seq(Nat) /\ <<end>> \in Seq(Nat)
    <3>1. end \in Nat /\ (end + 1)..n \subseteq Nat
      BY <2>2
    <3> QED
      BY <2>3, <3>1
  <2>5. Len(c) = Len(r) + 1 /\ Len(r) \in Nat /\ DOMAIN c = 1..Len(c) /\ DOMAIN r = 1..Len(r)
    BY <2>1, <2>4, ConcatProperties
  <2>6. c[1] = end /\ \A k \in 1..Len(r) : c[k + 1] = r[k]
    <3>1. c[1] = end
      BY <2>1, <2>4, ConcatProperties
    <3>2. ASSUME NEW k \in 1..Len(r) PROVE c[k + 1] = r[k]
      <4>1. Len(<<end>>) = 1 /\ k + 1 \in 2..(Len(r) + 1) /\ (k + 1) - 1 = k
        BY <2>5
      <4> QED
        BY <2>1, <2>4, <4>1, ConcatProperties
    <3> QED
      BY <3>1, <3>2
  <2>7. ASSUME NEW x
        PROVE  (\E k \in DOMAIN c : x = c[k]) <=> x = end \/ \E k \in DOMAIN r : x = r[k]
    <3>1. ASSUME NEW k \in DOMAIN c, x = c[k], x # end PROVE \E m \in DOMAIN r : x = r[m]
      <4>1. k \in 1..(Len(r) + 1) /\ k # 1
        BY <2>5, <2>6, <3>1
      <4>2. k - 1 \in 1..Len(r) /\ (k - 1) + 1 = k
        BY <2>5, <4>1
      <4>3. c[k] = r[k - 1]
        BY <2>6, <4>2
      <4> QED
        BY <2>5, <3>1, <4>2, <4>3
    <3>2. ASSUME NEW k \in DOMAIN r, x = r[k] PROVE \E m \in DOMAIN c : x = c[m]
      <4>1. k \in 1..Len(r) /\ k + 1 \in 1..(Len(r) + 1)
        BY <2>5
      <4>2. c[k + 1] = r[k] /\ k + 1 \in DOMAIN c
        BY <2>5, <2>6, <4>1
      <4> QED
        BY <3>2, <4>2
    <3>3. 1 \in DOMAIN c
      BY <2>5
    <3> QED
      BY <2>6, <3>1, <3>2, <3>3
  <2>8. {c[k] : k \in DOMAIN c} = {end} \cup {r[k] : k \in DOMAIN r}
    BY <2>7
  <2> QED
    BY <2>8 DEF PositionsFrom, c, r, end
<1> QED
  BY <1>1, <1>2, <1>3

\* From any of a file's cuts on, its cuts are the cuts of a scan that starts there.
LEMMA PositionsBehind ==
    ASSUME NEW data, Len(data) \in Nat, NEW start \in 0..Len(data),
           NEW i \in PositionsFrom(data, start)
    PROVE  {p \in PositionsFrom(data, start) : p >= i} = PositionsFrom(data, i)
<1> DEFINE n == Len(data)
           Behind(s, x) == {p \in PositionsFrom(data, s) : p >= x} = PositionsFrom(data, x)
           T == {s \in 0..n : \A x \in PositionsFrom(data, s) : Behind(s, x)}
<1>1. \A s \in 0..n : PositionsFrom(data, s) \subseteq s..n
  BY PositionsAre
<1>2. \A s \in 0..n : Behind(s, s)
  BY <1>1
<1>3. n \in T
  <2>1. PositionsFrom(data, n) = {n} /\ n \in 0..n
    BY PositionsAre
  <2> HIDE DEF Behind
  <2> QED
    BY <1>2, <2>1
<1>4. ASSUME NEW s \in 0..(n - 1), \A r \in (s + 1)..n : r \in T PROVE s \in T
  <2> SUFFICES ASSUME NEW x \in PositionsFrom(data, s) PROVE Behind(s, x)
    OBVIOUS
  <2> DEFINE end == find_boundary(data, s)
  <2>1. end \in (s + 1)..n
    BY BoundaryAhead
  <2>2. PositionsFrom(data, s) = {s} \cup PositionsFrom(data, end)
    BY PositionsAre
  <2> HIDE DEF end
  <2>3. CASE x = s
    <3>1. s \in 0..n
      OBVIOUS
    <3> HIDE DEF Behind
    <3> QED
      BY <1>2, <2>3, <3>1
  <2>4. CASE x # s
    <3>1. x \in PositionsFrom(data, end) /\ end \in T
      BY <1>4, <2>1, <2>2, <2>4
    <3>2. Behind(end, x)
      BY <3>1
    <3>3. x \in end..n /\ end \in 0..n
      BY <1>1, <2>1, <3>1
    <3>4. ~(s >= x)
      BY <2>1, <3>3
    <3>5. {p \in PositionsFrom(data, s) : p >= x} = {p \in PositionsFrom(data, end) : p >= x}
      BY <2>2, <3>4
    <3> QED
      BY <3>2, <3>5
  <2> QED
    BY <2>3, <2>4
<1> HIDE DEF T
<1>5. start \in T
  BY <1>3, <1>4, FromTheEnd
<1>6. Behind(start, i)
  BY <1>5 DEF T
<1> QED
  BY <1>6

\* Files with the same bytes behind i and j are cut at the same places from there on.
LEMMA PositionsAlike ==
    ASSUME NEW d, Len(d) \in Nat, NEW e, Len(e) \in Nat, NEW i, NEW j, SameTail(d, i, e, j)
    PROVE  \A k \in Int : i + k \in PositionsFrom(d, i) <=> j + k \in PositionsFrom(e, j)
<1> DEFINE n == Len(d)
           m == Len(e)
           off == m - n
           Alike(s) == \A x \in Int :
                           x \in PositionsFrom(d, s) <=> x + off \in PositionsFrom(e, s + off)
           T == {s \in 0..n : SameTail(d, s, e, s + off) => Alike(s)}
<1>1. n \in Nat /\ m \in Nat /\ off \in Int
  OBVIOUS
<1>2. n \in T
  <2>1. n + off = m /\ n \in 0..n
    OBVIOUS
  <2>2. PositionsFrom(d, n) = {n} /\ PositionsFrom(e, m) = {m}
    BY PositionsAre
  <2>3. \A x \in Int : x = n <=> x + off = m
    OBVIOUS
  <2> HIDE DEF off, n, m
  <2> QED
    BY <2>1, <2>2, <2>3
<1>3. ASSUME NEW s \in 0..(n - 1), \A r \in (s + 1)..n : r \in T PROVE s \in T
  <2> SUFFICES ASSUME SameTail(d, s, e, s + off) PROVE Alike(s)
    OBVIOUS
  <2> DEFINE t == s + off
             end == find_boundary(d, s)
             fin == find_boundary(e, t)
  <2>1. /\ t \in 0..m /\ n - s = m - t
        /\ \A k \in 1..(n - s) : d[s + k] = e[t + k]
    BY DEF SameTail
  <2>2. t \in 0..(m - 1) /\ s < n
    BY <2>1
  <2>3. end - s = fin - t
    BY <2>2, BoundaryAlike
  <2>4. end \in (s + 1)..n /\ fin \in (t + 1)..m
    BY <2>2, BoundaryAhead
  <2>5. /\ PositionsFrom(d, s) = {s} \cup PositionsFrom(d, end)
        /\ PositionsFrom(e, t) = {t} \cup PositionsFrom(e, fin)
    BY <2>2, PositionsAre
  <2> HIDE DEF end, fin
  <2>6. fin = end + off
    BY <2>3, <2>4
  <2>7. SameTail(d, end, e, end + off)
    <3>1. end + off \in 0..m /\ end \in 0..n /\ n - end = m - (end + off)
      BY <2>1, <2>4, <2>6
    <3>2. ASSUME NEW k \in 1..(n - end) PROVE d[end + k] = e[(end + off) + k]
      <4>1. (end - s) + k \in 1..(n - s)
        BY <2>4
      <4>2. s + ((end - s) + k) = end + k /\ t + ((end - s) + k) = (end + off) + k
        BY <2>4
      <4> HIDE DEF t
      <4> QED
        BY <2>1, <4>1, <4>2
    <3> QED
      BY <3>1, <3>2 DEF SameTail
  <2>8. Alike(end)
    BY <1>3, <2>4, <2>7
  <2>9. ASSUME NEW x \in Int PROVE x \in PositionsFrom(d, s) <=> x + off \in PositionsFrom(e, t)
    <3>1. x = s <=> x + off = t
      OBVIOUS
    <3>2. x \in PositionsFrom(d, end) <=> x + off \in PositionsFrom(e, fin)
      BY <2>6, <2>8
    <3> HIDE DEF t, off
    <3> QED
      BY <2>5, <3>1, <3>2
  <2> QED
    BY <2>9
<1> HIDE DEF T
<1>4. 0..n \subseteq T
  BY <1>1, <1>2, <1>3, FromTheEnd
<1>5. i \in 0..n /\ j \in Int /\ i + off = j
  BY DEF SameTail
<1>6. Alike(i)
  BY <1>4, <1>5 DEF T
<1>7. ASSUME NEW k \in Int
      PROVE  i + k \in PositionsFrom(d, i) <=> j + k \in PositionsFrom(e, j)
  <2>1. i + k \in Int /\ (i + k) + off = j + k
    BY <1>5
  <2> HIDE DEF off
  <2> QED
    BY <1>5, <1>6, <2>1
<1> QED
  BY <1>7

\* The file is one at all times.
LEMMA FileStays ==
    file \in Seq(ByteValues) /\ previous \in Seq(ByteValues) /\ [ChunkerNext]_chunkerVars
        => (file \in Seq(ByteValues) /\ previous \in Seq(ByteValues))'
<1> SUFFICES ASSUME file \in Seq(ByteValues), previous \in Seq(ByteValues),
                    [ChunkerNext]_chunkerVars
             PROVE  file' \in Seq(ByteValues) /\ previous' \in Seq(ByteValues)
  OBVIOUS
<1>1. CASE chunk_file
  <2>0. PICK at \in 0..Len(file) :
            \E gone \in 0..Lesser(1, Len(file) - at),
               byte \in {<<>>} \cup {<<b>> : b \in ByteValues} :
                file' = SubSeq(file, 1, at) \o byte \o SubSeq(file, at + gone + 1, Len(file))
    BY <1>1 DEF chunk_file
  <2>1. PICK gone \in 0..Lesser(1, Len(file) - at),
             byte \in {<<>>} \cup {<<b>> : b \in ByteValues} :
            file' = SubSeq(file, 1, at) \o byte \o SubSeq(file, at + gone + 1, Len(file))
    BY <2>0
  <2>2. Len(file) \in Nat /\ at \in Nat /\ gone \in Nat
    BY DEF Lesser
  <2>3. byte \in Seq(ByteValues)
    <3>1. <<>> \in Seq(ByteValues)
      OBVIOUS
    <3>2. \A b \in ByteValues : <<b>> \in Seq(ByteValues)
      OBVIOUS
    <3>3. byte = <<>> \/ \E b \in ByteValues : byte = <<b>>
      OBVIOUS
    <3> QED
      BY <3>1, <3>2, <3>3
  <2>4. SubSeq(file, 1, at) \in Seq(ByteValues)
    BY <2>2
  <2>5. SubSeq(file, at + gone + 1, Len(file)) \in Seq(ByteValues)
    BY <2>2
  <2>6. SubSeq(file, 1, at) \o byte \in Seq(ByteValues)
    BY <2>3, <2>4, ConcatProperties
  <2>7. (SubSeq(file, 1, at) \o byte) \o SubSeq(file, at + gone + 1, Len(file))
            \in Seq(ByteValues)
    BY <2>5, <2>6, ConcatProperties
  <2>8. previous' = file
    BY <1>1 DEF chunk_file
  <2> QED
    BY <2>1, <2>7, <2>8
<1>2. CASE UNCHANGED chunkerVars
  BY <1>2 DEF chunkerVars
<1> QED
  BY <1>1, <1>2 DEF ChunkerNext

\* The cuts of a file are those from its beginning.
LEMMA PositionsFromStart ==
    ASSUME NEW data
    PROVE  Positions(data) = PositionsFrom(data, 0)
<1>1. Ends(data) = CutsIn(data)[0]
  BY DEF Ends, CutsIn, CutsFrom
<1> QED
  BY <1>1 DEF Positions, PositionsFrom

\* From the first cut that two versions share, with the same bytes behind it, all
\* their cuts are the same, for any files, edits, windows, masks and sizes of
\* chunks: an edit moves no boundary behind the first that both versions have.
THEOREM TailsKeepTheirChunks == ChunkerSpec => []TailChunksShared
<1>1. ChunkerInit => file \in Seq(ByteValues) /\ previous \in Seq(ByteValues)
  <2> SUFFICES ASSUME ChunkerInit
               PROVE  file \in Seq(ByteValues) /\ previous \in Seq(ByteValues)
    OBVIOUS
  <2>1. FileLength \in Nat
    BY ChunkerAssumption
  <2>2. file \in [1..FileLength -> ByteValues] /\ previous = file
    BY DEF ChunkerInit
  <2>3. file \in Seq(ByteValues)
    BY <2>1, <2>2
  <2> QED
    BY <2>2, <2>3
<1>2. file \in Seq(ByteValues) /\ previous \in Seq(ByteValues) => TailChunksShared
  <2> SUFFICES ASSUME file \in Seq(ByteValues), previous \in Seq(ByteValues),
                      NEW i \in Positions(previous), NEW j \in Positions(file),
                      SubSeq(previous, i + 1, Len(previous)) = SubSeq(file, j + 1, Len(file))
               PROVE  {k - i : k \in {p \in Positions(previous) : p >= i}}
                          = {k - j : k \in {p \in Positions(file) : p >= j}}
    BY DEF TailChunksShared
  <2> DEFINE n == Len(previous)
             m == Len(file)
             P == PositionsFrom(previous, i)
             Q == PositionsFrom(file, j)
  <2>1. n \in Nat /\ m \in Nat /\ 0 \in 0..n /\ 0 \in 0..m
    OBVIOUS
  <2>2. i \in PositionsFrom(previous, 0) /\ j \in PositionsFrom(file, 0)
    BY PositionsFromStart
  <2>3. i \in 0..n /\ j \in 0..m
    BY <2>1, <2>2, PositionsAre
  <2>4. SameTail(previous, i, file, j)
    <3> DEFINE s == SubSeq(previous, i + 1, n)
               t == SubSeq(file, j + 1, m)
    <3>1. Len(s) = n - i /\ \A k \in 1..(n - i) : s[k] = previous[i + k]
      BY <2>1, <2>3
    <3>2. Len(t) = m - j /\ \A k \in 1..(m - j) : t[k] = file[j + k]
      BY <2>1, <2>3
    <3>3. s = t
      OBVIOUS
    <3> HIDE DEF s, t
    <3> QED
      BY <2>3, <3>1, <3>2, <3>3 DEF SameTail
  <2>5. /\ {p \in Positions(previous) : p >= i} = P
        /\ {p \in Positions(file) : p >= j} = Q
    BY <2>1, <2>2, PositionsBehind, PositionsFromStart
  <2>6. \A k \in Int : i + k \in P <=> j + k \in Q
    BY <2>1, <2>4, PositionsAlike
  <2>7. P \subseteq Int /\ Q \subseteq Int
    BY <2>1, <2>3, PositionsAre
  <2> HIDE DEF P, Q, n, m
  <2>8. ASSUME NEW x \in P PROVE \E y \in Q : x - i = y - j
    <3>1. x \in Int /\ i \in Int /\ j \in Int
      BY <2>3, <2>7
    <3>2. x - i \in Int /\ i + (x - i) = x /\ (j + (x - i)) - j = x - i
      BY <3>1
    <3> QED
      BY <2>6, <3>2
  <2>9. ASSUME NEW y \in Q PROVE \E x \in P : y - j = x - i
    <3>1. y \in Int /\ i \in Int /\ j \in Int
      BY <2>3, <2>7
    <3>2. y - j \in Int /\ j + (y - j) = y /\ (i + (y - j)) - i = y - j
      BY <3>1
    <3> QED
      BY <2>6, <3>2
  <2>10. {k - i : k \in P} = {k - j : k \in Q}
    BY <2>8, <2>9
  <2> QED
    BY <2>5, <2>10
<1> QED
  BY <1>1, <1>2, FileStays, PTL DEF ChunkerSpec


-----------------------------------------------------------------------------
(* The encrypted stream.  FlattenSeq joins the records from the left.      *)

\* Concatenations may be regrouped.
LEMMA Regrouped ==
    \A S : \A s, t, u \in Seq(S) : (s \o t) \o u = s \o (t \o u)
BY ConcatAssociative, Zenon

Joins(f, q) == f = [i \in 1..Len(q) |-> IF i = 1 THEN q[i] ELSE f[i - 1] \o q[i]]
JoinOf(q) == CHOOSE f : Joins(f, q)

\* There is such a function.
LEMMA JoinsExist ==
    ASSUME NEW q, Len(q) \in Nat
    PROVE  Joins(JoinOf(q), q)
<1> DEFINE Upto(f, k) == f = [i \in 1..k |-> IF i = 1 THEN q[i] ELSE f[i - 1] \o q[i]]
           T == {k \in Nat : \E f : Upto(f, k)}
<1>1. 0 \in T
  <2> DEFINE f == [i \in 1..0 |-> <<>>]
  <2>1. Upto(f, 0)
    OBVIOUS
  <2> HIDE DEF f, Upto
  <2>2. \E g : Upto(g, 0)
    BY <2>1
  <2> QED
    BY <2>2
<1>2. ASSUME NEW k \in Nat, k \in T PROVE k + 1 \in T
  <2>1. PICK f : Upto(f, k)
    BY <1>2
  <2> DEFINE e == k + 1
             g == [i \in 1..e |-> IF i = e THEN IF e = 1 THEN q[e] ELSE f[e - 1] \o q[e]
                                  ELSE f[i]]
  <2>2. e \in 1..e /\ (e # 1 => e - 1 \in 1..k /\ e - 1 \in 1..e) /\ e - 1 # e
    OBVIOUS
  <2>3. ASSUME NEW i \in 1..e
        PROVE  g[i] = IF i = 1 THEN q[i] ELSE g[i - 1] \o q[i]
    <3>1. CASE i = e
      <4>1. g[e] = IF e = 1 THEN q[e] ELSE f[e - 1] \o q[e]
        BY <2>2
      <4>2. e # 1 => g[e - 1] = f[e - 1]
        BY <2>2
      <4> HIDE DEF g, e
      <4> QED
        BY <3>1, <4>1, <4>2
    <3>2. CASE i # e
      <4>1. i \in 1..k /\ g[i] = f[i]
        BY <3>2
      <4>2. f[i] = IF i = 1 THEN q[i] ELSE f[i - 1] \o q[i]
        BY <2>1, <4>1
      <4>3. i # 1 => i - 1 \in 1..e /\ i - 1 # e
        BY <4>1
      <4>4. i # 1 => g[i - 1] = f[i - 1]
        BY <4>3
      <4> HIDE DEF g, e
      <4> QED
        BY <4>1, <4>2, <4>4
    <3> QED
      BY <3>1, <3>2
  <2>4. g = [i \in 1..e |-> g[i]]
    OBVIOUS
  <2> HIDE DEF g
  <2>5. Upto(g, k + 1)
    BY <2>3, <2>4
  <2> HIDE DEF Upto
  <2>6. \E h : Upto(h, k + 1)
    BY <2>5
  <2> QED
    BY <2>6
<1> HIDE DEF T
<1>3. Len(q) \in T
  BY <1>1, <1>2, NaturalInduction
<1>4. \E f : Joins(f, q)
  BY <1>3 DEF T, Joins
<1> QED
  BY <1>4 DEF JoinOf

\* FlattenSeq of nothing, and with one more sequence at the end.
LEMMA FlattenAppend ==
    /\ FlattenSeq(<<>>) = <<>>
    /\ \A S : \A q \in Seq(Seq(S)), x \in Seq(S) :
          FlattenSeq(Append(q, x)) = FlattenSeq(q) \o x
<1>1. \A q : FlattenSeq(q) = IF Len(q) = 0 THEN q ELSE JoinOf(q)[Len(q)]
  BY DEF FlattenSeq, JoinOf, Joins
<1>2. FlattenSeq(<<>>) = <<>>
  <2>1. Len(<<>>) = 0
    OBVIOUS
  <2> QED
    BY <1>1, <2>1
<1>3. ASSUME NEW S, NEW q \in Seq(Seq(S)), NEW x \in Seq(S)
      PROVE  FlattenSeq(Append(q, x)) = FlattenSeq(q) \o x
  <2> DEFINE n == Len(q)
             r == Append(q, x)
             F == JoinOf(q)
             G == JoinOf(r)
             T == {k \in Nat : k \in 1..n => G[k] = F[k]}
  <2>1. n \in Nat /\ Len(r) = n + 1 /\ r[n + 1] = x /\ \A i \in 1..n : r[i] = q[i]
    BY AppendProperties
  <2> HIDE DEF r
  <2>2. /\ F = [i \in 1..n |-> IF i = 1 THEN q[i] ELSE F[i - 1] \o q[i]]
        /\ G = [i \in 1..(n + 1) |-> IF i = 1 THEN r[i] ELSE G[i - 1] \o r[i]]
    <3>1. Joins(F, q) /\ Joins(G, r)
      BY <2>1, JoinsExist
    <3> QED
      BY <2>1, <3>1 DEF Joins
  <2> HIDE DEF F, G
  <2>3. 0 \in T
    OBVIOUS
  <2>4. ASSUME NEW k \in Nat, k \in T PROVE k + 1 \in T
    <3> SUFFICES ASSUME k + 1 \in 1..n PROVE G[k + 1] = F[k + 1]
      OBVIOUS
    <3>1. k + 1 \in 1..(n + 1) /\ r[k + 1] = q[k + 1] /\ (k + 1) - 1 = k
      BY <2>1
    <3>2. /\ F[k + 1] = IF k + 1 = 1 THEN q[k + 1] ELSE F[k] \o q[k + 1]
          /\ G[k + 1] = IF k + 1 = 1 THEN r[k + 1] ELSE G[k] \o r[k + 1]
      BY <2>2, <3>1
    <3>3. k + 1 # 1 => k \in 1..n
      OBVIOUS
    <3>4. k + 1 # 1 => G[k] = F[k]
      BY <2>4, <3>3
    <3> QED
      BY <3>1, <3>2, <3>4
  <2> HIDE DEF T
  <2>5. n \in T
    BY <2>1, <2>3, <2>4, NaturalInduction
  <2>6. FlattenSeq(r) = G[n + 1]
    BY <1>1, <2>1 DEF G
  <2>7. CASE n = 0
    <3>1. q = <<>>
      BY <2>7
    <3>2. n + 1 = 1 /\ 1 \in 1..(n + 1)
      BY <2>7
    <3>3. G[1] = r[1] /\ r[1] = x
      BY <2>1, <2>2, <3>2
    <3>4. FlattenSeq(q) \o x = x
      BY <1>2, <3>1, ConcatEmptySeq
    <3> QED
      BY <2>6, <3>2, <3>3, <3>4 DEF r
  <2>8. CASE n # 0
    <3>1. n + 1 \in 1..(n + 1) /\ n + 1 # 1 /\ (n + 1) - 1 = n /\ n \in 1..n
      BY <2>1, <2>8
    <3>2. G[n + 1] = G[n] \o r[n + 1]
      BY <2>2, <3>1
    <3>3. G[n] = F[n]
      BY <2>5, <3>1 DEF T
    <3>4. FlattenSeq(q) = F[n]
      BY <1>1, <2>8 DEF F
    <3> QED
      BY <2>1, <2>6, <3>2, <3>3, <3>4 DEF r
  <2> QED
    BY <2>7, <2>8
<1> QED
  BY <1>2, <1>3

\* It is a sequence of the same, and begins with that of any of its beginnings.
LEMMA FlattenSplit ==
    ASSUME NEW S, NEW q \in Seq(Seq(S))
    PROVE  /\ FlattenSeq(q) \in Seq(S)
           /\ \A k \in 0..Len(q) : \E rest \in Seq(S) :
                 FlattenSeq(q) = FlattenSeq(SubSeq(q, 1, k)) \o rest
<1> DEFINE Split(u) == /\ FlattenSeq(u) \in Seq(S)
                       /\ \A k \in 0..Len(u) : \E rest \in Seq(S) :
                             FlattenSeq(u) = FlattenSeq(SubSeq(u, 1, k)) \o rest
           T == {n \in Nat : \A u \in Seq(Seq(S)) : Len(u) <= n => Split(u)}
<1>1. 0 \in T
  <2> SUFFICES ASSUME NEW u \in Seq(Seq(S)), Len(u) <= 0 PROVE Split(u)
    OBVIOUS
  <2>1. u = <<>> /\ FlattenSeq(u) = <<>>
    BY FlattenAppend
  <2>2. \A k \in 0..0 : SubSeq(<<>>, 1, k) = <<>>
    BY SubSeqEmpty
  <2>3. <<>> \in Seq(S) /\ <<>> = <<>> \o <<>>
    OBVIOUS
  <2> QED
    BY <2>1, <2>2, <2>3
<1>2. ASSUME NEW n \in Nat, n \in T PROVE n + 1 \in T
  <2> SUFFICES ASSUME NEW u \in Seq(Seq(S)), Len(u) = n + 1 PROVE Split(u)
    <3>1. \A u \in Seq(Seq(S)) : Len(u) <= n + 1 => Len(u) <= n \/ Len(u) = n + 1
      OBVIOUS
    <3> HIDE DEF Split
    <3> QED
      BY <1>2, <3>1
  <2>1. PICK v \in Seq(Seq(S)), x \in Seq(S) : u = Append(v, x)
    <3>1. u # <<>>
      OBVIOUS
    <3> QED
      BY <3>1, SequenceEmptyOrAppend
  <2>2. Len(v) = n /\ \A i \in 1..n : u[i] = v[i]
    BY <2>1, AppendProperties
  <2>3. Split(v)
    <3>1. Len(v) <= n
      BY <2>2
    <3> HIDE DEF Split
    <3> QED
      BY <1>2, <3>1
  <2>4. FlattenSeq(u) = FlattenSeq(v) \o x /\ FlattenSeq(v) \in Seq(S)
    BY <2>1, <2>3, FlattenAppend
  <2>5. FlattenSeq(u) \in Seq(S)
    BY <2>4, ConcatProperties
  <2>6. ASSUME NEW k \in 0..(n + 1)
        PROVE  \E rest \in Seq(S) : FlattenSeq(u) = FlattenSeq(SubSeq(u, 1, k)) \o rest
    <3>1. CASE k = n + 1
      <4>1. SubSeq(u, 1, k) = u
        BY <3>1, SubSeqFull
      <4>2. FlattenSeq(u) = FlattenSeq(u) \o <<>> /\ <<>> \in Seq(S)
        BY <2>5, ConcatEmptySeq
      <4> QED
        BY <4>1, <4>2
    <3>2. CASE k # n + 1
      <4>1. k \in 0..n
        BY <3>2
      <4>2. SubSeq(u, 1, k) = SubSeq(v, 1, k)
        <5>1. /\ SubSeq(u, 1, k) \in Seq(Seq(S)) /\ Len(SubSeq(u, 1, k)) = k
              /\ \A i \in 1..k : SubSeq(u, 1, k)[i] = u[i]
          BY <4>1
        <5>2. /\ SubSeq(v, 1, k) \in Seq(Seq(S)) /\ Len(SubSeq(v, 1, k)) = k
              /\ \A i \in 1..k : SubSeq(v, 1, k)[i] = v[i]
          BY <2>2, <4>1
        <5>3. \A i \in 1..k : u[i] = v[i]
          BY <2>2, <4>1
        <5> QED
          BY <5>1, <5>2, <5>3, SeqEqual
      <4>3. PICK rest \in Seq(S) : FlattenSeq(v) = FlattenSeq(SubSeq(v, 1, k)) \o rest
        BY <2>2, <2>3, <4>1
      <4>4. SubSeq(v, 1, k) \in Seq(Seq(S)) /\ Len(SubSeq(v, 1, k)) = k
        BY <2>2, <4>1
      <4>5. FlattenSeq(SubSeq(v, 1, k)) \in Seq(S)
        <5> DEFINE w == SubSeq(v, 1, k)
        <5>1. w \in Seq(Seq(S)) /\ Len(w) <= n
          BY <4>1, <4>4
        <5> HIDE DEF w
        <5>2. Split(w)
          BY <1>2, <5>1
        <5> QED
          BY <5>2 DEF w
      <4>6. FlattenSeq(u) = FlattenSeq(SubSeq(v, 1, k)) \o (rest \o x)
        <5> DEFINE a == FlattenSeq(SubSeq(v, 1, k))
        <5>1. a \in Seq(S)
          BY <4>5
        <5> HIDE DEF a
        <5>2. (a \o rest) \o x = a \o (rest \o x)
          BY <5>1, Regrouped, SMTT(60)
        <5> QED
          BY <2>4, <4>3, <5>2 DEF a
      <4>7. rest \o x \in Seq(S)
        BY ConcatProperties
      <4> QED
        BY <4>2, <4>6, <4>7
    <3> QED
      BY <3>1, <3>2
  <2> QED
    BY <2>5, <2>6
<1> HIDE DEF T
<1>3. Len(q) \in T
  BY <1>1, <1>2, NaturalInduction
<1>4. Split(q)
  <2>1. Len(q) <= Len(q)
    OBVIOUS
  <2> HIDE DEF Split
  <2> QED
    BY <1>3, <2>1 DEF T
<1> QED
  BY <1>4


\* The next sequence is joined to those before it.
LEMMA FlattenNext ==
    ASSUME NEW S, NEW q \in Seq(Seq(S)), NEW k \in 0..(Len(q) - 1)
    PROVE  FlattenSeq(SubSeq(q, 1, k + 1)) = FlattenSeq(SubSeq(q, 1, k)) \o q[k + 1]
<1>1. 1 \in 1..Len(q) /\ k + 1 \in 1..Len(q) /\ (k + 1) - 1 = k
  OBVIOUS
<1>2. q[k + 1] \in Seq(S) /\ SubSeq(q, 1, k) \in Seq(Seq(S))
  <2>1. q[k + 1] \in Seq(S)
    BY <1>1, ElementOfSeq
  <2>2. \A i \in 1..k : q[i] \in Seq(S)
    <3> TAKE i \in 1..k
    <3>1. i \in 1..Len(q)
      OBVIOUS
    <3> QED
      BY <3>1, ElementOfSeq
  <2>3. SubSeq(q, 1, k) \in Seq(Seq(S))
    BY <2>2, SubSeqProperties
  <2> QED
    BY <2>1, <2>3
<1>3. SubSeq(q, 1, k + 1) = SubSeq(q, 1, k) \o <<q[k + 1]>>
  <2>1. k + 1 \in 1..Len(q)
    BY <1>1
  <2>2. SubSeq(q, 1, k + 1) = SubSeq(q, 1, (k + 1) - 1) \o <<q[k + 1]>>
    BY <1>1, SubSeqRecursiveSecond
  <2> QED
    BY <1>1, <2>2
<1>4. SubSeq(q, 1, k + 1) = Append(SubSeq(q, 1, k), q[k + 1])
  BY <1>2, <1>3, AppendIsConcat
<1> QED
  BY <1>2, <1>4, FlattenAppend

WireBytes == [record : Nat, at : Nat]

\* A record on the wire is not empty, and its first byte tells which one it is.
LEMMA RecordIs ==
    ASSUME NEW i \in Nat, NEW data \in Seq(Units)
    PROVE  /\ RecordBytes(i, data) \in Seq(WireBytes)
           /\ Len(RecordBytes(i, data)) = RecordLength(data)
           /\ RecordLength(data) \in Nat /\ RecordLength(data) >= 1
           /\ RecordBytes(i, data)[1].record = i
<1>1. RecordLength(data) \in Nat /\ RecordLength(data) >= 1
  BY StreamAssumption DEF RecordLength
<1> DEFINE n == RecordLength(data)
           b == [j \in 1..n |-> [record |-> i, at |-> j]]
<1>2. b \in [1..n -> WireBytes]
  BY <1>1 DEF WireBytes
<1>3. 1 \in 1..n
  BY <1>1
<1>4. b[1].record = i
  BY <1>3
<1> HIDE DEF b, n
<1>5. n \in Nat
  BY <1>1 DEF n
<1>6. b \in Seq(WireBytes) /\ Len(b) = n
  BY <1>2, <1>5
<1> QED
  BY <1>1, <1>4, <1>6 DEF RecordBytes, b, n

\* The records of s on the wire, and the first k of them in a row.
RecordsOf(s) == [i \in DOMAIN s |-> RecordBytes(i, s[i])]
WireOf(s, k) == FlattenSeq(SubSeq(RecordsOf(s), 1, k))

\* The wire, record by record.
LEMMA WireIs ==
    ASSUME NEW s \in Seq(Seq(Units))
    PROVE  /\ WireOf(s, 0) = <<>>
           /\ \A k \in 0..Len(s) : WireOf(s, k) \in Seq(WireBytes)
           /\ \A k \in 0..(Len(s) - 1) :
                 WireOf(s, k + 1) = WireOf(s, k) \o RecordBytes(k + 1, s[k + 1])
           /\ \A k \in 0..Len(s) : \E rest \in Seq(WireBytes) :
                 WireOf(s, Len(s)) = WireOf(s, k) \o rest
           /\ WireOf(s, Len(s)) = FlattenSeq(RecordsOf(s))
<1> DEFINE q == RecordsOf(s)
           n == Len(s)
<1>1. n \in Nat /\ DOMAIN s = 1..n /\ \A i \in 1..n : s[i] \in Seq(Units)
  OBVIOUS
<1>2. q \in Seq(Seq(WireBytes)) /\ Len(q) = n /\ \A i \in 1..n : q[i] = RecordBytes(i, s[i])
  <2>1. \A i \in 1..n : RecordBytes(i, s[i]) \in Seq(WireBytes)
    BY <1>1, RecordIs
  <2>2. q = [i \in 1..n |-> RecordBytes(i, s[i])]
    BY <1>1 DEF RecordsOf
  <2>3. q \in [1..n -> Seq(WireBytes)]
    BY <2>1, <2>2
  <2> HIDE DEF q
  <2>4. q \in Seq(Seq(WireBytes)) /\ Len(q) = n
    BY <1>1, <2>3
  <2> QED
    BY <2>2, <2>4
<1> HIDE DEF q
<1>3. \A k \in 0..n : SubSeq(q, 1, k) \in Seq(Seq(WireBytes))
  <2> TAKE k \in 0..n
  <2>1. \A i \in 1..k : q[i] \in Seq(WireBytes)
    <3> TAKE i \in 1..k
    <3>1. i \in 1..Len(q)
      BY <1>2
    <3> QED
      BY <1>2, <3>1, ElementOfSeq
  <2> QED
    BY <2>1, SubSeqProperties
<1>4. WireOf(s, 0) = <<>>
  <2>1. SubSeq(q, 1, 0) = <<>>
    BY SubSeqEmpty
  <2> QED
    BY <2>1, FlattenAppend DEF WireOf, q
<1>5. ASSUME NEW k \in 0..n PROVE WireOf(s, k) \in Seq(WireBytes)
  BY <1>3, FlattenSplit DEF WireOf, q
<1>6. ASSUME NEW k \in 0..(n - 1)
      PROVE  WireOf(s, k + 1) = WireOf(s, k) \o RecordBytes(k + 1, s[k + 1])
  <2>1. k \in 0..(Len(q) - 1) /\ k + 1 \in 1..n
    BY <1>1, <1>2
  <2>2. FlattenSeq(SubSeq(q, 1, k + 1)) = FlattenSeq(SubSeq(q, 1, k)) \o q[k + 1]
    BY <1>2, <2>1, FlattenNext
  <2> QED
    BY <1>2, <2>1, <2>2 DEF WireOf, q
<1>7. SubSeq(q, 1, n) = q
  BY <1>2, SubSeqFull
<1>8. WireOf(s, n) = FlattenSeq(q)
  BY <1>7 DEF WireOf, q
<1>9. ASSUME NEW k \in 0..n
      PROVE  \E rest \in Seq(WireBytes) : WireOf(s, n) = WireOf(s, k) \o rest
  <2>1. k \in 0..Len(q)
    BY <1>2
  <2>2. PICK rest \in Seq(WireBytes) : FlattenSeq(q) = FlattenSeq(SubSeq(q, 1, k)) \o rest
    BY <1>2, <2>1, FlattenSplit
  <2> QED
    BY <1>8, <2>2 DEF WireOf, q
<1> QED
  BY <1>4, <1>5, <1>6, <1>8, <1>9 DEF q

\* What the writer p, e, s, f and the reader u, r, g have: what was written are the
\* records and the rest; as long as none failed to open, what was read are the first k
\* records, and the others are still to be read.
StreamSound(p, e, s, f, u, r, g) ==
    /\ p \in Seq(Units) /\ e \in Seq(Units) /\ s \in Seq(Seq(Units)) /\ f \in BOOLEAN
    /\ u \in Seq(WireBytes) /\ r \in Seq(Units)
    /\ g \in [data : Seq(Units), error : BOOLEAN, shortened : BOOLEAN]
    /\ p = FlattenSeq(s) \o e
    /\ IF f THEN e = <<>>
       ELSE /\ u = <<>> /\ r = <<>> /\ g.data = <<>>
            /\ g.error = FALSE /\ g.shortened = FALSE
    /\ \/ g.error
       \/ \E k \in 0..Len(s) :
             /\ g.data \o r = FlattenSeq(SubSeq(s, 1, k))
             /\ f => WireOf(s, k) \o u = WireOf(s, Len(s))
    /\ Len(s) = 1 /\ Whole(s[1]) /\ ~g.shortened => ~g.error

StreamInv == StreamSound(plain, pending, sealed, finished, unread, ready, got)

\* A smaller number of chunks is no longer.
LEMMA Multiples ==
    ASSUME NEW j \in Nat, NEW n \in Nat, j <= n, NEW size \in Nat
    PROVE  /\ j * size \in Nat /\ n * size \in Nat /\ j * size <= n * size
           /\ (j + 1) * size = j * size + size
<1>1. \A a, b \in Nat : a * b \in Nat
  OBVIOUS
<1>2. PICK d \in Nat : n = j + d
  <2>1. n - j \in Nat /\ n = j + (n - j)
    OBVIOUS
  <2> QED
    BY <2>1
<1>3. n * size = j * size + d * size
  BY <1>2
<1>4. j * size \in Nat /\ n * size \in Nat /\ d * size \in Nat
  BY <1>1, <1>2
<1>5. j * size <= n * size
  BY <1>3, <1>4
<1>6. (j + 1) * size = j * size + size
  OBVIOUS
<1> QED
  BY <1>4, <1>5, <1>6

\* The chunks cut off a buffer are the beginning of it.
LEMMA ChunksJoin ==
    ASSUME NEW s \in Seq(Seq(Units)), NEW b \in Seq(Units),
           NEW n \in Nat, n * ChunkUnits <= Len(b)
    PROVE  LET chunks == [i \in 1..n |-> SubSeq(b, (i - 1) * ChunkUnits + 1, i * ChunkUnits)]
           IN  /\ s \o chunks \in Seq(Seq(Units))
               /\ FlattenSeq(s \o chunks) = FlattenSeq(s) \o SubSeq(b, 1, n * ChunkUnits)
<1> DEFINE Chunk(i) == SubSeq(b, (i - 1) * ChunkUnits + 1, i * ChunkUnits)
           Chunks(k) == [i \in 1..k |-> Chunk(i)]
           Right(k) == /\ s \o Chunks(k) \in Seq(Seq(Units))
                       /\ Len(s \o Chunks(k)) = Len(s) + k
                       /\ FlattenSeq(s \o Chunks(k))
                              = FlattenSeq(s) \o SubSeq(b, 1, k * ChunkUnits)
           T == {k \in Nat : k <= n => Right(k)}
<1>1. ChunkUnits \in Nat
  BY StreamAssumption
<1>2. FlattenSeq(s) \in Seq(Units)
  BY FlattenSplit
<1>3. ASSUME NEW k \in Nat, k <= n
      PROVE  k * ChunkUnits \in Nat /\ k * ChunkUnits <= Len(b)
  <2>1. k * ChunkUnits \in Nat /\ n * ChunkUnits \in Nat /\ k * ChunkUnits <= n * ChunkUnits
    BY <1>1, <1>3, Multiples
  <2>2. Len(b) \in Nat
    OBVIOUS
  <2> HIDE DEF T
  <2>3. \A x, y, z \in Nat : x <= y /\ y <= z => x <= z
    OBVIOUS
  <2> QED
    BY <2>1, <2>2, <2>3
<1>4. ASSUME NEW k \in Nat, k <= n PROVE SubSeq(b, 1, k * ChunkUnits) \in Seq(Units)
  <2>1. k * ChunkUnits \in Nat /\ k * ChunkUnits <= Len(b)
    BY <1>3, <1>4
  <2>2. \A i \in 1..(k * ChunkUnits) : b[i] \in Units
    BY <2>1
  <2> QED
    BY <2>1, <2>2, SubSeqProperties
<1>5. 0 \in T
  <2>1. 0 * ChunkUnits = 0 /\ SubSeq(b, 1, 0) = <<>>
    BY <1>1, SubSeqEmpty
  <2>2. Chunks(0) = <<>>
    OBVIOUS
  <2> HIDE DEF Chunks
  <2>3. s \o Chunks(0) = s /\ FlattenSeq(s) \o <<>> = FlattenSeq(s)
    BY <1>2, <2>2, ConcatEmptySeq
  <2>4. Len(s) + 0 = Len(s)
    OBVIOUS
  <2>5. Right(0)
    BY <2>1, <2>3, <2>4
  <2> HIDE DEF Right
  <2> QED
    BY <2>5
<1>6. ASSUME NEW k \in Nat, k \in T PROVE k + 1 \in T
  <2> HIDE DEF Right
  <2>0. k <= k + 1 /\ k + 1 \in Nat /\ \A x, y, z \in Nat : x <= y /\ y <= z => x <= z
    OBVIOUS
  <2> SUFFICES ASSUME k + 1 <= n PROVE Right(k + 1)
    BY <2>0
  <2> DEFINE m == k * ChunkUnits
             c == Chunk(k + 1)
  <2>1. Right(k)
    BY <1>6, <2>0
  <2> USE DEF Right
  <2>2. (k + 1) * ChunkUnits = m + ChunkUnits /\ ((k + 1) - 1) * ChunkUnits = m
    <3>1. (k + 1) * ChunkUnits = k * ChunkUnits + ChunkUnits
      BY <1>1, Multiples
    <3>2. (k + 1) - 1 = k
      OBVIOUS
    <3> QED
      BY <3>1, <3>2
  <2>3. m \in Nat /\ m + ChunkUnits \in Nat /\ m + ChunkUnits <= Len(b)
    <3>1. k + 1 \in Nat /\ k <= n
      OBVIOUS
    <3> HIDE DEF m
    <3>2. (k + 1) * ChunkUnits <= Len(b)
      BY <1>3, <3>1
    <3>3. k * ChunkUnits \in Nat
      BY <1>1, Multiples
    <3> QED
      BY <1>1, <2>2, <3>2, <3>3 DEF m
  <2>4. c = SubSeq(b, m + 1, m + ChunkUnits)
    BY <2>2
  <2> HIDE DEF m, c
  <2>5. c \in Seq(Units)
    <3>1. \A i \in (m + 1)..(m + ChunkUnits) : b[i] \in Units
      <4> TAKE i \in (m + 1)..(m + ChunkUnits)
      <4> HIDE DEF T, Right
      <4>1. i \in 1..Len(b)
        BY <2>3, <1>1
      <4> QED
        BY <4>1
    <3>2. m + 1 \in Int /\ m + ChunkUnits \in Int
      BY <2>3
    <3> QED
      BY <2>4, <3>1, <3>2, SubSeqProperties
  <2>6. s \o Chunks(k + 1) = Append(s \o Chunks(k), c)
    <3> DEFINE C == Chunks(k)
               D == Chunks(k + 1)
    <3>1. /\ D = [i \in 1..(k + 1) |-> Chunk(i)] /\ C = [i \in 1..k |-> Chunk(i)]
          /\ D[k + 1] = c /\ \A i \in 1..k : D[i] = C[i]
      <4>1. c = Chunk(k + 1)
        BY DEF c
      <4> HIDE DEF Chunk, Right, T
      <4>2. k + 1 \in 1..(k + 1) /\ \A i \in 1..k : i \in 1..(k + 1)
        OBVIOUS
      <4> QED
        BY <4>1, <4>2
    <3>2. \A i \in 1..k : Chunk(i) \in Seq(Units)
      <4> TAKE i \in 1..k
      <4> DEFINE lo == (i - 1) * ChunkUnits
                 hi == i * ChunkUnits
      <4>1. i \in Nat /\ i - 1 \in Nat /\ i <= n /\ i - 1 <= n
        <5> HIDE DEF T
        <5> QED
          OBVIOUS
      <4>2. lo \in Nat /\ hi \in Nat /\ hi <= Len(b)
        BY <1>3, <4>1
      <4> HIDE DEF lo, hi
      <4>3. \A x \in (lo + 1)..hi : b[x] \in Units
        BY <4>2
      <4>4. SubSeq(b, lo + 1, hi) \in Seq(Units)
        BY <4>2, <4>3, SubSeqProperties
      <4> QED
        BY <4>4 DEF lo, hi
    <3>3. C \in [1..k -> Seq(Units)]
      BY <3>1, <3>2
    <3>4. D \in [1..(k + 1) -> Seq(Units)]
      <4>1. \A i \in 1..(k + 1) : D[i] \in Seq(Units)
        <5> TAKE i \in 1..(k + 1)
        <5>1. i \in 1..k \/ i = k + 1
          OBVIOUS
        <5> HIDE DEF Chunk, C, D
        <5> QED
          BY <2>5, <3>1, <3>3, <5>1
      <4>2. DOMAIN D = 1..(k + 1) /\ D = [i \in 1..(k + 1) |-> D[i]]
        OBVIOUS
      <4> HIDE DEF D
      <4> QED
        BY <4>1, <4>2
    <3> HIDE DEF C, D, Chunk
    <3>5. C \in Seq(Seq(Units)) /\ Len(C) = k /\ D \in Seq(Seq(Units)) /\ Len(D) = k + 1
      <4>1. k + 1 \in Nat
        OBVIOUS
      <4> QED
        BY <3>3, <3>4, <4>1
    <3>6. D = Append(C, c)
      <4>1. /\ Append(C, c) \in Seq(Seq(Units)) /\ Len(Append(C, c)) = k + 1
            /\ \A i \in 1..k : Append(C, c)[i] = C[i]
            /\ Append(C, c)[k + 1] = c
        BY <2>5, <3>5, AppendProperties
      <4>2. \A i \in 1..(k + 1) : D[i] = Append(C, c)[i]
        <5> TAKE i \in 1..(k + 1)
        <5>1. i \in 1..k \/ i = k + 1
          OBVIOUS
        <5> QED
          BY <3>1, <4>1, <5>1
      <4> QED
        BY <3>5, <4>1, <4>2, SeqEqual
    <3>7. <<c>> \in Seq(Seq(Units))
      BY <2>5
    <3>8. D = C \o <<c>>
      BY <2>5, <3>5, <3>6, AppendIsConcat
    <3>9. s \o D = (s \o C) \o <<c>>
      BY <3>5, <3>7, <3>8, Regrouped
    <3>10. s \o C \in Seq(Seq(Units))
      BY <3>5, ConcatProperties
    <3>11. s \o D = Append(s \o C, c)
      BY <2>5, <3>9, <3>10, AppendIsConcat
    <3> QED
      BY <3>11 DEF C, D
  <2> HIDE DEF Chunks, Chunk
  <2>7. s \o Chunks(k) \in Seq(Seq(Units)) /\ Len(s \o Chunks(k)) = Len(s) + k
    BY <2>1
  <2>8. s \o Chunks(k + 1) \in Seq(Seq(Units)) /\ Len(s \o Chunks(k + 1)) = Len(s) + (k + 1)
    <3>1. /\ s \o Chunks(k + 1) \in Seq(Seq(Units))
          /\ Len(s \o Chunks(k + 1)) = Len(s \o Chunks(k)) + 1
      <4> DEFINE joined == s \o Chunks(k)
      <4>1. joined \in Seq(Seq(Units)) /\ s \o Chunks(k + 1) = Append(joined, c)
        BY <2>6, <2>7
      <4> HIDE DEF joined
      <4>2. Append(joined, c) \in Seq(Seq(Units)) /\ Len(Append(joined, c)) = Len(joined) + 1
        BY <2>5, <4>1, AppendProperties
      <4> QED
        BY <4>1, <4>2 DEF joined
    <3>2. (Len(s) + k) + 1 = Len(s) + (k + 1)
      OBVIOUS
    <3> QED
      BY <2>7, <3>1, <3>2
  <2>9. FlattenSeq(s \o Chunks(k + 1)) = FlattenSeq(s \o Chunks(k)) \o c
    BY <2>5, <2>6, <2>7, FlattenAppend
  <2>10. SubSeq(b, 1, m) \o c = SubSeq(b, 1, m + ChunkUnits)
    <3>1. /\ 1 \in 1..(Len(b) + 1) /\ m \in 0..Len(b) /\ m \in (1 - 1)..Len(b)
          /\ m + ChunkUnits \in m..Len(b)
      BY <1>1, <2>3
    <3> QED
      BY <2>4, <3>1, ConcatAdjacentSubSeq
  <2>11. FlattenSeq(s \o Chunks(k)) = FlattenSeq(s) \o SubSeq(b, 1, m)
    BY <2>1 DEF m
  <2>12. SubSeq(b, 1, m) \in Seq(Units)
    <3>1. k <= n
      <4> HIDE DEF T
      <4> QED
        OBVIOUS
    <3> QED
      BY <1>4, <3>1 DEF m
  <2>13. FlattenSeq(s \o Chunks(k + 1)) = FlattenSeq(s) \o SubSeq(b, 1, m + ChunkUnits)
    <3> DEFINE x == FlattenSeq(s)
               y == SubSeq(b, 1, m)
    <3>1. x \in Seq(Units) /\ y \in Seq(Units)
      BY <1>2, <2>12
    <3> HIDE DEF x, y
    <3>2. (x \o y) \o c = x \o (y \o c)
      BY <2>5, <3>1, Regrouped, SMTT(60)
    <3> QED
      BY <2>9, <2>10, <2>11, <3>2 DEF x, y
  <2> QED
    BY <2>2, <2>8, <2>13
<1> HIDE DEF T
<1>7. n \in T
  BY <1>5, <1>6, NaturalInduction
<1>8. Right(n)
  <2> HIDE DEF Right
  <2>1. n <= n
    OBVIOUS
  <2> QED
    BY <1>7, <2>1 DEF T
<1> QED
  BY <1>8



\* Bytes on the wire may be regrouped.
LEMMA WireRegrouped ==
    \A x, y, z \in Seq(WireBytes) : (x \o y) \o z = x \o (y \o z)
BY Regrouped

\* What is still to be read begins with the next record.
LEMMA NextRecord ==
    ASSUME NEW s \in Seq(Seq(Units)), NEW k \in 0..Len(s), NEW u \in Seq(WireBytes),
           u # <<>>, WireOf(s, k) \o u = WireOf(s, Len(s))
    PROVE  /\ k + 1 \in 1..Len(s)
           /\ WireOf(s, k + 1) = WireOf(s, k) \o RecordBytes(k + 1, s[k + 1])
           /\ u[1].record = k + 1
           /\ k + 1 = Len(s) => u = RecordBytes(k + 1, s[k + 1])
<1> DEFINE before == WireOf(s, k)
           all == WireOf(s, Len(s))
           next == RecordBytes(k + 1, s[k + 1])
<1>1. before \in Seq(WireBytes) /\ all \in Seq(WireBytes) /\ Len(s) \in Nat
  <2>1. Len(s) \in Nat /\ Len(s) \in 0..Len(s)
    OBVIOUS
  <2> QED
    BY <2>1, WireIs
<1>2. k # Len(s)
  <2> SUFFICES ASSUME k = Len(s) PROVE FALSE
    OBVIOUS
  <2>1. before \o u = before
    OBVIOUS
  <2> HIDE DEF before
  <2>2. \A x, y \in Seq(WireBytes) : x \o y = x => y = <<>>
    BY ConcatSimplifications
  <2> QED
    BY <1>1, <2>1, <2>2
<1>3. k + 1 \in 1..Len(s) /\ k \in 0..(Len(s) - 1) /\ k + 1 \in 0..Len(s) /\ k + 1 \in Nat
  BY <1>1, <1>2
<1>4. s[k + 1] \in Seq(Units)
  BY <1>3
<1>5. WireOf(s, k + 1) = before \o next
  BY <1>3, WireIs
<1>6. next \in Seq(WireBytes) /\ Len(next) >= 1 /\ next[1].record = k + 1
  BY <1>3, <1>4, RecordIs
<1>7. PICK rest \in Seq(WireBytes) : all = WireOf(s, k + 1) \o rest
  BY <1>3, WireIs
<1>8. u = next \o rest
  <2> HIDE DEF before, all, next
  <2>1. all = before \o (next \o rest)
    <3>1. \A x, y, z \in Seq(WireBytes) : (x \o y) \o z = x \o (y \o z)
      BY WireRegrouped
    <3>2. (before \o next) \o rest = before \o (next \o rest)
      BY <1>1, <1>6, <1>7, <3>1
    <3> QED
      BY <1>5, <1>7, <3>2
  <2>2. next \o rest \in Seq(WireBytes)
    BY <1>6, <1>7, ConcatProperties
  <2>3. before \o u = before \o (next \o rest)
    BY <2>1 DEF before, all
  <2>4. \A x, y, z \in Seq(WireBytes) : x \o y = x \o z => y = z
    BY ConcatSimplifications
  <2> QED
    BY <1>1, <2>2, <2>3, <2>4
<1>9. u[1].record = k + 1
  <2> HIDE DEF next
  <2>1. 1 \in 1..(Len(next) + Len(rest)) /\ 1 <= Len(next)
    BY <1>6
  <2>2. (next \o rest)[1] = next[1]
    BY <1>6, <2>1, ConcatProperties
  <2> QED
    BY <1>6, <1>8, <2>2
<1>10. ASSUME k + 1 = Len(s) PROVE u = next
  <2> HIDE DEF next
  <2>1. WireOf(s, k + 1) = WireOf(s, k + 1) \o rest
    BY <1>7, <1>10 DEF all
  <2>2. WireOf(s, k + 1) \in Seq(WireBytes)
    BY <1>1, <1>10 DEF all
  <2>3. \A x, y \in Seq(WireBytes) : x \o y = x => y = <<>>
    BY ConcatSimplifications
  <2>4. rest = <<>>
    BY <1>7, <2>1, <2>2, <2>3
  <2> QED
    BY <1>6, <1>8, <2>4, ConcatEmptySeq
<1> QED
  BY <1>3, <1>5, <1>9, <1>10

\* What opens is the next record, and the records after it stay.
LEMMA OpenedIsNext ==
    ASSUME NEW s \in Seq(Seq(Units)), NEW k \in 0..Len(s), NEW u \in Seq(WireBytes),
           u # <<>>, WireOf(s, k) \o u = WireOf(s, Len(s)),
           NEW n \in 1..Len(u), NEW i \in 1..Len(s),
           SubSeq(u, 1, n) = RecordBytes(i, s[i])
    PROVE  /\ i = k + 1
           /\ WireOf(s, k + 1) \o SubSeq(u, n + 1, Len(u)) = WireOf(s, Len(s))
<1> DEFINE first == SubSeq(u, 1, n)
           later == SubSeq(u, n + 1, Len(u))
           before == WireOf(s, k)
<1>1. /\ k + 1 \in 1..Len(s) /\ u[1].record = k + 1
      /\ WireOf(s, k + 1) = before \o RecordBytes(k + 1, s[k + 1])
  BY NextRecord
<1>2. before \in Seq(WireBytes)
  BY WireIs
<1>3. i \in Nat /\ s[i] \in Seq(Units)
  OBVIOUS
<1>4. first[1].record = i
  BY <1>3, RecordIs
<1>5. first[1] = u[1]
  OBVIOUS
<1>6. i = k + 1
  BY <1>1, <1>4, <1>5
<1>7. first \o later = u
  <2>1. /\ 1 \in 1..(Len(u) + 1) /\ n \in (1 - 1)..Len(u) /\ Len(u) \in n..Len(u)
    OBVIOUS
  <2>2. first \o later = SubSeq(u, 1, Len(u))
    BY <2>1, ConcatAdjacentSubSeq
  <2> QED
    BY <2>2, SubSeqFull
<1>8. first \in Seq(WireBytes) /\ later \in Seq(WireBytes)
  <2>1. \A j \in 1..Len(u) : u[j] \in WireBytes
    OBVIOUS
  <2>2. \A j \in 1..n : u[j] \in WireBytes
    BY <2>1
  <2>3. \A j \in (n + 1)..Len(u) : u[j] \in WireBytes
    BY <2>1
  <2>4. n \in Int /\ n + 1 \in Int /\ Len(u) \in Int /\ 1 \in Int
    OBVIOUS
  <2>5. first \in Seq(WireBytes)
    BY <2>2, <2>4, SubSeqProperties
  <2> HIDE DEF later, first
  <2>6. SubSeq(u, n + 1, Len(u)) \in Seq(WireBytes)
    BY <2>3, <2>4, SubSeqProperties
  <2> QED
    BY <2>5, <2>6 DEF later
<1>9. WireOf(s, k + 1) = before \o first
  BY <1>1, <1>6
<1> HIDE DEF first, later, before
<1>10. (before \o first) \o later = before \o u
  <2>1. \A x, y, z \in Seq(WireBytes) : (x \o y) \o z = x \o (y \o z)
    BY WireRegrouped
  <2>2. (before \o first) \o later = before \o (first \o later)
    BY <1>2, <1>8, <2>1
  <2> QED
    BY <1>7, <2>2
<1> QED
  BY <1>6, <1>9, <1>10 DEF later, before

\* Writing: the full chunks become records, the rest stays in the buffer.
LEMMA WrittenIsSound ==
    ASSUME NEW p, NEW e, NEW s, NEW u, NEW r, NEW g,
           StreamSound(p, e, s, FALSE, u, r, g),
           NEW data \in Seq(Units), NEW n \in Nat, n = Len(e \o data) \div ChunkUnits
    PROVE  StreamSound(p \o data,
                       SubSeq(e \o data, n * ChunkUnits + 1, Len(e \o data)),
                       s \o [i \in 1..n |-> SubSeq(e \o data, (i - 1) * ChunkUnits + 1,
                                                   i * ChunkUnits)],
                       FALSE, u, r, g)
<1> DEFINE b == e \o data
           m == n * ChunkUnits
           left == SubSeq(b, m + 1, Len(b))
           all == s \o [i \in 1..n |-> SubSeq(b, (i - 1) * ChunkUnits + 1, i * ChunkUnits)]
<1>1. /\ p \in Seq(Units) /\ e \in Seq(Units) /\ s \in Seq(Seq(Units))
      /\ u \in Seq(WireBytes) /\ r \in Seq(Units)
      /\ g \in [data : Seq(Units), error : BOOLEAN, shortened : BOOLEAN]
      /\ p = FlattenSeq(s) \o e
      /\ u = <<>> /\ r = <<>> /\ g.data = <<>> /\ g.error = FALSE /\ g.shortened = FALSE
  BY DEF StreamSound
<1>2. b \in Seq(Units) /\ Len(b) \in Nat
  <2>1. b \in Seq(Units)
    BY <1>1, ConcatProperties
  <2> QED
    BY <2>1
<1> HIDE DEF b
<1>3. m \in Nat /\ m <= Len(b)
  <2>1. ChunkUnits \in Nat \ {0}
    BY StreamAssumption
  <2>2. n = Len(b) \div ChunkUnits
    BY DEF b
  <2>3. m \in Nat
    BY <2>1, Multiples
  <2>4. \A x \in Nat, c \in Nat \ {0} : (x \div c) * c <= x
    OBVIOUS
  <2> QED
    BY <1>2, <2>1, <2>2, <2>3, <2>4
<1>4. all \in Seq(Seq(Units)) /\ FlattenSeq(all) = FlattenSeq(s) \o SubSeq(b, 1, m)
  BY <1>1, <1>2, <1>3, ChunksJoin
<1> HIDE DEF all, m
<1>5. left \in Seq(Units) /\ SubSeq(b, 1, m) \in Seq(Units)
  <2>1. \A j \in 1..Len(b) : b[j] \in Units
    BY <1>2
  <2>2. \A j \in 1..m : b[j] \in Units
    BY <1>2, <1>3, <2>1
  <2>3. \A j \in (m + 1)..Len(b) : b[j] \in Units
    BY <1>2, <1>3, <2>1
  <2>4. m \in Int /\ m + 1 \in Int /\ Len(b) \in Int /\ 1 \in Int
    BY <1>2, <1>3
  <2>5. SubSeq(b, 1, m) \in Seq(Units)
    BY <2>2, <2>4, SubSeqProperties
  <2>6. SubSeq(b, m + 1, Len(b)) \in Seq(Units)
    BY <2>3, <2>4, SubSeqProperties
  <2> QED
    BY <2>5, <2>6
<1>6. SubSeq(b, 1, m) \o left = b
  <2>1. 1 \in 1..(Len(b) + 1) /\ m \in (1 - 1)..Len(b) /\ Len(b) \in m..Len(b)
    BY <1>2, <1>3
  <2>2. SubSeq(b, 1, m) \o left = SubSeq(b, 1, Len(b))
    BY <1>2, <2>1, ConcatAdjacentSubSeq
  <2> QED
    BY <1>2, <2>2, SubSeqFull
<1>7. p \o data \in Seq(Units) /\ p \o data = FlattenSeq(all) \o left
  <2> DEFINE x == FlattenSeq(s)
             y == SubSeq(b, 1, m)
  <2>1. x \in Seq(Units) /\ y \in Seq(Units)
    BY <1>1, <1>5, FlattenSplit
  <2> HIDE DEF x, y, left
  <2>2. \A c, d, f \in Seq(Units) : (c \o d) \o f = c \o (d \o f)
    BY Regrouped, SMTT(60)
  <2>3. (x \o e) \o data = x \o (e \o data)
    <3>1. e \in Seq(Units)
      BY <1>1
    <3> QED
      BY <2>1, <2>2, <3>1, Zenon
  <2>4. (x \o y) \o left = x \o (y \o left)
    BY <1>5, <2>1, <2>2
  <2>5. p \o data = x \o b
    BY <1>1, <2>3 DEF x, b
  <2>6. FlattenSeq(all) \o left = x \o b
    BY <1>4, <1>6, <2>4 DEF x, y
  <2> QED
    BY <1>1, <2>5, <2>6, ConcatProperties
<1>8. \E k \in 0..Len(all) : g.data \o r = FlattenSeq(SubSeq(all, 1, k))
  <2>1. 0 \in 0..Len(all)
    BY <1>4
  <2>2. SubSeq(all, 1, 0) = <<>> /\ FlattenSeq(<<>>) = <<>> /\ g.data \o r = <<>>
    BY <1>1, SubSeqEmpty, FlattenAppend
  <2> QED
    BY <2>1, <2>2
<1> HIDE DEF left
<1>9. StreamSound(p \o data, left, all, FALSE, u, r, g)
  BY <1>1, <1>4, <1>5, <1>7, <1>8 DEF StreamSound
<1> QED
  BY <1>9 DEF left, all, m, b

\* Finishing: the rest becomes the last record, and all of it is to be read.
LEMMA FinishedIsSound ==
    ASSUME NEW p, NEW e, NEW s, NEW u, NEW r, NEW g,
           StreamSound(p, e, s, FALSE, u, r, g),
           NEW all, all = IF e = <<>> THEN s ELSE Append(s, e)
    PROVE  StreamSound(p, <<>>, all, TRUE, FlattenSeq(RecordsOf(all)), r, g)
<1>1. /\ p \in Seq(Units) /\ e \in Seq(Units) /\ s \in Seq(Seq(Units))
      /\ u \in Seq(WireBytes) /\ r \in Seq(Units)
      /\ g \in [data : Seq(Units), error : BOOLEAN, shortened : BOOLEAN]
      /\ p = FlattenSeq(s) \o e
      /\ u = <<>> /\ r = <<>> /\ g.data = <<>> /\ g.error = FALSE /\ g.shortened = FALSE
  BY DEF StreamSound
<1>2. all \in Seq(Seq(Units)) /\ p = FlattenSeq(all) \o <<>>
  <2>1. FlattenSeq(s) \in Seq(Units)
    BY <1>1, FlattenSplit
  <2>2. CASE e = <<>>
    BY <1>1, <2>2
  <2>3. CASE e # <<>>
    <3>1. all = Append(s, e)
      BY <2>3
    <3>2. all \in Seq(Seq(Units))
      BY <1>1, <3>1, AppendProperties
    <3>3. FlattenSeq(all) = p
      BY <1>1, <3>1, FlattenAppend
    <3>4. p \o <<>> = p
      BY <1>1, ConcatEmptySeq
    <3> QED
      BY <3>2, <3>3, <3>4
  <2> QED
    BY <2>2, <2>3
<1> DEFINE wire == FlattenSeq(RecordsOf(all))
<1>3. wire = WireOf(all, Len(all)) /\ WireOf(all, 0) = <<>> /\ wire \in Seq(WireBytes)
  <2>1. Len(all) \in 0..Len(all)
    BY <1>2
  <2>2. WireOf(all, Len(all)) \in Seq(WireBytes)
    BY <1>2, <2>1, WireIs
  <2> QED
    BY <1>2, <2>2, WireIs
<1> HIDE DEF wire
<1>4. 0 \in 0..Len(all)
  BY <1>2
<1>5. g.data \o r = FlattenSeq(SubSeq(all, 1, 0))
  <2>1. SubSeq(all, 1, 0) = <<>> /\ FlattenSeq(<<>>) = <<>> /\ g.data \o r = <<>>
    BY <1>1, SubSeqEmpty, FlattenAppend
  <2> QED
    BY <2>1
<1>6. WireOf(all, 0) \o wire = WireOf(all, Len(all))
  BY <1>3, ConcatEmptySeq
<1>7. <<>> \in Seq(Units)
  OBVIOUS
<1>8. \E k \in 0..Len(all) :
         /\ g.data \o r = FlattenSeq(SubSeq(all, 1, k))
         /\ TRUE => WireOf(all, k) \o wire = WireOf(all, Len(all))
  BY <1>4, <1>5, <1>6
<1>9. StreamSound(p, <<>>, all, TRUE, wire, r, g)
  BY <1>1, <1>2, <1>3, <1>7, <1>8 DEF StreamSound
<1> QED
  BY <1>9 DEF wire

\* Filling the buffer before anything failed to open: what opens is the next record,
\* and a single record that fits opens unless the read was short.
LEMMA FilledIsSound ==
    ASSUME NEW p, NEW e, NEW s, NEW u, NEW g,
           StreamSound(p, e, s, TRUE, u, <<>>, g), ~g.error,
           u # <<>>, NEW n \in 1..ReadBuffer, n <= Len(u),
           NEW short \in BOOLEAN,
           short = (g.shortened \/ (n < ReadBuffer /\ n < Len(u)))
    PROVE  LET later == SubSeq(u, n + 1, Len(u))
           IN  IF \E i \in DOMAIN s : SubSeq(u, 1, n) = RecordBytes(i, s[i])
               THEN StreamSound(p, e, s, TRUE, later, s[u[1].record],
                                [g EXCEPT !.shortened = short])
               ELSE StreamSound(p, e, s, TRUE, later, <<>>,
                                [g EXCEPT !.error = TRUE, !.shortened = short])
<1> DEFINE later == SubSeq(u, n + 1, Len(u))
<1>1. /\ p \in Seq(Units) /\ e \in Seq(Units) /\ s \in Seq(Seq(Units))
      /\ u \in Seq(WireBytes)
      /\ g \in [data : Seq(Units), error : BOOLEAN, shortened : BOOLEAN]
      /\ p = FlattenSeq(s) \o e /\ e = <<>>
  BY DEF StreamSound
<1>2. PICK k \in 0..Len(s) :
         /\ g.data \o <<>> = FlattenSeq(SubSeq(s, 1, k))
         /\ WireOf(s, k) \o u = WireOf(s, Len(s))
  BY DEF StreamSound
<1>3. g.data \o <<>> = g.data
  BY <1>1, ConcatEmptySeq
<1>4. n \in 1..Len(u) /\ Len(u) \in Nat /\ n \in Nat
  BY <1>1, StreamAssumption DEF ReadBuffer
<1>5. later \in Seq(WireBytes)
  <2>1. \A j \in 1..Len(u) : u[j] \in WireBytes
    BY <1>1
  <2>2. \A j \in (n + 1)..Len(u) : u[j] \in WireBytes
    BY <1>4, <2>1
  <2>3. n + 1 \in Int /\ Len(u) \in Int
    BY <1>4
  <2> QED
    BY <2>2, <2>3, SubSeqProperties
<1>6. /\ k + 1 \in 1..Len(s) /\ u[1].record = k + 1
      /\ k + 1 = Len(s) => u = RecordBytes(k + 1, s[k + 1])
  BY <1>1, <1>2, NextRecord
<1>7. ASSUME NEW i \in DOMAIN s, SubSeq(u, 1, n) = RecordBytes(i, s[i])
      PROVE  StreamSound(p, e, s, TRUE, later, s[u[1].record],
                         [g EXCEPT !.shortened = short])
  <2> DEFINE h == [g EXCEPT !.shortened = short]
  <2>1. h.data = g.data /\ h.error = FALSE
        /\ h \in [data : Seq(Units), error : BOOLEAN, shortened : BOOLEAN]
    BY <1>1
  <2> HIDE DEF h
  <2>2. i \in 1..Len(s)
    BY <1>1, <1>7
  <2>3. WireOf(s, k + 1) \o later = WireOf(s, Len(s))
    BY <1>1, <1>2, <1>4, <1>7, <2>2, OpenedIsNext
  <2> HIDE DEF later
  <2>4. s[k + 1] \in Seq(Units) /\ k + 1 \in 0..Len(s) /\ k \in 0..(Len(s) - 1)
    BY <1>1, <1>6
  <2>5. g.data \o s[k + 1] = FlattenSeq(SubSeq(s, 1, k + 1))
    BY <1>1, <1>2, <1>3, <2>4, FlattenNext
  <2>6. \E j \in 0..Len(s) :
           /\ h.data \o s[k + 1] = FlattenSeq(SubSeq(s, 1, j))
           /\ TRUE => WireOf(s, j) \o later = WireOf(s, Len(s))
    BY <2>1, <2>3, <2>4, <2>5
  <2>7. StreamSound(p, e, s, TRUE, later, s[k + 1], h)
    BY <1>1, <1>5, <2>1, <2>4, <2>6 DEF StreamSound
  <2> QED
    BY <1>6, <2>7 DEF h
<1>8. ASSUME ~\E i \in DOMAIN s : SubSeq(u, 1, n) = RecordBytes(i, s[i])
      PROVE  StreamSound(p, e, s, TRUE, later, <<>>,
                         [g EXCEPT !.error = TRUE, !.shortened = short])
  <2> DEFINE h == [g EXCEPT !.error = TRUE, !.shortened = short]
  <2>1. h.data = g.data /\ h.error = TRUE /\ h.shortened = short
        /\ h \in [data : Seq(Units), error : BOOLEAN, shortened : BOOLEAN]
    BY <1>1
  <2> HIDE DEF h
  <2>2. ASSUME Len(s) = 1, Whole(s[1]), ~short PROVE FALSE
    <3>0. 1 \in DOMAIN s /\ s[1] \in Seq(Units)
      <4>1. s \in Seq(Seq(Units)) /\ 1 \in 1..Len(s)
        BY <1>1, <2>2
      <4> QED
        BY <4>1, ElementOfSeq
    <3>1. k + 1 = 1 /\ 1 \in DOMAIN s /\ s[1] \in Seq(Units)
      <4>1. k + 1 \in 1..1
        BY <1>6, <2>2
      <4> QED
        BY <3>0, <4>1
    <3>2. u = RecordBytes(1, s[1])
      BY <1>6, <2>2, <3>1
    <3>3. Len(u) = RecordLength(s[1]) /\ RecordLength(s[1]) \in Nat
      BY <3>1, <3>2, RecordIs
    <3>4. Len(u) <= ReadBuffer /\ ReadBuffer \in Nat
      BY <2>2, <3>3, StreamAssumption DEF Whole, ReadBuffer
    <3>5. n = Len(u)
      <4>1. ~(n < ReadBuffer /\ n < Len(u)) /\ n <= Len(u)
        BY <2>2
      <4> QED
        BY <1>4, <3>4, <4>1
    <3>6. SubSeq(u, 1, n) = u
      BY <1>1, <3>5, SubSeqFull
    <3> QED
      BY <1>8, <3>1, <3>2, <3>6
  <2> HIDE DEF later
  <2>3. <<>> \in Seq(Units)
    OBVIOUS
  <2>4. StreamSound(p, e, s, TRUE, later, <<>>, h)
    BY <1>1, <1>5, <2>1, <2>2, <2>3 DEF StreamSound
  <2> QED
    BY <2>4 DEF h
<1> HIDE DEF later
<1>9. IF \E i \in DOMAIN s : SubSeq(u, 1, n) = RecordBytes(i, s[i])
      THEN StreamSound(p, e, s, TRUE, later, s[u[1].record], [g EXCEPT !.shortened = short])
      ELSE StreamSound(p, e, s, TRUE, later, <<>>,
                       [g EXCEPT !.error = TRUE, !.shortened = short])
  BY <1>7, <1>8
<1> QED
  BY <1>9 DEF later

\* Filling the buffer after something failed to open: what opens is some record.
LEMMA FilledBehindError ==
    ASSUME NEW p, NEW e, NEW s, NEW u, NEW g,
           StreamSound(p, e, s, TRUE, u, <<>>, g), g.error,
           u # <<>>, NEW n \in 1..ReadBuffer, n <= Len(u),
           NEW short \in BOOLEAN,
           short = (g.shortened \/ (n < ReadBuffer /\ n < Len(u)))
    PROVE  LET later == SubSeq(u, n + 1, Len(u))
           IN  IF \E i \in DOMAIN s : SubSeq(u, 1, n) = RecordBytes(i, s[i])
               THEN StreamSound(p, e, s, TRUE, later, s[u[1].record],
                                [g EXCEPT !.shortened = short])
               ELSE StreamSound(p, e, s, TRUE, later, <<>>,
                                [g EXCEPT !.error = TRUE, !.shortened = short])
<1> DEFINE later == SubSeq(u, n + 1, Len(u))
<1>1. /\ p \in Seq(Units) /\ e \in Seq(Units) /\ s \in Seq(Seq(Units))
      /\ u \in Seq(WireBytes)
      /\ g \in [data : Seq(Units), error : BOOLEAN, shortened : BOOLEAN]
      /\ p = FlattenSeq(s) \o e /\ e = <<>>
      /\ ~(Len(s) = 1 /\ Whole(s[1]) /\ ~g.shortened)
  BY DEF StreamSound
<1>2. later \in Seq(WireBytes) /\ n \in 1..Len(u)
  <2>1. n \in 1..Len(u)
    BY <1>1, StreamAssumption DEF ReadBuffer
  <2>2. \A j \in (n + 1)..Len(u) : u[j] \in WireBytes
    BY <1>1, <2>1
  <2>3. n + 1 \in Int /\ Len(u) \in Int
    BY <1>1, <2>1
  <2> QED
    BY <2>1, <2>2, <2>3, SubSeqProperties
<1>3. ASSUME NEW r \in Seq(Units), NEW h,
             h \in [data : Seq(Units), error : BOOLEAN, shortened : BOOLEAN],
             h.error, h.shortened = short
      PROVE  StreamSound(p, e, s, TRUE, later, r, h)
  <2> HIDE DEF later
  <2> QED
    BY <1>1, <1>2, <1>3 DEF StreamSound
<1>4. ASSUME NEW i \in DOMAIN s, SubSeq(u, 1, n) = RecordBytes(i, s[i])
      PROVE  s[u[1].record] \in Seq(Units)
  <2>1. i \in Nat /\ s[i] \in Seq(Units)
    BY <1>1
  <2>2. RecordBytes(i, s[i])[1].record = i
    BY <2>1, RecordIs
  <2>3. SubSeq(u, 1, n)[1] = u[1]
    BY <1>1, <1>2
  <2> QED
    BY <1>4, <2>1, <2>2, <2>3
<1> DEFINE h1 == [g EXCEPT !.shortened = short]
           h2 == [g EXCEPT !.error = TRUE, !.shortened = short]
<1>5. /\ h1 \in [data : Seq(Units), error : BOOLEAN, shortened : BOOLEAN]
      /\ h1.error /\ h1.shortened = short
      /\ h2 \in [data : Seq(Units), error : BOOLEAN, shortened : BOOLEAN]
      /\ h2.error /\ h2.shortened = short
  BY <1>1
<1>6. <<>> \in Seq(Units)
  OBVIOUS
<1> HIDE DEF later, h1, h2
<1>7. IF \E i \in DOMAIN s : SubSeq(u, 1, n) = RecordBytes(i, s[i])
      THEN StreamSound(p, e, s, TRUE, later, s[u[1].record], h1)
      ELSE StreamSound(p, e, s, TRUE, later, <<>>, h2)
  BY <1>3, <1>4, <1>5, <1>6
<1> QED
  BY <1>7 DEF later, h1, h2

\* Reading: what leaves the buffer is what was returned.
LEMMA ReadIsSound ==
    ASSUME NEW p, NEW e, NEW s, NEW f, NEW u, NEW r, NEW g,
           StreamSound(p, e, s, f, u, r, g), NEW n \in 1..Len(r)
    PROVE  StreamSound(p, e, s, f, u, SubSeq(r, n + 1, Len(r)),
                       [g EXCEPT !.data = @ \o SubSeq(r, 1, n)])
<1> DEFINE taken == SubSeq(r, 1, n)
           left == SubSeq(r, n + 1, Len(r))
           h == [g EXCEPT !.data = @ \o taken]
<1>1. /\ p \in Seq(Units) /\ e \in Seq(Units) /\ s \in Seq(Seq(Units)) /\ f \in BOOLEAN
      /\ u \in Seq(WireBytes) /\ r \in Seq(Units)
      /\ g \in [data : Seq(Units), error : BOOLEAN, shortened : BOOLEAN]
      /\ p = FlattenSeq(s) \o e
      /\ Len(s) = 1 /\ Whole(s[1]) /\ ~g.shortened => ~g.error
  BY DEF StreamSound
<1>2. f = TRUE /\ e = <<>>
  <2>1. r # <<>>
    BY <1>1
  <2> QED
    BY <1>1, <2>1 DEF StreamSound
<1>3. Len(r) \in Nat /\ n \in Nat /\ n <= Len(r)
  BY <1>1
<1>4. taken \in Seq(Units) /\ left \in Seq(Units)
  <2>1. \A j \in 1..Len(r) : r[j] \in Units
    BY <1>1
  <2>2. \A j \in 1..n : r[j] \in Units
    BY <1>3, <2>1
  <2>3. \A j \in (n + 1)..Len(r) : r[j] \in Units
    BY <1>3, <2>1
  <2>4. n \in Int /\ n + 1 \in Int /\ Len(r) \in Int /\ 1 \in Int
    BY <1>3
  <2>5. SubSeq(r, 1, n) \in Seq(Units)
    BY <2>2, <2>4, SubSeqProperties
  <2>6. SubSeq(r, n + 1, Len(r)) \in Seq(Units)
    BY <2>3, <2>4, SubSeqProperties
  <2> QED
    BY <2>5, <2>6
<1>5. taken \o left = r
  <2>1. 1 \in 1..(Len(r) + 1) /\ n \in (1 - 1)..Len(r) /\ Len(r) \in n..Len(r)
    BY <1>3
  <2>2. taken \o left = SubSeq(r, 1, Len(r))
    BY <1>1, <2>1, ConcatAdjacentSubSeq
  <2> QED
    BY <1>1, <2>2, SubSeqFull
<1> HIDE DEF taken, left
<1>6. g.data \in Seq(Units) /\ g.data \o taken \in Seq(Units)
  BY <1>1, <1>4, ConcatProperties
<1>7. h.data = g.data \o taken /\ h.error = g.error /\ h.shortened = g.shortened
  BY <1>1
<1>8. h \in [data : Seq(Units), error : BOOLEAN, shortened : BOOLEAN]
  BY <1>1, <1>6
<1> HIDE DEF h
<1>9. h.data \o left = g.data \o r
  <2> DEFINE before == g.data
  <2>1. (before \o taken) \o left = before \o (taken \o left)
    <3>1. before \in Seq(Units)
      BY <1>6
    <3> HIDE DEF before
    <3> QED
      BY <1>4, <3>1, Regrouped
  <2> QED
    BY <1>5, <1>7, <2>1
<1>10. h.error \/ \E k \in 0..Len(s) :
                       /\ h.data \o left = FlattenSeq(SubSeq(s, 1, k))
                       /\ f => WireOf(s, k) \o u = WireOf(s, Len(s))
  BY <1>7, <1>9 DEF StreamSound
<1>11. StreamSound(p, e, s, f, u, left, h)
  BY <1>1, <1>2, <1>4, <1>7, <1>8, <1>10 DEF StreamSound
<1> QED
  BY <1>11 DEF left, h, taken

\* The bytes of u are bytes of the records s, in the order they were written.
InOrder(s, u) ==
    /\ \A x \in DOMAIN u : /\ u[x].record \in DOMAIN s
                           /\ u[x].at <= RecordLength(s[u[x].record])
    /\ \A x, y \in DOMAIN u : x < y =>
          \/ u[x].record < u[y].record
          \/ u[x].record = u[y].record /\ u[x].at < u[y].at

\* The wire is in order.
LEMMA WireInOrder ==
    ASSUME NEW s \in Seq(Seq(Units))
    PROVE  InOrder(s, WireOf(s, Len(s)))
<1> DEFINE N == Len(s)
           Upto(w, k) == \A x \in DOMAIN w : w[x].record \in 1..k
           T == {k \in Nat : k <= N =>
                    InOrder(s, WireOf(s, k)) /\ Upto(WireOf(s, k), k)}
<1>1. N \in Nat /\ DOMAIN s = 1..N
  OBVIOUS
<1>2. 0 \in T
  <2>1. WireOf(s, 0) = <<>>
    BY WireIs
  <2>2. InOrder(s, <<>>) /\ Upto(<<>>, 0)
    BY DEF InOrder
  <2> HIDE DEF Upto
  <2> QED
    BY <2>1, <2>2
<1>3. ASSUME NEW k \in Nat, k \in T PROVE k + 1 \in T
  <2> SUFFICES ASSUME k + 1 <= N
               PROVE  InOrder(s, WireOf(s, k + 1)) /\ Upto(WireOf(s, k + 1), k + 1)
    OBVIOUS
  <2> DEFINE a == WireOf(s, k)
             b == RecordBytes(k + 1, s[k + 1])
             w == WireOf(s, k + 1)
             m == RecordLength(s[k + 1])
  <2>1. k \in 0..N /\ k \in 0..(N - 1) /\ k + 1 \in 0..N /\ k + 1 \in 1..N /\ k + 1 \in Nat
    BY <1>1
  <2>2. s[k + 1] \in Seq(Units)
    BY <2>1, ElementOfSeq
  <2>3. a \in Seq(WireBytes) /\ b \in Seq(WireBytes) /\ Len(b) = m /\ m \in Nat /\ w = a \o b
    BY <2>1, <2>2, WireIs, RecordIs
  <2>4. InOrder(s, a) /\ Upto(a, k)
    BY <1>1, <1>3, <2>1
  <2>5. \A j \in 1..m : b[j].record = k + 1 /\ b[j].at = j
    BY DEF RecordBytes
  <2> HIDE DEF a, b, w, m
  <2> DEFINE n == Len(a)
  <2>6. /\ n \in Nat /\ DOMAIN a = 1..n /\ DOMAIN w = 1..(n + m)
        /\ \A x \in 1..(n + m) : w[x] = IF x <= n THEN a[x] ELSE b[x - n]
    <3>1. n \in Nat /\ DOMAIN a = 1..n
      BY <2>3
    <3>2. /\ w \in Seq(WireBytes) /\ Len(w) = n + m
          /\ \A x \in 1..(n + m) : w[x] = IF x <= n THEN a[x] ELSE b[x - n]
      BY <2>3, ConcatProperties
    <3>3. DOMAIN w = 1..Len(w)
      BY <3>2
    <3> QED
      BY <3>1, <3>2, <3>3
  <2> HIDE DEF n
  <2>7. \A x \in 1..(n + m) : x <= n => x \in 1..n /\ w[x] = a[x]
    BY <2>3, <2>6
  <2>8. \A x \in 1..(n + m) : ~(x <= n) =>
           x - n \in 1..m /\ w[x].record = k + 1 /\ w[x].at = x - n
    BY <2>3, <2>5, <2>6
  <2>9. \A x \in 1..n : a[x].record \in 1..k
    BY <2>4, <2>6
  <2>10. Upto(w, k + 1)
    <3> TAKE x \in DOMAIN w
    <3>1. CASE x <= n
      <4>1. w[x].record \in 1..k
        BY <2>6, <2>7, <2>9, <3>1
      <4> QED
        BY <4>1
    <3>2. CASE ~(x <= n)
      BY <2>6, <2>8, <3>2
    <3> QED
      BY <3>1, <3>2
  <2>11. ASSUME NEW x \in DOMAIN w
         PROVE  w[x].record \in DOMAIN s /\ w[x].at <= RecordLength(s[w[x].record])
    <3>1. CASE x <= n
      <4>1. x \in DOMAIN a /\ w[x] = a[x]
        BY <2>6, <2>7, <3>1
      <4> QED
        BY <2>4, <4>1 DEF InOrder
    <3>2. CASE ~(x <= n)
      <4>1. x - n \in 1..m /\ w[x].record = k + 1 /\ w[x].at = x - n
        BY <2>6, <2>8, <3>2
      <4>2. x - n <= RecordLength(s[k + 1])
        BY <4>1 DEF m
      <4> QED
        BY <1>1, <2>1, <4>1, <4>2
    <3> QED
      BY <3>1, <3>2
  <2>12. ASSUME NEW x \in DOMAIN w, NEW y \in DOMAIN w, x < y
         PROVE  \/ w[x].record < w[y].record
                \/ w[x].record = w[y].record /\ w[x].at < w[y].at
    <3>0. x \in Nat /\ y \in Nat
      BY <2>3, <2>6
    <3>1. CASE y <= n
      <4>1. x <= n
        BY <2>6, <2>12, <3>0, <3>1
      <4>2. x \in DOMAIN a /\ y \in DOMAIN a /\ w[x] = a[x] /\ w[y] = a[y]
        BY <2>6, <2>7, <3>1, <4>1
      <4> QED
        BY <2>4, <2>12, <4>2 DEF InOrder
    <3>2. CASE x <= n /\ ~(y <= n)
      <4>1. w[x].record \in 1..k /\ w[y].record = k + 1
        BY <2>6, <2>7, <2>8, <2>9, <3>2
      <4> QED
        BY <4>1
    <3>3. CASE ~(x <= n) /\ ~(y <= n)
      <4>1. /\ w[x].record = k + 1 /\ w[x].at = x - n
            /\ w[y].record = k + 1 /\ w[y].at = y - n
        BY <2>6, <2>8, <3>3
      <4>2. x - n < y - n
        BY <2>6, <2>12, <3>0
      <4> QED
        BY <4>1, <4>2
    <3> QED
      BY <2>6, <2>12, <3>0, <3>1, <3>2, <3>3
  <2>13. InOrder(s, w)
    BY <2>11, <2>12 DEF InOrder
  <2> HIDE DEF Upto
  <2> QED
    BY <2>10, <2>13 DEF w
<1> HIDE DEF T
<1>4. N \in T
  BY <1>1, <1>2, <1>3, NaturalInduction
<1> QED
  BY <1>1, <1>4 DEF T

\* What is left of bytes in order is in order, and behind a record that was taken off
\* whole there are only later ones.
LEMMA LaterInOrder ==
    ASSUME NEW s \in Seq(Seq(Units)), NEW u \in Seq(WireBytes), InOrder(s, u),
           NEW n \in 1..Len(u)
    PROVE  LET later == SubSeq(u, n + 1, Len(u))
           IN  /\ later \in Seq(WireBytes) /\ InOrder(s, later)
               /\ \A x \in DOMAIN later : \E y \in DOMAIN u : later[x] = u[y]
               /\ \A i \in DOMAIN s : SubSeq(u, 1, n) = RecordBytes(i, s[i]) =>
                     /\ u[1].record = i
                     /\ \A x \in DOMAIN later : i < later[x].record
<1> DEFINE later == SubSeq(u, n + 1, Len(u))
<1>1. Len(u) \in Nat /\ DOMAIN u = 1..Len(u) /\ \A y \in 1..Len(u) : u[y] \in WireBytes
  OBVIOUS
<1>2. /\ later \in Seq(WireBytes)
      /\ DOMAIN later = 1..(Len(u) - n)
      /\ \A x \in 1..(Len(u) - n) : later[x] = u[n + x]
  <2>1. \A y \in (n + 1)..Len(u) : u[y] \in WireBytes
    BY <1>1
  <2>2. n + 1 \in Int /\ Len(u) \in Int
    BY <1>1
  <2>3. SubSeq(u, n + 1, Len(u)) \in Seq(WireBytes)
    BY <2>1, <2>2, SubSeqProperties
  <2>4. later = [x \in 1..(Len(u) - n) |-> u[n + x]]
    <3>1. later = [x \in 1..(Len(u) - (n + 1) + 1) |-> u[x + (n + 1) - 1]]
      OBVIOUS
    <3>2. Len(u) - (n + 1) + 1 = Len(u) - n
      BY <1>1
    <3>3. \A x \in 1..(Len(u) - n) : x + (n + 1) - 1 = n + x
      BY <1>1
    <3> QED
      BY <3>1, <3>2, <3>3
  <2> QED
    BY <2>3, <2>4
<1> HIDE DEF later
<1>3. \A x \in DOMAIN later : n + x \in DOMAIN u /\ n < n + x /\ later[x] = u[n + x]
  BY <1>1, <1>2
<1>4. InOrder(s, later)
  <2>1. ASSUME NEW x \in DOMAIN later
        PROVE  /\ later[x].record \in DOMAIN s
               /\ later[x].at <= RecordLength(s[later[x].record])
    BY <1>3 DEF InOrder
  <2>2. ASSUME NEW x \in DOMAIN later, NEW y \in DOMAIN later, x < y
        PROVE  \/ later[x].record < later[y].record
               \/ later[x].record = later[y].record /\ later[x].at < later[y].at
    <3>1. n + x < n + y
      BY <1>1, <1>2, <2>2
    <3>2. /\ n + x \in DOMAIN u /\ later[x] = u[n + x]
          /\ n + y \in DOMAIN u /\ later[y] = u[n + y]
      BY <1>3
    <3>3. \/ u[n + x].record < u[n + y].record
          \/ u[n + x].record = u[n + y].record /\ u[n + x].at < u[n + y].at
      BY <3>1, <3>2 DEF InOrder
    <3> QED
      BY <3>2, <3>3
  <2> QED
    BY <2>1, <2>2 DEF InOrder
<1>5. ASSUME NEW i \in DOMAIN s, SubSeq(u, 1, n) = RecordBytes(i, s[i])
      PROVE  u[1].record = i /\ \A x \in DOMAIN later : i < later[x].record
  <2>1. i \in Nat /\ s[i] \in Seq(Units)
    OBVIOUS
  <2>2. /\ RecordBytes(i, s[i]) \in Seq(WireBytes)
        /\ Len(RecordBytes(i, s[i])) = RecordLength(s[i])
        /\ RecordBytes(i, s[i])[1].record = i
    BY <2>1, RecordIs
  <2>3. /\ Len(SubSeq(u, 1, n)) = n
        /\ \A y \in 1..n : SubSeq(u, 1, n)[y] = u[y]
    BY <1>1
  <2>4. n = RecordLength(s[i]) /\ u[1].record = i
    BY <1>1, <1>5, <2>2, <2>3
  <2>5. u[n].record = i /\ u[n].at = n
    <3>1. n \in 1..n
      OBVIOUS
    <3>2. RecordBytes(i, s[i])[n] = [record |-> i, at |-> n]
      BY <2>4, <3>1 DEF RecordBytes
    <3> QED
      BY <1>5, <2>3, <3>1, <3>2
  <2>6. ASSUME NEW x \in DOMAIN later PROVE i < later[x].record
    <3>1. \/ u[n].record < u[n + x].record
          \/ u[n].record = u[n + x].record /\ u[n].at < u[n + x].at
      BY <1>1, <1>3 DEF InOrder
    <3>2. u[n + x].at <= RecordLength(s[u[n + x].record]) /\ u[n + x].at \in Nat
      BY <1>1, <1>3 DEF InOrder, WireBytes
    <3>3. ~(u[n].record = u[n + x].record /\ u[n].at < u[n + x].at)
      BY <2>4, <2>5, <3>2
    <3> QED
      BY <1>3, <2>5, <3>1, <3>3
  <2> QED
    BY <2>4, <2>6
<1>6. \A x \in DOMAIN later : \E y \in DOMAIN u : later[x] = u[y]
  BY <1>3
<1>7. /\ later \in Seq(WireBytes) /\ InOrder(s, later)
      /\ \A x \in DOMAIN later : \E y \in DOMAIN u : later[x] = u[y]
      /\ \A i \in DOMAIN s : SubSeq(u, 1, n) = RecordBytes(i, s[i]) =>
            /\ u[1].record = i
            /\ \A x \in DOMAIN later : i < later[x].record
  BY <1>2, <1>4, <1>5, <1>6
<1> QED
  BY <1>7 DEF later

\* What the reader u, r, g has returned of the records s are those whose numbers are in
\* o, and what it has still to read lies behind them.
OpenedSound(s, f, u, r, g, o) ==
    /\ o \in Seq(Nat)
    /\ \A i \in DOMAIN o : o[i] \in DOMAIN s
    /\ \A i, j \in DOMAIN o : i < j => o[i] < o[j]
    /\ g.data \o r = FlattenSeq([i \in DOMAIN o |-> s[o[i]]])
    /\ ~f => o = <<>>
    /\ InOrder(s, u)
    /\ \A i \in DOMAIN o, x \in DOMAIN u : o[i] < u[x].record

OpenedInv == OpenedSound(sealed, finished, unread, ready, got, opened)

\* A record that opens is the next of those returned.
LEMMA OpenedNext ==
    ASSUME NEW s \in Seq(Seq(Units)), NEW u \in Seq(WireBytes),
           NEW g, g.data \in Seq(Units), NEW o, OpenedSound(s, TRUE, u, <<>>, g, o),
           NEW n \in 1..Len(u), NEW i \in DOMAIN s, SubSeq(u, 1, n) = RecordBytes(i, s[i]),
           NEW h, h.data = g.data
    PROVE  /\ u[1].record = i
           /\ OpenedSound(s, TRUE, SubSeq(u, n + 1, Len(u)), s[i], h, Append(o, i))
<1> DEFINE later == SubSeq(u, n + 1, Len(u))
           p == Append(o, i)
           m == Len(o)
<1>1. /\ o \in Seq(Nat) /\ \A j \in DOMAIN o : o[j] \in DOMAIN s
      /\ \A j, l \in DOMAIN o : j < l => o[j] < o[l]
      /\ g.data \o <<>> = FlattenSeq([j \in DOMAIN o |-> s[o[j]]])
      /\ InOrder(s, u) /\ \A j \in DOMAIN o, x \in DOMAIN u : o[j] < u[x].record
  BY DEF OpenedSound
<1>2. /\ InOrder(s, later) /\ u[1].record = i /\ \A x \in DOMAIN later : i < later[x].record
      /\ \A x \in DOMAIN later : \E y \in DOMAIN u : later[x] = u[y]
  <2>1. InOrder(s, u)
    BY <1>1
  <2>2. /\ InOrder(s, later)
        /\ \A x \in DOMAIN later : \E y \in DOMAIN u : later[x] = u[y]
        /\ \A j \in DOMAIN s : SubSeq(u, 1, n) = RecordBytes(j, s[j]) =>
              /\ u[1].record = j
              /\ \A x \in DOMAIN later : j < later[x].record
    BY <2>1, LaterInOrder
  <2> QED
    BY <2>2
<1> HIDE DEF later
<1>3. i \in Nat /\ s[i] \in Seq(Units) /\ \A j \in DOMAIN s : s[j] \in Seq(Units)
  OBVIOUS
<1>4. /\ m \in Nat /\ p \in Seq(Nat) /\ DOMAIN o = 1..m /\ DOMAIN p = 1..(m + 1)
      /\ p[m + 1] = i /\ \A j \in 1..m : p[j] = o[j]
  BY <1>1, <1>3, AppendProperties
<1> HIDE DEF p, m
<1>5. \A j \in 1..(m + 1) : j = m + 1 \/ (j \in 1..m /\ j < m + 1)
  BY <1>4
<1>6. \A j \in 1..m : o[j] < i
  <2>1. 1 \in DOMAIN u
    OBVIOUS
  <2> QED
    BY <1>1, <1>2, <1>4, <2>1
<1>7. \A j \in DOMAIN p : p[j] \in DOMAIN s
  BY <1>1, <1>4, <1>5
<1>8. \A j, l \in DOMAIN p : j < l => p[j] < p[l]
  <2> TAKE j, l \in DOMAIN p
  <2> HAVE j < l
  <2>1. j \in 1..m /\ p[j] = o[j]
    <3>1. j \in 1..(m + 1) /\ l \in 1..(m + 1)
      BY <1>4
    <3>2. j \in 1..m
      BY <1>4, <3>1
    <3> QED
      BY <1>4, <3>2
  <2>2. CASE l = m + 1
    BY <1>4, <1>6, <2>1, <2>2
  <2>3. CASE l # m + 1
    <3>1. l \in 1..m /\ p[l] = o[l]
      BY <1>4, <1>5, <2>3
    <3> QED
      BY <1>1, <1>4, <2>1, <3>1
  <2> QED
    BY <2>2, <2>3
<1>9. \A j \in DOMAIN p, x \in DOMAIN later : p[j] < later[x].record
  BY <1>1, <1>2, <1>4, <1>5
<1>10. h.data \o s[i] = FlattenSeq([j \in DOMAIN p |-> s[p[j]]])
  <2> DEFINE c == [j \in DOMAIN o |-> s[o[j]]]
             d == [j \in DOMAIN p |-> s[p[j]]]
  <2>1. c \in Seq(Seq(Units)) /\ Len(c) = m
    <3>1. \A j \in 1..m : s[o[j]] \in Seq(Units)
      BY <1>1, <1>3, <1>4
    <3>2. c = [j \in 1..m |-> s[o[j]]]
      BY <1>4
    <3>3. c \in [1..m -> Seq(Units)]
      BY <3>1, <3>2
    <3> HIDE DEF c
    <3> QED
      BY <1>4, <3>3
  <2>2. d = Append(c, s[i])
    <3>1. d = [j \in 1..(m + 1) |-> s[p[j]]]
      BY <1>4
    <3>2. d \in [1..(m + 1) -> Seq(Units)]
      <4>1. \A j \in 1..(m + 1) : s[p[j]] \in Seq(Units)
        BY <1>3, <1>4, <1>7
      <4> QED
        BY <3>1, <4>1
    <3>3. \A j \in 1..m : c[j] = s[o[j]]
      BY <1>4
    <3>4. \A j \in 1..(m + 1) : d[j] = s[p[j]]
      BY <3>1
    <3> HIDE DEF c, d
    <3>5. d \in Seq(Seq(Units)) /\ Len(d) = m + 1
      BY <1>4, <3>2
    <3>6. /\ Append(c, s[i]) \in Seq(Seq(Units)) /\ Len(Append(c, s[i])) = m + 1
          /\ Append(c, s[i])[m + 1] = s[i]
          /\ \A j \in 1..m : Append(c, s[i])[j] = c[j]
      BY <1>3, <2>1, AppendProperties
    <3>7. \A j \in 1..(m + 1) : d[j] = Append(c, s[i])[j]
      <4> TAKE j \in 1..(m + 1)
      <4>1. CASE j = m + 1
        BY <1>4, <3>4, <3>6, <4>1
      <4>2. CASE j # m + 1
        <5>1. j \in 1..m
          BY <1>5, <4>2
        <5> QED
          BY <1>4, <3>3, <3>4, <3>6, <5>1
      <4> QED
        BY <4>1, <4>2
    <3> QED
      BY <3>5, <3>6, <3>7, SeqEqual
  <2> HIDE DEF c, d
  <2>3. FlattenSeq(d) = FlattenSeq(c) \o s[i]
    BY <1>3, <2>1, <2>2, FlattenAppend
  <2>4. g.data = FlattenSeq(c)
    BY <1>1, ConcatEmptySeq DEF c
  <2> QED
    BY <2>3, <2>4 DEF d
<1>11. OpenedSound(s, TRUE, later, s[i], h, p)
  BY <1>2, <1>4, <1>7, <1>8, <1>9, <1>10 DEF OpenedSound
<1> QED
  BY <1>2, <1>11 DEF later, p

\* Such a stream returns what was written.
LEMMA SoundIsFaithful ==
    ASSUME StreamInv, OpenedInv PROVE StreamFaithful
<1> DEFINE p == plain
           s == sealed
           out == got.data \o ready
<1>1. /\ p \in Seq(Units) /\ pending \in Seq(Units) /\ s \in Seq(Seq(Units))
      /\ p = FlattenSeq(s) \o pending /\ (finished => pending = <<>>)
      /\ unread \in Seq(WireBytes)
      /\ Len(s) = 1 /\ Whole(s[1]) /\ ~got.shortened => ~got.error
  BY DEF StreamInv, StreamSound
<1>2. ASSUME ~got.error
      PROVE  \E k \in 0..Len(s) :
                /\ out = FlattenSeq(SubSeq(s, 1, k))
                /\ finished => WireOf(s, k) \o unread = WireOf(s, Len(s))
  BY <1>2 DEF StreamInv, StreamSound
<1>3. /\ out = FlattenSeq([i \in DOMAIN opened |-> s[opened[i]]])
      /\ \A i, j \in DOMAIN opened : i < j => opened[i] < opened[j]
  BY DEF OpenedInv, OpenedSound
<1> HIDE DEF out, p, s
<1>4. ASSUME ~got.error
      PROVE  IsPrefix(out, p) /\ (finished /\ unread = <<>> => out = p)
  <2>1. /\ p \in Seq(Units) /\ pending \in Seq(Units) /\ s \in Seq(Seq(Units))
        /\ p = FlattenSeq(s) \o pending /\ (finished => pending = <<>>)
        /\ unread \in Seq(WireBytes)
    BY <1>1
  <2>2. PICK k \in 0..Len(s) :
           /\ out = FlattenSeq(SubSeq(s, 1, k))
           /\ finished => WireOf(s, k) \o unread = WireOf(s, Len(s))
    BY <1>2, <1>4
  <2>3. PICK rest \in Seq(Units) : FlattenSeq(s) = out \o rest
    BY <2>1, <2>2, FlattenSplit
  <2>4. out \in Seq(Units)
    <3>1. \A i \in 1..k : s[i] \in Seq(Units)
      <4> TAKE i \in 1..k
      <4>1. i \in 1..Len(s)
        BY <2>1
      <4> QED
        BY <2>1, <4>1, ElementOfSeq
    <3>2. SubSeq(s, 1, k) \in Seq(Seq(Units))
      BY <3>1, SubSeqProperties
    <3> QED
      BY <2>2, <3>2, FlattenSplit
  <2>5. IsPrefix(out, p)
    <3> DEFINE after == rest \o pending
    <3>1. after \in Seq(Units) /\ p = out \o after
      <4>1. rest \o pending \in Seq(Units)
        BY <2>1, <2>3, ConcatProperties
      <4>2. (out \o rest) \o pending = out \o (rest \o pending)
        BY <2>1, <2>3, <2>4, Regrouped
      <4> QED
        BY <2>1, <2>3, <4>1, <4>2
    <3> HIDE DEF after
    <3>2. Len(out) <= Len(p) /\ \A j \in 1..Len(out) : p[j] = out[j]
      <4>1. /\ Len(p) = Len(out) + Len(after)
            /\ \A j \in 1..(Len(out) + Len(after)) :
                  p[j] = IF j <= Len(out) THEN out[j] ELSE after[j - Len(out)]
        BY <2>4, <3>1, ConcatProperties
      <4>2. Len(out) \in Nat /\ Len(after) \in Nat
        BY <2>4, <3>1
      <4> QED
        BY <4>1, <4>2
    <3>3. SubSeq(out, 1, Len(out)) = SubSeq(p, 1, Len(out))
      <4>1. Len(out) \in Nat
        BY <2>4
      <4>2. [j \in 1..Len(out) |-> out[j]] = [j \in 1..Len(out) |-> p[j]]
        BY <3>2
      <4> QED
        BY <3>2, <4>1, <4>2
    <3> QED
      BY <3>2, <3>3 DEF IsPrefix
  <2>6. ASSUME finished, unread = <<>> PROVE out = p
    <3>1. k = Len(s)
      <4>1. Len(s) \in Nat /\ Len(s) \in 0..Len(s)
        BY <2>1
      <4>2. WireOf(s, k) \in Seq(WireBytes)
        BY <2>1, WireIs
      <4>3. WireOf(s, k) = WireOf(s, Len(s))
        BY <2>2, <2>6, <4>2, ConcatEmptySeq
      <4> SUFFICES ASSUME k # Len(s) PROVE FALSE
        OBVIOUS
      <4>4. k \in 0..(Len(s) - 1) /\ k + 1 \in 1..Len(s) /\ k + 1 \in 0..Len(s) /\ k + 1 \in Nat
        BY <4>1
      <4> DEFINE next == RecordBytes(k + 1, s[k + 1])
      <4>5. s[k + 1] \in Seq(Units)
        BY <2>1, <4>4, ElementOfSeq
      <4>6. next \in Seq(WireBytes) /\ Len(next) >= 1
        BY <4>4, <4>5, RecordIs
      <4>7. WireOf(s, k + 1) = WireOf(s, k) \o next /\ WireOf(s, k + 1) \in Seq(WireBytes)
        BY <2>1, <4>4, WireIs
      <4>8. PICK more \in Seq(WireBytes) : WireOf(s, Len(s)) = WireOf(s, k + 1) \o more
        BY <2>1, <4>4, WireIs
      <4> DEFINE a == WireOf(s, k)
                 b == WireOf(s, k + 1)
      <4>9. Len(b) = Len(a) + Len(next) /\ Len(a) = Len(b) + Len(more)
        <5>1. a \in Seq(WireBytes) /\ b \in Seq(WireBytes) /\ b = a \o next /\ a = b \o more
          BY <4>2, <4>3, <4>7, <4>8
        <5> HIDE DEF a, b, next
        <5> QED
          BY <4>6, <5>1, ConcatProperties
      <4>10. Len(a) \in Nat /\ Len(b) \in Nat /\ Len(next) \in Nat /\ Len(more) \in Nat
        BY <4>2, <4>6, <4>7, <4>8, LenProperties
      <4> HIDE DEF a, b, next
      <4> QED
        BY <4>6, <4>9, <4>10
    <3>2. SubSeq(s, 1, k) = s
      BY <2>1, <3>1, SubSeqFull
    <3>3. FlattenSeq(s) \o <<>> = FlattenSeq(s)
      BY <2>1, FlattenSplit, ConcatEmptySeq
    <3> QED
      BY <2>1, <2>2, <2>6, <3>2, <3>3
  <2> QED
    BY <2>5, <2>6
<1> QED
  BY <1>1, <1>3, <1>4 DEF StreamFaithful, out, s, p

\* The writer and the reader keep what they have sound, in the initial states and in
\* every step.
LEMMA StreamStaysSound ==
    /\ ClockInit /\ StreamInit => StreamInv
    /\ StreamInv /\ [StreamNext]_<<clockVars, streamVars>> => StreamInv'
<1>1. ASSUME StreamInit PROVE StreamInv
  <2>1. /\ <<>> \in Seq(Units) /\ <<>> \in Seq(Seq(Units)) /\ <<>> \in Seq(WireBytes)
        /\ Len(<<>>) = 0 /\ 0 \in 0..0
    OBVIOUS
  <2>2. FlattenSeq(<<>>) = <<>> /\ SubSeq(<<>>, 1, 0) = <<>>
    BY FlattenAppend, SubSeqEmpty
  <2>3. <<>> \o <<>> = <<>>
    OBVIOUS
  <2> DEFINE g == [data |-> <<>>, error |-> FALSE, shortened |-> FALSE]
  <2>4. g \in [data : Seq(Units), error : BOOLEAN, shortened : BOOLEAN]
        /\ g.data = <<>> /\ g.error = FALSE /\ g.shortened = FALSE
    BY <2>1
  <2> HIDE DEF g
  <2>5. \E k \in 0..Len(<<>>) :
           /\ g.data \o <<>> = FlattenSeq(SubSeq(<<>>, 1, k))
           /\ FALSE => WireOf(<<>>, k) \o <<>> = WireOf(<<>>, Len(<<>>))
    BY <2>1, <2>2, <2>3, <2>4
  <2>6. StreamSound(<<>>, <<>>, <<>>, FALSE, <<>>, <<>>, g)
    BY <2>1, <2>2, <2>3, <2>4, <2>5 DEF StreamSound
  <2> QED
    BY <1>1, <2>6 DEF StreamInit, StreamInv, g
<1>2. ASSUME StreamInv, NEW data \in Seq(Units), WriteUnits(data) PROVE StreamInv'
  <2> DEFINE buffered == pending \o data
             full == Len(buffered) \div ChunkUnits
  <2>1. StreamSound(plain, pending, sealed, FALSE, unread, ready, got) /\ finished' = FALSE
    BY <1>2 DEF WriteUnits, StreamInv, StreamSound
  <2>2. full \in Nat
    <3>1. buffered \in Seq(Units)
      BY <2>1, ConcatProperties DEF StreamSound
    <3>2. Len(buffered) \in Nat /\ ChunkUnits \in Nat \ {0}
      BY <3>1, StreamAssumption
    <3> QED
      BY <3>2
  <2>3. /\ plain' = plain \o data
        /\ sealed' = sealed \o [i \in 1..full |->
                         SubSeq(buffered, (i - 1) * ChunkUnits + 1, i * ChunkUnits)]
        /\ pending' = SubSeq(buffered, full * ChunkUnits + 1, Len(buffered))
        /\ unread' = unread /\ ready' = ready /\ got' = got
    BY <1>2 DEF WriteUnits
  <2>4. full = Len(pending \o data) \div ChunkUnits
    OBVIOUS
  <2> HIDE DEF full
  <2>5. StreamSound(plain \o data,
                    SubSeq(pending \o data, full * ChunkUnits + 1, Len(pending \o data)),
                    sealed \o [i \in 1..full |-> SubSeq(pending \o data,
                                   (i - 1) * ChunkUnits + 1, i * ChunkUnits)],
                    FALSE, unread, ready, got)
    BY <2>1, <2>2, <2>4, WrittenIsSound
  <2> QED
    BY <2>1, <2>3, <2>5 DEF StreamInv
<1>3. ASSUME StreamInv, FinishStream PROVE StreamInv'
  <2>1. StreamSound(plain, pending, sealed, FALSE, unread, ready, got)
    BY <1>3 DEF FinishStream, StreamInv, StreamSound
  <2>2. /\ plain' = plain /\ pending' = <<>> /\ finished' = TRUE
        /\ sealed' = IF pending = <<>> THEN sealed ELSE Append(sealed, pending)
        /\ unread' = FlattenSeq(RecordsOf(sealed')) /\ ready' = ready /\ got' = got
    BY <1>3 DEF FinishStream, RecordsOf
  <2>3. StreamSound(plain, <<>>, sealed', TRUE, FlattenSeq(RecordsOf(sealed')), ready, got)
    BY <2>1, <2>2, FinishedIsSound
  <2> QED
    BY <2>2, <2>3 DEF StreamInv
<1>4. ASSUME StreamInv, NEW n \in 1..ReadBuffer, FillBuffer(n) PROVE StreamInv'
  <2> DEFINE short == got.shortened \/ (n < ReadBuffer /\ n < Len(unread))
             later == SubSeq(unread, n + 1, Len(unread))
             found == \E i \in DOMAIN sealed :
                         SubSeq(unread, 1, n) = RecordBytes(i, sealed[i])
  <2>1. /\ StreamSound(plain, pending, sealed, TRUE, unread, <<>>, got)
        /\ unread # <<>> /\ n <= Len(unread)
    BY <1>4 DEF FillBuffer, StreamInv, StreamSound
  <2>2. /\ plain' = plain /\ pending' = pending /\ sealed' = sealed /\ finished' = TRUE
        /\ unread' = later
        /\ IF found
           THEN ready' = sealed[unread[1].record] /\ got' = [got EXCEPT !.shortened = short]
           ELSE ready' = <<>> /\ got' = [got EXCEPT !.error = TRUE, !.shortened = short]
    BY <1>4, <2>1 DEF FillBuffer, Opens, Buffered, StreamSound, StreamInv
  <2>3. short \in BOOLEAN
    BY <2>1 DEF StreamSound
  <2>4. short = (got.shortened \/ (n < ReadBuffer /\ n < Len(unread)))
    OBVIOUS
  <2> HIDE DEF short
  <2>5. IF found
        THEN StreamSound(plain, pending, sealed, TRUE, later, sealed[unread[1].record],
                         [got EXCEPT !.shortened = short])
        ELSE StreamSound(plain, pending, sealed, TRUE, later, <<>>,
                         [got EXCEPT !.error = TRUE, !.shortened = short])
    BY <2>1, <2>3, <2>4, FilledIsSound, FilledBehindError
  <2> HIDE DEF found, later
  <2>6. CASE found
    BY <2>2, <2>5, <2>6 DEF StreamInv
  <2>7. CASE ~found
    BY <2>2, <2>5, <2>7 DEF StreamInv
  <2> QED
    BY <2>6, <2>7
<1>5. ASSUME StreamInv, NEW n, ReadUnits(n) PROVE StreamInv'
  <2>1. StreamSound(plain, pending, sealed, finished, unread,
                    SubSeq(ready, n + 1, Len(ready)),
                    [got EXCEPT !.data = @ \o SubSeq(ready, 1, n)])
    BY <1>5, ReadIsSound DEF ReadUnits, StreamInv
  <2>2. /\ plain' = plain /\ pending' = pending /\ sealed' = sealed
        /\ finished' = finished /\ unread' = unread
        /\ ready' = SubSeq(ready, n + 1, Len(ready))
        /\ got' = [got EXCEPT !.data = @ \o SubSeq(ready, 1, n)]
    BY <1>5 DEF ReadUnits
  <2> QED
    BY <2>1, <2>2 DEF StreamInv
<1>6. ASSUME StreamInv, [StreamNext]_<<clockVars, streamVars>> PROVE StreamInv'
  <2>1. CASE UNCHANGED <<clockVars, streamVars>>
    BY <1>6, <2>1 DEF StreamInv, streamVars
  <2>2. CASE StreamNext
    <3>1. ASSUME NEW v \in Units, NEW w \in Units,
                 WriteUnits(<<v>>) \/ WriteUnits(<<v, w, v>>)
          PROVE  StreamInv'
      <4>1. <<v>> \in Seq(Units) /\ <<v, w, v>> \in Seq(Units)
        OBVIOUS
      <4> QED
        BY <1>2, <1>6, <3>1, <4>1
    <3> QED
      BY <1>3, <1>4, <1>5, <1>6, <2>2, <3>1 DEF StreamNext
  <2> QED
    BY <1>6, <2>1, <2>2
<1> QED
  BY <1>1, <1>6

\* What was opened stays in order, in the initial states and in every step.
LEMMA OpenedStaysSound ==
    /\ ClockInit /\ StreamInit => OpenedInv
    /\ StreamInv /\ OpenedInv /\ [StreamNext]_<<clockVars, streamVars>> => OpenedInv'
<1>0. ASSUME NEW s, NEW f, NEW u, NEW g, g.data = <<>>, InOrder(s, u)
      PROVE  OpenedSound(s, f, u, <<>>, g, <<>>)
  <2>1. /\ [i \in DOMAIN <<>> |-> s[(<<>>)[i]]] = <<>>
        /\ FlattenSeq(<<>>) = <<>> /\ <<>> \o <<>> = <<>>
    BY FlattenAppend
  <2> QED
    BY <1>0, <2>1 DEF OpenedSound
<1>1. ASSUME StreamInit PROVE OpenedInv
  <2>1. /\ unread = <<>> /\ ready = <<>> /\ opened = <<>> /\ got.data = <<>>
    BY <1>1 DEF StreamInit
  <2>2. InOrder(sealed, <<>>)
    BY DEF InOrder
  <2> QED
    BY <1>0, <2>1, <2>2 DEF OpenedInv
<1>2. ASSUME StreamInv, OpenedInv, NEW data \in Seq(Units), WriteUnits(data)
      PROVE  OpenedInv'
  <2>1. /\ unread' = <<>> /\ ready' = <<>> /\ got'.data = <<>> /\ opened' = <<>>
    BY <1>2 DEF WriteUnits, StreamInv, StreamSound, OpenedInv, OpenedSound
  <2>2. InOrder(sealed', <<>>)
    BY DEF InOrder
  <2> QED
    BY <1>0, <2>1, <2>2 DEF OpenedInv
<1>3. ASSUME StreamInv, OpenedInv, FinishStream PROVE OpenedInv'
  <2>1. /\ ready' = <<>> /\ got'.data = <<>> /\ opened' = <<>>
        /\ unread' = FlattenSeq(RecordsOf(sealed'))
        /\ sealed' = IF pending = <<>> THEN sealed ELSE Append(sealed, pending)
        /\ sealed \in Seq(Seq(Units)) /\ pending \in Seq(Units)
    BY <1>3 DEF FinishStream, RecordsOf, StreamInv, StreamSound, OpenedInv, OpenedSound
  <2>2. sealed' \in Seq(Seq(Units))
    <3>1. Append(sealed, pending) \in Seq(Seq(Units))
      BY <2>1, AppendProperties
    <3> QED
      BY <2>1, <3>1
  <2>3. InOrder(sealed', unread')
    <3>1. \A s \in Seq(Seq(Units)) : InOrder(s, FlattenSeq(RecordsOf(s)))
      BY WireInOrder, WireIs
    <3> QED
      BY <2>1, <2>2, <3>1
  <2> QED
    BY <1>0, <2>1, <2>3 DEF OpenedInv
<1>4. ASSUME StreamInv, OpenedInv, NEW n \in 1..ReadBuffer, FillBuffer(n) PROVE OpenedInv'
  <2> DEFINE short == got.shortened \/ (n < ReadBuffer /\ n < Len(unread))
             later == SubSeq(unread, n + 1, Len(unread))
             h1 == [got EXCEPT !.shortened = short]
             h2 == [got EXCEPT !.error = TRUE, !.shortened = short]
  <2>1. /\ OpenedSound(sealed, TRUE, unread, <<>>, got, opened)
        /\ n \in 1..Len(unread)
        /\ sealed \in Seq(Seq(Units)) /\ unread \in Seq(WireBytes)
        /\ got \in [data : Seq(Units), error : BOOLEAN, shortened : BOOLEAN]
        /\ sealed' = sealed /\ finished' = TRUE /\ unread' = later /\ ready = <<>>
    <3>1. n \in Nat /\ n <= Len(unread) /\ n >= 1
      BY <1>4, StreamAssumption DEF FillBuffer, ReadBuffer
    <3>2. /\ sealed \in Seq(Seq(Units)) /\ unread \in Seq(WireBytes)
          /\ got \in [data : Seq(Units), error : BOOLEAN, shortened : BOOLEAN]
      BY <1>4 DEF StreamInv, StreamSound
    <3>3. n \in 1..Len(unread)
      BY <3>1, <3>2
    <3>4. finished = TRUE
      BY <1>4 DEF FillBuffer, StreamInv, StreamSound
    <3> QED
      BY <1>4, <3>2, <3>3, <3>4 DEF FillBuffer, OpenedInv
  <2>2. h1.data = got.data /\ h2.data = got.data /\ got.data \in Seq(Units)
    BY <2>1
  <2>3. CASE \E i \in DOMAIN sealed : SubSeq(unread, 1, n) = RecordBytes(i, sealed[i])
    <3>1. PICK i \in DOMAIN sealed : SubSeq(unread, 1, n) = RecordBytes(i, sealed[i])
      BY <2>3
    <3>2. /\ ready' = sealed[unread[1].record]
          /\ opened' = Append(opened, unread[1].record) /\ got' = h1
      BY <1>4, <2>3 DEF FillBuffer, Opens, Buffered
    <3> HIDE DEF h1
    <3>3. /\ unread[1].record = i
          /\ OpenedSound(sealed, TRUE, SubSeq(unread, n + 1, Len(unread)), sealed[i], h1,
                         Append(opened, i))
      BY <2>1, <2>2, <3>1, OpenedNext
    <3> QED
      BY <2>1, <3>2, <3>3 DEF OpenedInv
  <2>4. CASE ~\E i \in DOMAIN sealed : SubSeq(unread, 1, n) = RecordBytes(i, sealed[i])
    <3>1. ready' = <<>> /\ opened' = opened /\ got' = h2
      BY <1>4, <2>1, <2>4 DEF FillBuffer, Opens, Buffered
    <3> HIDE DEF h2
    <3>2. /\ InOrder(sealed, later)
          /\ \A x \in DOMAIN later : \E y \in DOMAIN unread : later[x] = unread[y]
      <4>1. InOrder(sealed, unread)
        BY <2>1 DEF OpenedSound
      <4>2. /\ InOrder(sealed, SubSeq(unread, n + 1, Len(unread)))
            /\ \A x \in DOMAIN SubSeq(unread, n + 1, Len(unread)) :
                  \E y \in DOMAIN unread :
                     SubSeq(unread, n + 1, Len(unread))[x] = unread[y]
        BY <2>1, <4>1, LaterInOrder
      <4> QED
        BY <4>2
    <3> HIDE DEF later
    <3>3. OpenedSound(sealed, TRUE, later, <<>>, h2, opened)
      BY <2>1, <2>2, <3>2 DEF OpenedSound
    <3> QED
      BY <2>1, <3>1, <3>3 DEF OpenedInv
  <2> QED
    BY <2>3, <2>4
<1>5. ASSUME StreamInv, OpenedInv, NEW n, ReadUnits(n) PROVE OpenedInv'
  <2> DEFINE taken == SubSeq(ready, 1, n)
             left == SubSeq(ready, n + 1, Len(ready))
  <2>1. /\ ready \in Seq(Units) /\ got.data \in Seq(Units) /\ n \in 1..Len(ready)
        /\ got \in [data : Seq(Units), error : BOOLEAN, shortened : BOOLEAN]
    BY <1>5 DEF ReadUnits, StreamInv, StreamSound
  <2>2. got'.data = got.data \o taken /\ ready' = left
    BY <1>5, <2>1 DEF ReadUnits
  <2>3. taken \in Seq(Units) /\ left \in Seq(Units)
    <3>1. \A j \in 1..Len(ready) : ready[j] \in Units
      BY <2>1
    <3>2. n \in Int /\ n + 1 \in Int /\ Len(ready) \in Int /\ 1 \in Int
      BY <2>1
    <3>3. /\ \A j \in 1..n : ready[j] \in Units
          /\ \A j \in (n + 1)..Len(ready) : ready[j] \in Units
      BY <2>1, <3>1
    <3>4. SubSeq(ready, 1, n) \in Seq(Units)
      BY <3>2, <3>3, SubSeqProperties
    <3>5. SubSeq(ready, n + 1, Len(ready)) \in Seq(Units)
      BY <3>2, <3>3, SubSeqProperties
    <3> QED
      BY <3>4, <3>5
  <2>4. taken \o left = ready
    <3>1. /\ 1 \in 1..(Len(ready) + 1) /\ n \in (1 - 1)..Len(ready)
          /\ Len(ready) \in n..Len(ready)
      BY <2>1
    <3>2. taken \o left = SubSeq(ready, 1, Len(ready))
      BY <2>1, <3>1, ConcatAdjacentSubSeq
    <3> QED
      BY <2>1, <3>2, SubSeqFull
  <2> HIDE DEF taken, left
  <2>5. got'.data \o ready' = got.data \o ready
    <3>1. \A x \in Seq(Units) : (x \o taken) \o left = x \o (taken \o left)
      BY <2>3, Regrouped
    <3> QED
      BY <2>1, <2>2, <2>4, <3>1
  <2>6. /\ sealed' = sealed /\ finished' = finished /\ unread' = unread /\ opened' = opened
    BY <1>5 DEF ReadUnits
  <2> QED
    BY <1>5, <2>5, <2>6 DEF OpenedInv, OpenedSound
<1>6. ASSUME StreamInv, OpenedInv, [StreamNext]_<<clockVars, streamVars>> PROVE OpenedInv'
  <2>1. CASE UNCHANGED <<clockVars, streamVars>>
    BY <1>6, <2>1 DEF OpenedInv, streamVars
  <2>2. CASE StreamNext
    <3>1. ASSUME NEW v \in Units, NEW w \in Units,
                 WriteUnits(<<v>>) \/ WriteUnits(<<v, w, v>>)
          PROVE  OpenedInv'
      <4>1. <<v>> \in Seq(Units) /\ <<v, w, v>> \in Seq(Units)
        OBVIOUS
      <4> QED
        BY <1>2, <1>6, <3>1, <4>1
    <3> QED
      BY <1>3, <1>4, <1>5, <1>6, <2>2, <3>1 DEF StreamNext
  <2> QED
    BY <1>6, <2>1, <2>2
<1> QED
  BY <1>1, <1>6

\* The reader returns whole records of what was written, each once and in their order,
\* whatever the sizes of the chunks, the nonce and the tag and in whatever pieces it
\* reads, and the beginning of it until a call fails; a single record that fits its
\* buffer it returns without an error and to the end.
THEOREM StreamsReadFaithfully == StreamSpec => []StreamFaithful
<1>1. ClockInit /\ StreamInit => StreamInv /\ OpenedInv
  BY StreamStaysSound, OpenedStaysSound
<1>2. /\ StreamInv /\ OpenedInv /\ [StreamNext]_<<clockVars, streamVars>>
      => StreamInv' /\ OpenedInv'
  BY StreamStaysSound, OpenedStaysSound
<1>3. StreamInv /\ OpenedInv => StreamFaithful
  BY SoundIsFaithful
<1> QED
  BY <1>1, <1>2, <1>3, PTL DEF StreamSpec

=============================================================================
