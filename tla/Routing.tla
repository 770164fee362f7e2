------------------------------- MODULE Routing -------------------------------
(***************************************************************************)
(* The storage and transfer routers of the transport: tables from what is  *)
(* asked for to a storage type, a path, and an estimate.                   *)
(***************************************************************************)
EXTENDS ServerClock, Integers

CONSTANTS Regions,
          DataSizes,     \* sizes in bytes
          PreferDirect,  \* TransferConfig.prefer_direct
          PrimaryStorage,\* StorageBackend.primary
          BandwidthLimit \* TransferConfig.bandwidth_limit, 0 for unlimited

ASSUME RoutingAssumption ==
    /\ DataSizes \subseteq Nat
    /\ PreferDirect \in BOOLEAN
    /\ PrimaryStorage \in {"local", "s3", "openlink", "distributed"}
    /\ BandwidthLimit \in Nat

VARIABLE route  \* the last decision, with what was asked for

MiB == 1048576
StorageTypes == {"local", "s3", "openlink", "distributed"}
Durabilities == {"critical", "high", "standard", "low"}
Qualities == {"excellent", "good", "fair", "poor"}

\* Decisions: latency in milliseconds, bandwidth in MiB per second (the code
\* has bytes, in an u64 that holds all of them).
Decision(storage, direct, latency, bandwidth) ==
    [storage |-> storage, direct |-> direct, latency |-> latency, bandwidth |-> bandwidth]

RoutingInit == route = Nothing

-----------------------------------------------------------------------------
(* Storage *)

StorageFor(durability) ==
    CASE durability = "critical" -> "distributed"
      [] durability = "high" -> "openlink"
      [] durability = "standard" -> PrimaryStorage
      [] durability = "low" -> "local"

StorageLatency(storage) ==
    CASE storage = "local" -> 5
      [] storage = "s3" -> 50
      [] storage = "openlink" -> 30
      [] storage = "distributed" -> 100

StorageBandwidth(storage) ==
    CASE storage = "local" -> 102400
      [] storage = "s3" -> 100
      [] storage = "openlink" -> 50
      [] storage = "distributed" -> 200

SelectedStorage(durability) ==
    LET storage == StorageFor(durability)
    IN  Decision(storage, storage = "local",
                 StorageLatency(storage), StorageBandwidth(storage))

-----------------------------------------------------------------------------
(* Transfers *)

DirectLatency(quality) ==
    CASE quality = "excellent" -> 10
      [] quality = "good" -> 30
      [] quality = "fair" -> 100
      [] quality = "poor" -> 300

DirectBandwidth(quality) ==
    CASE quality = "excellent" -> 1000
      [] quality = "good" -> 100
      [] quality = "fair" -> 10
      [] quality = "poor" -> 1

DirectPath(quality) ==
    Decision("local", TRUE, DirectLatency(quality), DirectBandwidth(quality))

RelayPath == Decision("openlink", FALSE, 200, 50)

\* Direct within a region, or over a good network for less than a GiB.
UsesDirect(from, to, quality, size) ==
    PreferDirect
        /\ (from = to \/ (quality \in {"excellent", "good"} /\ size < 1024 * MiB))

SelectedPath(from, to, quality, size) ==
    IF UsesDirect(from, to, quality, size) THEN DirectPath(quality) ELSE RelayPath

\* Bytes a transfer is taken to move in a second: the smaller of what the path
\* and the limit allow, a limit of 0 among them.
PerSecond(decision) ==
    LET bytes == MiB * decision.bandwidth
    IN  IF BandwidthLimit < bytes THEN BandwidthLimit ELSE bytes

\* Seconds, rounded down.  Divided by 0, a size has none: the infinite or
\* undefined quotient makes Duration::from_secs_f64 panic.
TransferTime(size, decision) ==
    IF decision.bandwidth > 0 /\ PerSecond(decision) = 0 THEN Nothing
    ELSE size \div PerSecond(decision)

SelectStorage ==
    \E durability \in Durabilities :
        /\ route' = [asked |-> "storage", durability |-> durability,
                     decision |-> SelectedStorage(durability)]
        /\ UNCHANGED clockVars

SelectPath ==
    \E from, to \in Regions, quality \in Qualities, size \in DataSizes :
        /\ route' = [asked |-> "path", from |-> from, to |-> to, quality |-> quality,
                     size |-> size, decision |-> SelectedPath(from, to, quality, size)]
        /\ UNCHANGED clockVars

\* Of a path chosen before.
EstimateTransferTime ==
    /\ route # Nothing
    /\ route.asked = "path"
    /\ route' = [asked |-> "time", size |-> route.size,
                 seconds |-> TransferTime(route.size, route.decision)]
    /\ UNCHANGED clockVars

RoutingNext == SelectStorage \/ SelectPath \/ EstimateTransferTime

RoutingSpec == ClockInit /\ RoutingInit /\ [][RoutingNext]_<<clockVars, route>>

-----------------------------------------------------------------------------
(* Properties *)

\* "Selects optimal transfer path": between regions, a direct transfer is only
\* chosen where it is no slower than the relay, in latency and in bandwidth.
\* (Within a region it is chosen over a poor network too, fifty times slower.)
DirectNoSlower ==
    route # Nothing /\ route.asked = "path" /\ route.from # route.to /\ route.decision.direct
        => /\ route.decision.latency <= RelayPath.latency
           /\ route.decision.bandwidth >= RelayPath.bandwidth

=============================================================================
