------------------------------ MODULE MCServer ------------------------------
(***************************************************************************)
(* The parts of the server side by side.  They share a clock and no state, *)
(* so that checking one at a time, chosen in the initial state, misses no  *)
(* interleaving: the states of the parts add up instead of multiplying.    *)
(***************************************************************************)
EXTENDS BackupServer, DeviceFleet, AgentApi, Dashboard, TLC

CONSTANTS p1, d1, lab, dock

VARIABLE part

\* A document may carry a foreign id and a creation time of its own.
MCBodies == {[id |-> p1, target |-> d1, createdAt |-> MaxTime]}

\* A device is registered online, or busy with a job of its own.
MCProfiles ==
    [status : {"online"}, group : {lab, Nothing}, used : {0}, heartbeat : {0}]
        \cup [status : {"busy"}, group : {Nothing}, used : {0}, heartbeat : {0}]

\* Places with coordinates, with a zone, and with both.
MCLocations ==
    {[point |-> <<0, 0>>, zone |-> dock], [point |-> <<3, 4>>, zone |-> Nothing],
     [point |-> Nothing, zone |-> dock]}

parts == <<clockVars, serverVars, fleetVars, agentVars, dashboardVars, part>>

MCInit ==
    /\ part \in {"server", "fleet", "agents", "dashboard"}
    /\ ClockInit
    /\ ServerInit
    /\ FleetInit
    /\ AgentInit
    /\ DashboardInit

MCNext ==
    /\ UNCHANGED part
    /\ \/ /\ part = "server"
          /\ ServerNext
          /\ UNCHANGED <<fleetVars, agentVars, dashboardVars>>
       \/ /\ part = "fleet"
          /\ FleetNext
          /\ UNCHANGED <<serverVars, agentVars, dashboardVars>>
       \/ /\ part = "agents"
          /\ AgentNext
          /\ UNCHANGED <<serverVars, fleetVars, dashboardVars>>
       \/ /\ part = "dashboard"
          /\ DashboardNext
          /\ UNCHANGED <<serverVars, fleetVars, agentVars>>

MCSpec == MCInit /\ [][MCNext]_parts

Symmetric == Permutations(Clients) \cup Permutations(Devices)

=============================================================================
