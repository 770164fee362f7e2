------------------------------ MODULE Transport ------------------------------
(***************************************************************************)
(* The OpenLink transport: one connection status shared by the tasks that  *)
(* use it, and requests over HTTP with a timeout and without retries.  The *)
(* other side is a map from names to contents; a request whose caller gave *)
(* up may still reach it.                                                  *)
(***************************************************************************)
EXTENDS ServerClock, Integers, FiniteSets

CONSTANTS Peers,      \* tasks that use the transport
          RemoteFiles, \* names: a snapshot id and a path, or a snapshot
          Bytes,       \* contents
          LocalMode    \* the endpoint contains "localhost"

VARIABLES client,  \* OpenLinkTransport.client: whether one could be built
          status,  \* OpenLinkTransport.status
          dropped, \* tasks whose last attempt to connect was dropped on the way
          remote,  \* the other side: [RemoteFiles -> contents]
          request, \* the request each task waits for
          stray,   \* requests under way that nobody waits for
          stored,  \* the content of an upload that was acknowledged, as long as
                   \* no other request may change it
          local    \* files written by download_to_path

transportVars == <<client, status, dropped, remote, request, stray, stored, local>>

Contents == Bytes \cup {Nothing}
FileRequest == [op : {"connect", "upload", "delete", "download", "list"},
                file : RemoteFiles \cup {Nothing}, data : Contents,
                arrived : BOOLEAN, answer : {"none", "success", "failure"},
                alone : BOOLEAN]

ASSUME TransportAssumption ==
    /\ LocalMode \in BOOLEAN
    /\ Nothing \notin FileRequest

TransportTypeOK ==
    /\ ClockTypeOK
    /\ client \in BOOLEAN
    /\ dropped \subseteq Peers
    /\ status \in {"disconnected", "connecting", "connected", "error"}
    /\ remote \in [RemoteFiles -> Contents]
    /\ request \in [Peers -> FileRequest \cup {Nothing}]
    /\ stray \subseteq FileRequest
    /\ stored \in [RemoteFiles -> Contents]
    /\ local \in [RemoteFiles -> Contents]
    /\ \A u \in Peers : request[u] # Nothing /\ request[u].op # "connect" =>
                           request[u].file \in RemoteFiles
    /\ \A r \in stray : r.file \in RemoteFiles

\* new() goes on when the HTTP client cannot be built.
TransportInit ==
    /\ client \in BOOLEAN
    /\ dropped = {}
    /\ status = "disconnected"
    /\ remote = [f \in RemoteFiles |-> Nothing]
    /\ request = [u \in Peers |-> Nothing]
    /\ stray = {}
    /\ stored = [f \in RemoteFiles |-> Nothing]
    /\ local = [f \in RemoteFiles |-> Nothing]

Changes(r) == r.op \in {"upload", "delete"}

\* alone: no other request that changes the file is under way.
Sent(op, file, data) ==
    [op |-> op, file |-> file, data |-> data, arrived |-> FALSE, answer |-> "none",
     alone |-> \A r \in stray \cup {request[u] : u \in Peers} :
                   r # Nothing /\ r.file = file => ~Changes(r)]

\* Once u changes a file, nobody else's request for it is alone any more.
Shared(u, file) ==
    [v \in Peers |->
        IF v # u /\ request[v] # Nothing /\ request[v].file = file
        THEN [request[v] EXCEPT !.alone = FALSE] ELSE request[v]]

-----------------------------------------------------------------------------
(* Connecting *)

\* The status is written before anything else: without a client the attempt is
\* over here, with an error, and "connecting" stays.
ConnectStarts(u) ==
    /\ Request
    /\ request[u] = Nothing
    /\ status' = "connecting"
    /\ IF client
       THEN /\ request' = [request EXCEPT ![u] = Sent("connect", Nothing, Nothing)]
            /\ dropped' = dropped \ {u}
       ELSE UNCHANGED <<request, dropped>>
    /\ UNCHANGED <<client, remote, stray, stored, local>>

Connects(u) == request[u] # Nothing /\ request[u].op = "connect"

\* Mutant: a connection that fails returns its error and no more.
StatusKept(outcome) ==
    IF outcome \in {"success", "missing"} \/ (outcome = "unreachable" /\ LocalMode)
    THEN "connected" ELSE status

\* Without a health endpoint (404), and for a local endpoint that does not
\* answer, the transport counts as connected.
StatusAfter(outcome) ==
    IF outcome \in {"success", "missing"} \/ (outcome = "unreachable" /\ LocalMode)
    THEN "connected" ELSE "error"

\* The answer, or a timeout of the client.
ConnectEnds(u) ==
    /\ Connects(u)
    /\ \E outcome \in {"success", "missing", "failure", "unreachable"} :
          status' = StatusAfter(outcome)
    /\ request' = [request EXCEPT ![u] = Nothing]
    /\ UNCHANGED <<clockVars, client, dropped, remote, stray, stored, local>>

\* The caller drops the future while it waits for the answer, as a select or a
\* timeout around connect() does: the status stays as it is.
ConnectDropped(u) ==
    /\ Connects(u)
    /\ request' = [request EXCEPT ![u] = Nothing]
    /\ dropped' = dropped \cup {u}
    /\ UNCHANGED <<clockVars, client, status, remote, stray, stored, local>>

-----------------------------------------------------------------------------
(* Files and snapshots *)

\* The status is read, and may be another one when the request leaves.
OperationStarts(u, op, file, data) ==
    /\ Request
    /\ request[u] = Nothing
    /\ IF status = "connected" /\ client
       THEN IF Changes(Sent(op, file, data))
            THEN /\ request' = [Shared(u, file) EXCEPT ![u] = Sent(op, file, data)]
                 /\ stored' = [stored EXCEPT ![file] = Nothing]
            ELSE /\ request' = [request EXCEPT ![u] = Sent(op, file, data)]
                 /\ UNCHANGED stored
       ELSE UNCHANGED <<request, stored>>
    /\ UNCHANGED <<client, status, dropped, remote, stray, local>>

\* What the other side does with a request.
Applied(r) ==
    CASE r.op = "upload" -> [remote EXCEPT ![r.file] = r.data]
      [] r.op = "delete" -> [remote EXCEPT ![r.file] = Nothing]
      [] OTHER -> remote

\* It accepts the request, or refuses it and changes nothing.
RequestArrives(u) ==
    /\ request[u] # Nothing
    /\ request[u].op # "connect"
    /\ ~request[u].arrived
    /\ \/ /\ remote' = Applied(request[u])
          /\ request' = [request EXCEPT ![u].arrived = TRUE, ![u].answer = "success",
                             ![u].data = IF request[u].op = "download"
                                         THEN remote[request[u].file]
                                         ELSE request[u].data]
       \/ /\ request' = [request EXCEPT ![u].arrived = TRUE, ![u].answer = "failure"]
          /\ UNCHANGED remote
    /\ UNCHANGED <<clockVars, client, status, dropped, stray, stored, local>>

StrayArrives(r) ==
    /\ r \in stray
    /\ remote' = Applied(r)
    /\ stray' = stray \ {r}
    /\ UNCHANGED <<clockVars, client, status, dropped, request, stored, local>>

\* Mutant: any answer to an upload counts as success.
AcknowledgedAny(r) == r.arrived

Acknowledged(r) == r.arrived /\ r.answer = "success"

\* The answer reaches the task.  An acknowledged upload is remembered unless
\* somebody else may have changed the file; a download is written to its path.
OperationEnds(u) ==
    LET r == request[u]
    IN  /\ r # Nothing
        /\ r.op # "connect"
        /\ r.arrived
        /\ request' = [request EXCEPT ![u] = Nothing]
        /\ stored' = IF r.op = "upload" /\ Acknowledged(r) /\ r.alone
                     THEN [stored EXCEPT ![r.file] = r.data] ELSE stored
        /\ local' = IF r.op = "download" /\ Acknowledged(r) /\ r.data # Nothing
                    THEN [local EXCEPT ![r.file] = r.data] ELSE local
        /\ UNCHANGED <<clockVars, client, status, dropped, remote, stray>>

\* The client's timeout: the task gets an error, and a request that has not
\* arrived may be lost or arrive later.
OperationTimesOut(u) ==
    LET r == request[u]
    IN  /\ r # Nothing
        /\ r.op # "connect"
        /\ request' = [request EXCEPT ![u] = Nothing]
        /\ stray' \in {stray, IF r.arrived THEN stray ELSE stray \cup {r}}
        /\ UNCHANGED <<clockVars, client, status, dropped, remote, stored, local>>

TransportNext ==
    \/ \E u \in Peers :
          \/ ConnectStarts(u)
          \/ ConnectEnds(u)
          \/ ConnectDropped(u)
          \/ \E f \in RemoteFiles :
                \/ \E b \in Bytes : OperationStarts(u, "upload", f, b)
                \/ \E op \in {"download", "delete", "list"} :
                      OperationStarts(u, op, f, Nothing)
          \/ RequestArrives(u)
          \/ OperationEnds(u)
          \/ OperationTimesOut(u)
    \/ \E r \in stray : StrayArrives(r)

TransportSpec ==
    ClockInit /\ TransportInit /\ [][TransportNext]_<<clockVars, transportVars>>

\* The client has a timeout, so that an attempt ends unless it is dropped.
TransportFairness ==
    \A u \in Peers : WF_<<clockVars, transportVars>>(ConnectEnds(u))

-----------------------------------------------------------------------------
(* Properties *)

\* An acknowledged upload is there: as long as no other request for the file
\* was begun and none that timed out is still under way, the other side has
\* what was uploaded.
AcknowledgedIsStored ==
    \A f \in RemoteFiles : stored[f] # Nothing => remote[f] = stored[f]

\* An attempt that is carried to its end takes the transport out of "connecting",
\* in which every operation is refused: whoever left it there, a dropped attempt
\* of another task too, and whatever the answer.
AttemptSettles ==
    \A u \in Peers :
        status = "connecting" /\ Connects(u) ~> status # "connecting" \/ u \in dropped

=============================================================================
