------------------------------ MODULE AgentApi ------------------------------
(***************************************************************************)
(* The API for robots and other physical agents: commands run concurrently *)
(* over three maps with a lock each, and a status is answered from a cache *)
(* while it is fresh.  A command is cut at its awaits.                     *)
(***************************************************************************)
EXTENDS ServerClock, Integers, FiniteSets, SequencesExt

CONSTANTS Agents,   \* agent ids
          Tasks,    \* commands in flight
          Tokens,   \* authorization tokens
          Locations,\* where agents and replicas are
          CacheTtl  \* a cached status is served while younger than this

ASSUME AgentAssumption == CacheTtl \in Nat \ {0}

VARIABLES agents,  \* last_active of the registered agents
          tokens,  \* auth_tokens
          cache,   \* status_cache
          task,    \* the command each task is running
          answer,  \* the last answer given
          delay    \* history: the longest a computed status waited to be stored

agentVars == <<agents, tokens, cache, task, answer, delay>>

Commands == {"query_status", "trigger_restore", "verify_replica", "list_backups"}

\* made: when the status was computed; at: cached_at.
CachedStatus == [made : Nat, at : Nat]

QueryTask == [pc : {"lookup"}, agent : Agents]
DecideTask == [pc : {"decide"}, agent : Agents, found : CachedStatus \cup {Nothing}]
StoreTask == [pc : {"store"}, agent : Agents, made : Nat]
AuthTask == [pc : {"verify"}, agent : Agents, token : Tokens]

Answers == [kind : {"cached", "computed"}, made : Nat, given : Nat]
           \cup [kind : {"restore", "refused", "replica", "backups"}]
           \cup [kind : {"nearest"}, index : 0..2]

\* The types of the three maps, the commands in flight and the answer.
AgentTypeOK ==
    /\ ClockTypeOK
    /\ agents \in [Agents -> Nat \cup {Nothing}]
    /\ tokens \in [Agents -> Tokens \cup {Nothing}]
    /\ cache \in [Agents -> CachedStatus \cup {Nothing}]
    /\ task \in [Tasks -> QueryTask \cup DecideTask \cup StoreTask \cup AuthTask
                              \cup {Nothing}]
    /\ answer \in Answers \cup {Nothing}
    /\ delay \in Nat

AgentInit ==
    /\ agents = [a \in Agents |-> Nothing]
    /\ tokens = [a \in Agents |-> Nothing]
    /\ cache = [a \in Agents |-> Nothing]
    /\ task = [t \in Tasks |-> Nothing]
    /\ answer = Nothing
    /\ delay = 0

-----------------------------------------------------------------------------

RegisterAgent(a) ==
    /\ Request
    /\ agents' = [agents EXCEPT ![a] = clock]
    /\ UNCHANGED <<tokens, cache, task, answer, delay>>

SetAuthToken(a, token) ==
    /\ Request
    /\ tokens' = [tokens EXCEPT ![a] = token]
    /\ UNCHANGED <<agents, cache, task, answer, delay>>

\* verify_auth
Authorised(a, token) == tokens[a] # Nothing /\ tokens[a] = token

\* process_command begins by touching the agent, if it is registered.
Touch(a) ==
    agents' = IF agents[a] = Nothing THEN agents ELSE [agents EXCEPT ![a] = clock]

Run(t, step) == task' = [task EXCEPT ![t] = step]

Begin(t, a) ==
    /\ Request
    /\ task[t] = Nothing
    /\ Touch(a)

Reply(what) == answer' = what

QueryStatus(t, a) ==
    /\ Begin(t, a)
    /\ Run(t, [pc |-> "lookup", agent |-> a])
    /\ UNCHANGED <<tokens, cache, answer, delay>>

GetCachedStatus(t) ==
    /\ task[t] # Nothing
    /\ task[t].pc = "lookup"
    /\ Run(t, [pc |-> "decide", agent |-> task[t].agent, found |-> cache[task[t].agent]])
    /\ UNCHANGED <<clockVars, agents, tokens, cache, answer, delay>>

Fresh(found) == found # Nothing /\ clock - found.at < CacheTtl

\* Mutant: the age of an entry counts from its last use.
SlidingCached(t) ==
    /\ task[t] # Nothing
    /\ task[t].pc = "decide"
    /\ Fresh(task[t].found)
    /\ Reply([kind |-> "cached", made |-> task[t].found.made, given |-> clock])
    /\ cache' = [cache EXCEPT ![task[t].agent] = [task[t].found EXCEPT !.at = clock]]
    /\ Run(t, Nothing)
    /\ UNCHANGED <<clockVars, agents, tokens, delay>>

\* The age is taken after the lock is released; a stale or missing entry makes
\* the handler compute the status before it waits for the cache again.
ServeCached(t) ==
    /\ task[t] # Nothing
    /\ task[t].pc = "decide"
    /\ Fresh(task[t].found)
    /\ Reply([kind |-> "cached", made |-> task[t].found.made, given |-> clock])
    /\ Run(t, Nothing)
    /\ UNCHANGED <<clockVars, agents, tokens, cache, delay>>

ComputeStatus(t) ==
    /\ task[t] # Nothing
    /\ task[t].pc = "decide"
    /\ ~Fresh(task[t].found)
    /\ Run(t, [pc |-> "store", agent |-> task[t].agent, made |-> clock])
    /\ UNCHANGED <<clockVars, agents, tokens, cache, answer, delay>>

\* cache_status stamps the entry when it has the lock.
CacheStatus(t) ==
    /\ task[t] # Nothing
    /\ task[t].pc = "store"
    /\ cache' = [cache EXCEPT ![task[t].agent] = [made |-> task[t].made, at |-> clock]]
    /\ delay' = IF clock - task[t].made > delay THEN clock - task[t].made ELSE delay
    /\ Reply([kind |-> "computed", made |-> task[t].made, given |-> clock])
    /\ Run(t, Nothing)
    /\ UNCHANGED <<clockVars, agents, tokens>>

\* A private backup without a token is refused before the tokens are read.
TriggerRestore(t, a, private, token) ==
    /\ Begin(t, a)
    /\ IF private /\ token # Nothing
       THEN /\ Run(t, [pc |-> "verify", agent |-> a, token |-> token])
            /\ UNCHANGED answer
       ELSE /\ Reply([kind |-> IF private THEN "refused" ELSE "restore"])
            /\ UNCHANGED task
    /\ UNCHANGED <<tokens, cache, delay>>

VerifyAuth(t) ==
    /\ task[t] # Nothing
    /\ task[t].pc = "verify"
    /\ Reply([kind |-> IF Authorised(task[t].agent, task[t].token)
                       THEN "restore" ELSE "refused"])
    /\ Run(t, Nothing)
    /\ UNCHANGED <<clockVars, agents, tokens, cache, delay>>

\* verify_replica and list_backups answer at once.
AnswerAtOnce(t, a, kind) ==
    /\ Begin(t, a)
    /\ Reply([kind |-> kind])
    /\ UNCHANGED <<tokens, cache, task, delay>>

-----------------------------------------------------------------------------
(* select_nearest_replica: a location is a point, or Nothing, and a zone *)

SquaredDistance(p, q) == (p[1] - q[1]) * (p[1] - q[1]) + (p[2] - q[2]) * (p[2] - q[2])

\* The scan: an earlier candidate stays unless a later one is strictly nearer.
NearestOf(agent, list) ==
    LET near == {i \in DOMAIN list : list[i].point # Nothing}
        Distance(i) == SquaredDistance(agent.point, list[i].point)
    IN  IF near = {} THEN 0
        ELSE CHOOSE i \in near : \A j \in near : \/ Distance(i) < Distance(j)
                                                 \/ Distance(i) = Distance(j) /\ i <= j

\* The first of the zone.
FirstInZone(zone, list) ==
    LET those == {i \in DOMAIN list : list[i].zone = zone}
    IN  IF those = {} THEN 1 ELSE CHOOSE i \in those : \A j \in those : i <= j

\* Coordinates decide alone, even when no replica has any; then the zone, then
\* the first of the list.  0: none.
NearestReplica(agent, list) ==
    IF agent.point # Nothing THEN NearestOf(agent, list)
    ELSE IF list = <<>> THEN 0
    ELSE IF agent.zone # Nothing THEN FirstInZone(agent.zone, list) ELSE 1

SelectNearestReplica ==
    /\ Request
    /\ \E agent \in Locations, n \in 0..2 :
       \E list \in [1..n -> Locations] :
           Reply([kind |-> "nearest", index |-> NearestReplica(agent, list)])
    /\ UNCHANGED <<agents, tokens, cache, task, delay>>

-----------------------------------------------------------------------------

AgentNext ==
    \/ \E a \in Agents :
          \/ RegisterAgent(a)
          \/ \E token \in Tokens : SetAuthToken(a, token)
          \/ \E t \in Tasks :
                \/ QueryStatus(t, a)
                \/ \E private \in BOOLEAN, token \in Tokens \cup {Nothing} :
                      TriggerRestore(t, a, private, token)
                \/ \E kind \in {"replica", "backups"} : AnswerAtOnce(t, a, kind)
    \/ \E t \in Tasks :
          \/ GetCachedStatus(t)
          \/ ServeCached(t)
          \/ ComputeStatus(t)
          \/ CacheStatus(t)
          \/ VerifyAuth(t)
    \/ SelectNearestReplica
    \/ Passes /\ UNCHANGED agentVars

AgentSpec == ClockInit /\ AgentInit /\ [][AgentNext]_<<clockVars, agentVars>>

-----------------------------------------------------------------------------
(* Properties *)

\* A status from the cache is at most CacheTtl old, plus what a computed status
\* has waited for the cache's lock: an entry is stamped when it is stored, not
\* when it was computed, and serving it does not make it younger.
StatusAgeBounded ==
    answer # Nothing /\ answer.kind = "cached" =>
        answer.given - answer.made < CacheTtl + delay

=============================================================================
