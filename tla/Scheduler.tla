------------------------------ MODULE Scheduler ------------------------------
(***************************************************************************)
(* The smart backup scheduler: a heap of tasks, of which a call takes the  *)
(* best one that may run now.  The loop of a call is modelled pop by pop:  *)
(* nothing else touches the scheduler meanwhile, but time passes between   *)
(* the calls of schedule_all_eligible.                                     *)
(***************************************************************************)
EXTENDS ServerClock, Integers, FiniteSets, FiniteSetsExt

CONSTANTS ScheduleTasks, \* tasks, with the state of their device when queued
          Window,        \* the hours and days in which backups may run
          MinScore,      \* least network score, in hundredths
          HoursPerDay    \* 24 in the code

ASSUME SchedulerAssumption ==
    /\ HoursPerDay \in Nat \ {0}
    /\ MinScore \in Nat
    /\ Nothing \notin [task : ScheduleTasks, arrival : Nat]
    /\ \A t \in ScheduleTasks :
          /\ t.priority \in Nat
          /\ t.bandwidth \in Nat /\ t.latency \in Nat /\ t.loss \in 0..100

VARIABLES queue, \* SmartScheduler.queue: tasks with their arrival
          call   \* the call under way: what it set out from and has done

scheduleVars == <<queue, call>>

\* The device and network fields of a task are those of its arrival: nothing
\* refreshes them.
Queued == [task : ScheduleTasks, arrival : Nat]
SchedulerCall ==
    [all : BOOLEAN, before : SUBSET Queued, open : BOOLEAN,
     skipped : SUBSET Queued, result : Queued \cup {Nothing}, ended : BOOLEAN]

SchedulerInit ==
    /\ queue = {}
    /\ call = Nothing

Least(a, b) == IF a < b THEN a ELSE b

\* In hundredths: up to 40 for bandwidth, 30 for latency, 30 for packet loss
\* (in percent).
QualityScore(t) ==
    40 * Least(t.bandwidth, 100)
        + 6 * (500 - Least(t.latency, 500))
        + 30 * (100 - t.loss)

\* Hours count from a Monday 0:00 UTC, whatever the local time; a window may wrap around
\* midnight.
IsWithin(window, now) ==
    LET hour == now % HoursPerDay
        weekday == (now \div HoursPerDay) % 7
    IN  /\ window.days = {} \/ weekday \in window.days
        /\ IF window.start <= window.end
           THEN hour >= window.start /\ hour < window.end
           ELSE hour >= window.start \/ hour < window.end

\* The order of the heap: by priority, then by network.
Outranks(t, u) ==
    \/ t.priority > u.priority
    \/ t.priority = u.priority /\ QualityScore(t) > QualityScore(u)

MayRun(t) == t.online /\ QualityScore(t) >= MinScore

Enqueue(t) ==
    /\ call = Nothing
    /\ Request
    /\ queue' = queue \cup {[task |-> t, arrival |-> served]}
    /\ UNCHANGED call

RemoveTask(id) ==
    /\ call = Nothing
    /\ Request
    /\ queue' = {q \in queue : q.task.id # id}
    /\ UNCHANGED call

-----------------------------------------------------------------------------

\* A call reads the clock once.
Begun(all) ==
    [all |-> all, before |-> queue, open |-> IsWithin(Window, clock),
     skipped |-> {}, result |-> Nothing, ended |-> FALSE]

ScheduleStarts(all) ==
    /\ call = Nothing
    /\ Request
    /\ call' = Begun(all)
    /\ UNCHANGED queue

\* The heap may pop any of its greatest tasks.
Greatest == {q \in queue : \A r \in queue : ~Outranks(r.task, q.task)}

\* Mutant: a task that cannot run ends the search.
BlockedPopped(q) ==
    IF ~call.open \/ ~MayRun(q.task)
    THEN [call EXCEPT !.skipped = @ \cup {q}, !.ended = TRUE]
    ELSE [call EXCEPT !.result = q, !.ended = TRUE]

\* Outside the window the first task ends the search; inside, tasks that cannot
\* run are set aside.
Popped(q) ==
    IF ~call.open THEN [call EXCEPT !.skipped = @ \cup {q}, !.ended = TRUE]
    ELSE IF ~MayRun(q.task) THEN [call EXCEPT !.skipped = @ \cup {q}]
    ELSE [call EXCEPT !.result = q, !.ended = TRUE]

Pop ==
    /\ call # Nothing
    /\ ~call.ended
    /\ \E q \in Greatest :
          /\ call' = Popped(q)
          /\ queue' = queue \ {q}
    /\ UNCHANGED clockVars

\* What was set aside goes back; schedule_all_eligible then calls again.
PutBack ==
    /\ call # Nothing
    /\ call.ended \/ queue = {}
    /\ queue' = queue \cup call.skipped
    /\ IF call.all /\ call.result # Nothing
       THEN call' = [Begun(TRUE) EXCEPT !.before = queue']
       ELSE call' = Nothing
    /\ UNCHANGED clockVars

SchedulerNext ==
    \/ \E t \in ScheduleTasks : Enqueue(t) \/ RemoveTask(t.id)
    \/ \E all \in BOOLEAN : ScheduleStarts(all)
    \/ Pop
    \/ PutBack
    \/ Passes /\ UNCHANGED scheduleVars

SchedulerSpec ==
    ClockInit /\ SchedulerInit /\ [][SchedulerNext]_<<clockVars, scheduleVars>>

-----------------------------------------------------------------------------
(* Properties *)

\* "Schedule the next eligible task": when a call has made up its mind, no task
\* is lost, none that may run ranks above the one it took, and it comes back
\* with nothing only when the window is closed or no task may run, however many
\* tasks that may not run rank above the others.
NextTaskRight ==
    call # Nothing /\ (call.ended \/ queue = {}) =>
        /\ queue \cup call.skipped = call.before \ {call.result}
        /\ IF call.result = Nothing
           THEN call.open => \A q \in call.before : ~MayRun(q.task)
           ELSE /\ call.open /\ MayRun(call.result.task)
                /\ \A q \in call.before :
                      MayRun(q.task) => ~Outranks(q.task, call.result.task)

=============================================================================
