---------------------------- MODULE Notifications ----------------------------
(***************************************************************************)
(* In-app notifications: an ordered list of rules, a history, and one      *)
(* table of "last sent" times that all the rules share.                    *)
(***************************************************************************)
EXTENDS ServerClock, Integers, FiniteSets, SequencesExt, Selection

CONSTANTS Topics,      \* notification types
          Titles,      \* titles (with their tenant)
          Severities,  \* 1 (info) .. 4 (critical)
          Rules,       \* the rules callers set
          DefaultRule  \* the rule a new service starts with

ASSUME NotificationAssumption ==
    /\ Nothing \notin Nat
    /\ Severities \subseteq Nat
    /\ DefaultRule \in Rules
    /\ \A r \in Rules : r.window \in Nat

VARIABLES rules,    \* NotificationSvc.rules
          history,  \* NotificationSvc.history
          dedup,    \* NotificationSvc.dedup: [Keys -> time]
          sending   \* the last send: its key, the table before it, its channels

notifyVars == <<rules, history, dedup, sending>>

Keys == Titles \X Topics

\* window is dedup_minutes of the rule that recorded the notification.
Notification == [key : Keys, at : Nat, window : Nat, read : BOOLEAN]

\* The types of the rules, the history and the shared table.
NotifyTypeOK ==
    /\ ClockTypeOK
    /\ rules \in Seq(Rules)
    /\ history \in Seq(Notification)
    /\ dedup \in [Keys -> Nat \cup {Nothing}]

NotifyInit ==
    /\ rules = <<DefaultRule>>
    /\ history = <<>>
    /\ dedup = [k \in Keys |-> Nothing]
    /\ sending = Nothing

\* set_rule replaces the rule of that id or adds one at the end.
SetRule(rule) ==
    /\ Request
    /\ rules' = IF \E i \in DOMAIN rules : rules[i].id = rule.id
                THEN LET i == CHOOSE i \in DOMAIN rules :
                                  /\ rules[i].id = rule.id
                                  /\ \A j \in 1..(i - 1) : rules[j].id # rule.id
                     IN  [rules EXCEPT ![i] = rule]
                ELSE Append(rules, rule)
    /\ UNCHANGED <<history, dedup, sending>>

RemoveRule(id) ==
    /\ Request
    /\ rules' = Picked(rules, {i \in DOMAIN rules : rules[i].id # id})
    /\ UNCHANGED <<history, dedup, sending>>

\* No topic listed means every topic.
Matches(rule, key, severity) ==
    /\ rule.enabled
    /\ severity >= rule.min
    /\ rule.topics = {} \/ key[2] \in rule.topics

WithinWindow(rule, lastSent) ==
    /\ rule.window > 0
    /\ lastSent # Nothing
    /\ clock - lastSent < rule.window

\* Mutant: only rules that deduplicate themselves record the time.
RecordWindowed(acc, rule, key) ==
    [history |-> Append(acc.history, [key |-> key, at |-> clock,
                                      window |-> rule.window, read |-> FALSE]),
     lastSent |-> IF rule.window > 0 THEN clock ELSE acc.lastSent,
     channels |-> acc.channels \cup rule.channels]

\* What a rule that fires adds.
Record(acc, rule, key) ==
    [history |-> Append(acc.history, [key |-> key, at |-> clock,
                                      window |-> rule.window, read |-> FALSE]),
     lastSent |-> clock,
     channels |-> acc.channels \cup rule.channels]

\* The rules in order: one that fires updates the table the next one looks at.
AfterRule(rule, key, severity, acc) ==
    IF ~Matches(rule, key, severity) \/ WithinWindow(rule, acc.lastSent)
    THEN acc ELSE Record(acc, rule, key)

Deliver(key, severity) ==
    LET upTo[n \in 0..Len(rules)] ==
            IF n = 0 THEN [history |-> history, lastSent |-> dedup[key], channels |-> {}]
            ELSE AfterRule(rules[n], key, severity, upTo[n - 1])
    IN  upTo[Len(rules)]

Send(key, severity) ==
    /\ Request
    /\ LET result == Deliver(key, severity)
       IN  /\ history' = result.history
           /\ dedup' = [dedup EXCEPT ![key] = result.lastSent]
           /\ sending' = [key |-> key, severity |-> severity, at |-> clock,
                          before |-> dedup[key], channels |-> result.channels]
    /\ UNCHANGED rules

MarkRead(i) ==
    /\ Request
    /\ history' = [history EXCEPT ![i].read = TRUE]
    /\ UNCHANGED <<rules, dedup, sending>>

MarkAllRead ==
    /\ Request
    /\ history' = [i \in DOMAIN history |-> [history[i] EXCEPT !.read = TRUE]]
    /\ UNCHANGED <<rules, dedup, sending>>

\* Clearing the history forgets what was sent, so that it may be sent again.
ClearHistory ==
    /\ Request
    /\ history' = <<>>
    /\ dedup' = [k \in Keys |-> Nothing]
    /\ UNCHANGED <<rules, sending>>

NotifyNext ==
    \/ \E rule \in Rules : SetRule(rule) \/ RemoveRule(rule.id)
    \/ \E key \in Keys, severity \in Severities : Send(key, severity)
    \/ \E i \in DOMAIN history : MarkRead(i)
    \/ MarkAllRead
    \/ ClearHistory
    \/ Passes /\ UNCHANGED notifyVars

NotifySpec == ClockInit /\ NotifyInit /\ [][NotifyNext]_<<clockVars, notifyVars>>

-----------------------------------------------------------------------------
(* Properties *)

\* Deduplication counts what any rule sent: a rule with a window never records a
\* notification while another of the same key, whichever rule recorded it, is
\* younger than that window, however the rules were changed in between.
DedupAcrossRules ==
    \A i, j \in DOMAIN history :
        i < j /\ history[i].key = history[j].key =>
            history[j].at - history[i].at >= history[j].window

=============================================================================
