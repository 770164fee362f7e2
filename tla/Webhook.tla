------------------------------ MODULE Webhook ------------------------------
(***************************************************************************)
(* Webhook delivery: the configuration behind one fair read-write lock,    *)
(* and notify(), which keeps its read lock while it waits for the answer   *)
(* of the HTTP request.                                                    *)
(***************************************************************************)
EXTENDS ServerClock, Integers, FiniteSets, SequencesExt

CONSTANTS Callers,       \* tasks that use the service
          WebhookConfigs \* the configurations that are set

VARIABLES config,   \* NotificationService.config
          waiting,  \* tasks queued on the lock, in order
          posting,  \* tasks inside their HTTP request, holding a read lock
          answered  \* tasks whose request was answered or failed, and that
                    \* still hold the lock

webhookVars == <<config, waiting, posting, answered>>

Modes == {"notify", "get", "configure"}

\* The types of the lock's queue and of the configuration.
WebhookTypeOK ==
    /\ ClockTypeOK
    /\ config \in WebhookConfigs
    /\ waiting \in Seq([by : Callers, mode : Modes, new : WebhookConfigs])
    /\ posting \subseteq Callers
    /\ answered \subseteq Callers

\* A service starts disabled.
WebhookInit ==
    /\ config \in {c \in WebhookConfigs : ~c.enabled}
    /\ waiting = <<>>
    /\ posting = {}
    /\ answered = {}

Idle(c) == c \notin posting \cup answered /\ \A i \in DOMAIN waiting : waiting[i].by # c

Ask(c, mode, new) ==
    /\ Request
    /\ Idle(c)
    /\ waiting' = Append(waiting, [by |-> c, mode |-> mode, new |-> new])
    /\ UNCHANGED <<config, posting, answered>>

\* Whether notify() sends anything for an event, under the lock.
Sends(event) == config.enabled /\ event \in config.events /\ config.url

\* The lock goes to the first in the queue: to a writer when nobody holds it,
\* to a reader when no writer does (writers hold it for an instant only).
GrantWrite ==
    /\ waiting # <<>>
    /\ Head(waiting).mode = "configure"
    /\ posting \cup answered = {}
    /\ config' = Head(waiting).new
    /\ waiting' = Tail(waiting)
    /\ UNCHANGED <<clockVars, posting, answered>>

GrantRead ==
    /\ waiting # <<>>
    /\ Head(waiting).mode # "configure"
    /\ waiting' = Tail(waiting)
    /\ posting' = IF Head(waiting).mode = "notify" /\ Sends("backup_failed")
                  THEN posting \cup {Head(waiting).by} ELSE posting
    /\ UNCHANGED <<clockVars, config, answered>>

\* The peer answers, the connection breaks, or the caller drops the future:
\* reqwest::Client::new() has no timeout, and nothing in the code makes it happen.
PostAnswered(c) ==
    /\ c \in posting
    /\ posting' = posting \ {c}
    /\ answered' = answered \cup {c}
    /\ UNCHANGED <<clockVars, config, waiting>>

\* Mutant: before it returns, notify() looks at the configuration again.
ReleaseRereading(c) ==
    /\ c \in answered
    /\ \A i \in DOMAIN waiting : waiting[i].mode # "configure"
    /\ answered' = answered \ {c}
    /\ UNCHANGED <<clockVars, config, waiting, posting>>

\* notify() returns, and its read lock goes with it.
Release(c) ==
    /\ c \in answered
    /\ answered' = answered \ {c}
    /\ UNCHANGED <<clockVars, config, waiting, posting>>

WebhookNext ==
    \/ \E c \in Callers :
          \/ Ask(c, "notify", config)
          \/ Ask(c, "get", config)
          \/ \E new \in WebhookConfigs : Ask(c, "configure", new)
          \/ PostAnswered(c)
          \/ Release(c)
    \/ GrantWrite
    \/ GrantRead
    \/ Passes /\ UNCHANGED webhookVars

\* The lock is granted when it can be, and a task whose request is answered runs
\* on.  Of the peer nothing is assumed.
WebhookFairness ==
    /\ WF_<<clockVars, webhookVars>>(GrantWrite)
    /\ WF_<<clockVars, webhookVars>>(GrantRead)
    /\ \A c \in Callers : WF_<<clockVars, webhookVars>>(Release(c))

WebhookSpec ==
    /\ ClockInit /\ WebhookInit
    /\ [][WebhookNext]_<<clockVars, webhookVars>>
    /\ WebhookFairness

-----------------------------------------------------------------------------
(* Properties *)

\* Only a peer that never answers keeps configure() out: unless some request
\* stays open for ever, whoever queues for the lock, to write or to read and while
\* others keep posting, gets it and leaves the queue.
ConfigureCompletes ==
    \/ \E c \in Callers : <>[](c \in posting)
    \/ \A c \in Callers :
           (\E i \in DOMAIN waiting : waiting[i].by = c) ~>
               (\A i \in DOMAIN waiting : waiting[i].by # c)

=============================================================================
