---------------------------- MODULE AlertNotices ----------------------------
(***************************************************************************)
(* The notifications of one alert: apps/alerts/services/notifications.py   *)
(* and escalation.py.                                                      *)
(*                                                                         *)
(* A notifier is a process that announces a fact about the alert to every  *)
(* recipient: that it was opened (the engine), that it was resolved (a     *)
(* request), or that a policy escalates it (a run of                       *)
(* check_alert_escalations_task).  The fact is saved first; the rows       *)
(* follow one by one, each in a transaction of its own, each row looked    *)
(* for by its dedupe_key (which is unique) before it is created, and       *)
(* queued for delivery once it is committed.                               *)
(*                                                                         *)
(* Left out: several channels of a recipient, who the recipients are,      *)
(* logs and texts, rows without a dedupe_key, other keys of the metadata.  *)
(***************************************************************************)
EXTENDS Integers

CONSTANTS
    Users,          \* the recipients
    Policies,       \* the active escalation policies that match the alert
    AckPolicies,    \* those with if_not_acknowledged_minutes, the others have
                    \* if_not_resolved_minutes
    Notifiers,      \* processes
    MaxRuns,        \* bound: requests and runs of the task
    MaxBreaks       \* bound: notifiers that fail or die half-way

Facts == {"OPENED", "RESOLVED"} \cup Policies
Keys == Facts \X Users      \* dedupe keys

VARIABLES
    alertStatus,    \* AlertEvent.status
    resolvedAt,     \* whether AlertEvent.resolved_at is set
    due,            \* policies whose minutes have passed
    recorded,       \* metadata.escalated_policy_ids
    notices,        \* the keys of the rows there are
    queued,         \* per key, how often a delivery was queued
    notifier,       \* the progress of each notifier
    runs, breaks,   \* what is used of the bounds
    cut             \* history: facts whose notifier failed or died

vars == <<alertStatus, resolvedAt, due, recorded, notices, queued, notifier, runs, breaks,
          cut>>

IdleNotifier == [pc |-> "idle", fact |-> "OPENED", read |-> {}, todo |-> {}]

Init ==
    /\ alertStatus = "NONE" /\ resolvedAt = FALSE
    /\ due = {}
    /\ recorded = {}
    /\ notices = {}
    /\ queued = [k \in Keys |-> 0]
    /\ notifier = [r \in Notifiers |-> IdleNotifier]
    /\ runs = 0 /\ breaks = 0
    /\ cut = {}

alert == <<alertStatus, resolvedAt, due, recorded>>
bounds == <<runs, breaks>>

NextRun == runs < MaxRuns /\ runs' = runs + 1

Announce(r, fact) ==
    notifier' = [notifier EXCEPT ![r] = [IdleNotifier EXCEPT !.pc = "notify", !.fact = fact,
                                                             !.todo = Users]]

-----------------------------------------------------------------------------
(* The facts.                                                              *)

Open(r) ==
    /\ alertStatus = "NONE"
    /\ notifier[r].pc = "idle"
    /\ alertStatus' = "OPEN"
    /\ Announce(r, "OPENED")
    /\ UNCHANGED <<resolvedAt, due, recorded, notices, queued, bounds, cut>>

\* acknowledge_alert tests the object that the request has read and saves over what the
\* row says now, resolved or not.  Every alert is OPEN at first: a request may have read
\* it then.  if_not_resolved_minutes count from the acknowledgement, once there is one.
Acknowledge ==
    /\ alertStatus # "NONE"
    /\ alertStatus' = "ACKNOWLEDGED"
    /\ due' = due \cap AckPolicies
    /\ UNCHANGED <<resolvedAt, recorded, notices, queued, notifier, bounds, cut>>

\* manually_resolve_alert asks for no status: two requests may both resolve.
Resolve(r) ==
    /\ alertStatus # "NONE"
    /\ notifier[r].pc = "idle"
    /\ NextRun
    /\ alertStatus' = "RESOLVED"
    /\ resolvedAt' = TRUE
    /\ Announce(r, "RESOLVED")
    /\ UNCHANGED <<due, recorded, notices, queued, breaks, cut>>

MinutesPass(p) ==
    /\ alertStatus # "NONE"
    /\ p \notin due
    /\ due' = due \cup {p}
    /\ UNCHANGED <<alertStatus, resolvedAt, recorded, notices, queued, notifier, bounds, cut>>

Triggered(p) == p \in due /\ (p \in AckPolicies => alertStatus = "OPEN")

\* run_alert_escalation_check reads alert and policies, the latter in any order,
\* and stops at the first that is triggered, be it recorded already.
CheckEscalation(r, p) ==
    /\ notifier[r].pc = "idle"
    /\ alertStatus \in {"OPEN", "ACKNOWLEDGED"}
    /\ Triggered(p)
    /\ p \notin recorded
    /\ NextRun
    /\ notifier' = [notifier EXCEPT ![r] = [IdleNotifier EXCEPT !.pc = "escalate", !.fact = p,
                                                                !.read = recorded]]
    /\ UNCHANGED <<alert, notices, queued, breaks, cut>>

\* (Mutated form of what follows.)  Every policy that is triggered is recorded.
RecordAllEscalations(r) ==
    /\ notifier[r].pc = "escalate"
    /\ recorded' = notifier[r].read \cup {notifier[r].fact} \cup {p \in Policies : Triggered(p)}
    /\ Announce(r, notifier[r].fact)
    /\ UNCHANGED <<alertStatus, resolvedAt, due, notices, queued, bounds, cut>>

\* escalate_alert writes the whole metadata back, over what others recorded since.
RecordEscalation(r) ==
    /\ notifier[r].pc = "escalate"
    /\ recorded' = notifier[r].read \cup {notifier[r].fact}
    /\ Announce(r, notifier[r].fact)
    /\ UNCHANGED <<alertStatus, resolvedAt, due, notices, queued, bounds, cut>>

-----------------------------------------------------------------------------
(* The rows.                                                               *)

Key(r, u) == <<notifier[r].fact, u>>

\* The row exists: it is another notifier's business.
SkipExisting(r, u) ==
    /\ notifier[r].pc = "notify"
    /\ u \in notifier[r].todo
    /\ Key(r, u) \in notices
    /\ notifier' = [notifier EXCEPT ![r].todo = @ \ {u}]
    /\ UNCHANGED <<alert, notices, queued, bounds, cut>>

FindMissing(r, u) ==
    /\ notifier[r].pc = "notify"
    /\ u \in notifier[r].todo
    /\ Key(r, u) \notin notices
    /\ notifier' = [notifier EXCEPT ![r].pc = "create", ![r].read = {u}]
    /\ UNCHANGED <<alert, notices, queued, bounds, cut>>

Create(r, u) ==
    /\ notifier[r].pc = "create"
    /\ u \in notifier[r].read
    /\ Key(r, u) \notin notices
    /\ notices' = notices \cup {Key(r, u)}
    /\ notifier' = [notifier EXCEPT ![r].pc = "queue"]
    /\ UNCHANGED <<alert, queued, bounds, cut>>

\* (Mutated form of what follows.)  The row that won is returned as if it were new.
CreateAnyway(r, u) ==
    /\ notifier[r].pc = "create"
    /\ u \in notifier[r].read
    /\ Key(r, u) \in notices
    /\ notifier' = [notifier EXCEPT ![r].pc = "queue"]
    /\ UNCHANGED <<alert, notices, queued, bounds, cut>>

\* The unique key is taken.  Escalation goes on with the next recipient.  Elsewhere
\* the handler asks for the row inside the transaction that has just failed: that
\* raises, and ends the loop.
LoseRace(r, u) ==
    /\ notifier[r].pc = "create"
    /\ u \in notifier[r].read
    /\ Key(r, u) \in notices
    /\ notifier' = IF notifier[r].fact \in Policies
                   THEN [notifier EXCEPT ![r].pc = "notify", ![r].read = {}, ![r].todo = @ \ {u}]
                   ELSE [notifier EXCEPT ![r] = IdleNotifier]
    /\ UNCHANGED <<alert, notices, queued, bounds, cut>>

Queue(r, u) ==
    /\ notifier[r].pc = "queue"
    /\ u \in notifier[r].read
    /\ queued' = [queued EXCEPT ![Key(r, u)] = @ + 1]
    /\ notifier' = [notifier EXCEPT ![r].pc = "notify", ![r].read = {}, ![r].todo = @ \ {u}]
    /\ UNCHANGED <<alert, notices, bounds, cut>>

Finish(r) ==
    /\ notifier[r].pc = "notify"
    /\ notifier[r].todo = {}
    /\ notifier' = [notifier EXCEPT ![r] = IdleNotifier]
    /\ UNCHANGED <<alert, notices, queued, bounds, cut>>

\* The process dies, or something raises: the engine logs that, a request fails,
\* the task is tried again, and finds the policy recorded.
Break(r) ==
    /\ notifier[r].pc # "idle"
    /\ breaks < MaxBreaks
    /\ breaks' = breaks + 1
    /\ cut' = IF notifier[r].pc = "escalate" THEN cut ELSE cut \cup {notifier[r].fact}
    /\ notifier' = [notifier EXCEPT ![r] = IdleNotifier]
    /\ UNCHANGED <<alert, notices, queued, runs>>

-----------------------------------------------------------------------------

Notify(r) ==
    \/ Open(r) \/ Resolve(r)
    \/ \E p \in Policies : CheckEscalation(r, p)
    \/ RecordEscalation(r)
    \/ \E u \in Users : SkipExisting(r, u) \/ FindMissing(r, u) \/ Create(r, u)
                        \/ LoseRace(r, u) \/ Queue(r, u)
    \/ Finish(r)
    \/ Break(r)

Next ==
    \/ \E r \in Notifiers : Notify(r)
    \/ Acknowledge
    \/ \E p \in Policies : MinutesPass(p)

Spec == Init /\ [][Next]_vars

-----------------------------------------------------------------------------
(* Properties.                                                             *)

TypeOK ==
    /\ alertStatus \in {"NONE", "OPEN", "ACKNOWLEDGED", "RESOLVED"}
    /\ resolvedAt \in BOOLEAN
    /\ {due, recorded} \subseteq SUBSET Policies
    /\ notices \subseteq Keys
    /\ queued \in [Keys -> Nat]
    /\ notifier \in [Notifiers ->
          [pc : {"idle", "escalate", "notify", "create", "queue"}, fact : Facts,
           read : SUBSET (Policies \cup Users), todo : SUBSET Users]]
    /\ runs \in Nat /\ breaks \in Nat
    /\ cut \subseteq Facts

Announced ==
    (IF alertStatus = "NONE" THEN {} ELSE {"OPENED"}) \cup
    (IF resolvedAt THEN {"RESOLVED"} ELSE {}) \cup recorded

Underway(fact) ==
    \E r \in Notifiers : notifier[r].fact = fact
                         /\ notifier[r].pc \in {"notify", "create", "queue"}

\* Everybody hears of what was saved, although the loser of a race for a row gives up
\* the rest of its list and escalations overwrite each other's records: unless a
\* notifier broke off, somebody is still at it or a delivery was queued for each.
EveryoneTold ==
    \A fact \in Announced : \/ fact \in cut
                            \/ Underway(fact)
                            \/ \A u \in Users : queued[<<fact, u>>] > 0

\* However often a policy is escalated anew because its record was overwritten, and
\* however many resolve at once, nobody is told twice.
NobodyToldTwice ==
    \A k \in Keys : queued[k] <= 1
=============================================================================
