---------------------------- MODULE AlertEngine ----------------------------
(***************************************************************************)
(* The life cycle of the alerts of one key -- one rule, one device, one    *)
(* metric -- as apps/alerts/services/engine.py drives it.                  *)
(*                                                                         *)
(* The actors are evaluators, each a collector process running             *)
(* evaluate_latest for a reading of the metric, and users of the REST API. *)
(* They meet in PostgreSQL at READ COMMITTED: a SELECT ... FOR UPDATE      *)
(* takes its candidates from a snapshot, locks them newest first, waits    *)
(* for a row another transaction holds and tests the row again after the   *)
(* wait.  What a transaction writes is seen by the others at its commit.   *)
(*                                                                         *)
(* Evaluators come in two kinds.  An SNMP poll writes the latest reading   *)
(* and evaluates it inside one transaction, so it holds the reading's row  *)
(* from the write to its commit.  A Modbus poll and the confirmation of a  *)
(* PAC trap write the reading, commit, read it back and evaluate it in a   *)
(* transaction of their own.                                               *)
(*                                                                         *)
(* Left out: values, messages, occurrence counts, comments and logs; the   *)
(* notifications opened and resolved alerts create; the choice of rules;   *)
(* alerts without a rule (traps).                                          *)
(***************************************************************************)
EXTENDS Integers

CONSTANTS
    Evaluators,     \* processes that evaluate readings of this metric
    SnmpPolls,      \* those of them that are SNMP polls
    Users,          \* concurrent API requests
    NoOne,          \* no evaluator
    HasDuration,    \* whether the rule has duration_seconds > 0
    MaxAlerts,      \* bound: rows of alert_events for the key
    MaxFlips,       \* bound: changes of the equipment and of the windows
    MaxCalls,       \* bound: API requests
    MaxDeaths       \* bound: evaluators that die or time out half-way

ASSUME EngineAssumption ==
    /\ SnmpPolls \subseteq Evaluators
    /\ NoOne \notin Evaluators
    /\ HasDuration \in BOOLEAN
    /\ MaxAlerts \in Nat
    /\ MaxFlips \in Nat
    /\ MaxCalls \in Nat
    /\ MaxDeaths \in Nat

Alerts == 1 .. MaxAlerts        \* in the order of triggered_at
NoAlert == 0

VARIABLES
    status,         \* AlertEvent.status of each row
    holder,         \* who holds the row lock of each alert
    condState,      \* the AlertConditionState row: absent, younger than the
                    \* rule's duration, or older
    condHolder,     \* who holds that row
    reading,        \* whether the committed LatestTelemetry meets the condition
    readingHolder,  \* who holds that row
    bad,            \* whether the equipment is in the alarm condition
    window,         \* whether a suppression window covers the key
    ev,             \* the progress of each evaluator
    user,           \* the progress of each API request
    flips, calls, deaths,   \* what is used of the bounds
    \* history, read by the properties only
    opener,         \* which evaluator opened each active alert; forgotten when
                    \* the alert ends, so that one that a late
                    \* acknowledgement revives has none
    interrupted     \* whether an evaluation found the condition false since
                    \* the first_seen_at of the condition row

vars == <<status, holder, condState, condHolder, reading,
          readingHolder, bad, window, ev, user, flips, calls, deaths,
          opener, interrupted>>

ActiveStatuses == {"OPEN", "ACKNOWLEDGED"}
Statuses == ActiveStatuses \cup {"RESOLVED", "SUPPRESSED"}
Ages == {"none", "fresh", "due"}

\* What the scope filter of _active_alert_for_rule selects.
Active == {a \in Alerts : status[a] \in ActiveStatuses}

IdleEvaluator == [pc |-> "idle", cond |-> FALSE, seen |-> {}, alert |-> NoAlert,
                  found |-> "none", effect |-> "none"]
IdleUser == [op |-> "idle", alert |-> NoAlert]

Init ==
    /\ status = [a \in Alerts |-> "NONE"]
    /\ holder = [a \in Alerts |-> NoOne]
    /\ condState = "none" /\ condHolder = NoOne
    /\ reading = FALSE /\ readingHolder = NoOne
    /\ bad = FALSE /\ window = FALSE
    /\ ev = [e \in Evaluators |-> IdleEvaluator]
    /\ user = [u \in Users |-> IdleUser]
    /\ flips = 0 /\ calls = 0 /\ deaths = 0
    /\ opener = [a \in Alerts |-> NoOne]
    /\ interrupted = FALSE

rows == <<status, holder, condState, condHolder>>
latest == <<reading, readingHolder>>
world == <<bad, window, flips>>
api == <<user, calls>>
history == <<opener, interrupted>>

-----------------------------------------------------------------------------
(* The reading.                                                            *)

\* The device answers.  What it said is a local of the collector until saved.
Sample(e) ==
    /\ ev[e].pc = "idle"
    /\ ev' = [ev EXCEPT ![e].pc = "sampled", ![e].cond = bad]
    /\ UNCHANGED <<rows, latest, world, api, deaths, history>>

\* LatestTelemetry.update_or_create.  An SNMP poll goes on in the same
\* transaction with the row it wrote and keeps the row locked.
SaveInTransaction(e) ==
    /\ e \in SnmpPolls
    /\ ev[e].pc = "sampled"
    /\ readingHolder = NoOne
    /\ readingHolder' = e
    /\ ev' = [ev EXCEPT ![e].pc = "select"]
    /\ UNCHANGED <<rows, reading, world, api, deaths, history>>

\* The bulk writer of the other collectors commits the row at once ...
SaveReading(e) ==
    /\ e \notin SnmpPolls
    /\ ev[e].pc = "sampled"
    /\ readingHolder = NoOne
    /\ reading' = ev[e].cond
    /\ ev' = [ev EXCEPT ![e].pc = "fetch"]
    /\ UNCHANGED <<rows, readingHolder, world, api, deaths, history>>

\* ... and they read it back, whoever wrote it last.
FetchReading(e) ==
    /\ ev[e].pc = "fetch"
    /\ ev' = [ev EXCEPT ![e].pc = "select", ![e].cond = reading]
    /\ UNCHANGED <<rows, latest, world, api, deaths, history>>

-----------------------------------------------------------------------------
(* _active_alert_for_rule: the newest active alert, locked.                *)

\* (Mutated form of what follows.)  The scope filter forgets ACKNOWLEDGED.
SelectOpenOnly(e) ==
    /\ ev[e].pc = "select"
    /\ ev' = [ev EXCEPT ![e].pc = "lock",
                        ![e].seen = {a \in Alerts : status[a] = "OPEN"}]
    /\ UNCHANGED <<rows, latest, world, api, deaths, history>>

\* The statement's snapshot.
Select(e) ==
    /\ ev[e].pc = "select"
    /\ ev' = [ev EXCEPT ![e].pc = "lock", ![e].seen = Active]
    /\ UNCHANGED <<rows, latest, world, api, deaths, history>>

\* The newest candidate, when no other transaction holds its row.
Candidate(e, a) ==
    /\ ev[e].pc = "lock"
    /\ a \in ev[e].seen
    /\ \A b \in ev[e].seen : b <= a
    /\ holder[a] = NoOne

\* (Mutated form of what follows.)
\* The row is locked by its id, without the filter on the status.
LockUnchecked(e, a) ==
    /\ Candidate(e, a)
    /\ holder' = [holder EXCEPT ![a] = e]
    /\ ev' = [ev EXCEPT ![e].pc = "decide", ![e].seen = {}, ![e].alert = a]
    /\ UNCHANGED <<status, condState, condHolder, latest, world,
                   api, deaths, history>>

LockAlert(e, a) ==
    /\ Candidate(e, a)
    /\ a \in Active
    /\ holder' = [holder EXCEPT ![a] = e]
    /\ ev' = [ev EXCEPT ![e].pc = "decide", ![e].seen = {}, ![e].alert = a]
    /\ UNCHANGED <<status, condState, condHolder, latest, world,
                   api, deaths, history>>

\* The row changed after the snapshot and is not active any more.
SkipAlert(e, a) ==
    /\ Candidate(e, a)
    /\ a \notin Active
    /\ ev' = [ev EXCEPT ![e].seen = @ \ {a}]
    /\ UNCHANGED <<rows, latest, world, api, deaths, history>>

FindNoAlert(e) ==
    /\ ev[e].pc = "lock"
    /\ ev[e].seen = {}
    /\ ev' = [ev EXCEPT ![e].pc = "decide"]
    /\ UNCHANGED <<rows, latest, world, api, deaths, history>>

-----------------------------------------------------------------------------
(* What the transaction will write.                                        *)

\* (Mutated form of what follows.)  An alert that is already active is updated
\* before the windows are looked up.
DecideTrueWindowLast(e) ==
    /\ ev[e].pc = "decide" /\ ev[e].cond /\ ev[e].alert # NoAlert
    /\ ev' = [ev EXCEPT ![e].pc = "commit", ![e].effect = "update"]
    /\ UNCHANGED <<rows, latest, world, api, deaths, history>>

\* _ensure_alert_for_true_condition with an active alert: the window is
\* looked up after the lock is taken.
DecideTrue(e) ==
    /\ ev[e].pc = "decide" /\ ev[e].cond /\ ev[e].alert # NoAlert
    /\ ev' = [ev EXCEPT ![e].pc = "commit",
                        ![e].effect = IF window THEN "suppress" ELSE "update"]
    /\ UNCHANGED <<rows, latest, world, api, deaths, history>>

\* Without one, inside a window: a row created as SUPPRESSED.  It never becomes
\* active, so the model does not keep it, and every evaluation creates another.
DecideSuppressed(e) ==
    /\ ev[e].pc = "decide" /\ ev[e].cond /\ ev[e].alert = NoAlert
    /\ window
    /\ ev' = [ev EXCEPT ![e].pc = "commit", ![e].effect = "insert suppressed"]
    /\ UNCHANGED <<rows, latest, world, api, deaths, history>>

\* _upsert_condition_state, the get of get_or_create.
GetState(e) ==
    /\ ev[e].pc = "decide" /\ ev[e].cond /\ ev[e].alert = NoAlert
    /\ ~window
    /\ ev' = [ev EXCEPT ![e].pc = "track", ![e].found = condState]
    /\ UNCHANGED <<rows, latest, world, api, deaths, history>>

\* Ids are given in the order alerts are opened.
Taken == {a \in Alerts : status[a] # "NONE"}
            \cup {ev[e].alert : e \in {x \in Evaluators : ev[x].effect = "open"}}

NextAlert(a) ==
    /\ \A b \in Taken : b < a
    /\ a = 1 \/ a - 1 \in Taken

\* (Mutated form of what follows.)
\* first_seen_at is written on every evaluation, as last_seen_at is.
SinceRestarted(e) == "fresh"

\* The first_seen_at the duration is measured from: the row the get returned,
\* or the one that made the insert fail, or the new one.
Since(e) ==
    IF ev[e].found # "none" THEN ev[e].found
    ELSE IF condState # "none" THEN condState
    ELSE "fresh"

DurationMet(e) == ~HasDuration \/ Since(e) = "due"

\* The insert, or the save of the row found, once nobody else holds it; then
\* open_alert when the condition has lasted.
Track(e) ==
    /\ ev[e].pc = "track" /\ ev[e].found # "gone"
    /\ condHolder = NoOne
    /\ condHolder' = e
    /\ \/ /\ ~DurationMet(e)
          /\ ev' = [ev EXCEPT ![e].pc = "commit", ![e].effect = "track"]
       \/ /\ DurationMet(e)
          /\ \E a \in Alerts :
                /\ NextAlert(a)
                /\ ev' = [ev EXCEPT ![e].pc = "commit", ![e].effect = "open",
                                    ![e].alert = a]
    /\ UNCHANGED <<status, holder, condState, latest, world, api,
                   deaths, history>>

\* save(update_fields) of a row deleted since it was read raises: this rule's
\* evaluation is undone, what the poll wrote before it stays.
TrackFails(e) ==
    /\ ev[e].pc = "track" /\ ev[e].found = "gone"
    /\ ev' = [ev EXCEPT ![e].pc = "commit", ![e].effect = "none"]
    /\ UNCHANGED <<rows, latest, world, api, deaths, history>>

\* (Mutated form of what follows.)  Only OPEN alerts resolve by themselves.
DecideFalseOpenOnly(e) ==
    /\ ev[e].pc = "decide" /\ ~ev[e].cond /\ ev[e].alert # NoAlert
    /\ ev' = [ev EXCEPT ![e].pc = "commit",
                        ![e].effect = IF status[ev[e].alert] = "OPEN" THEN "resolve" ELSE "none"]
    /\ UNCHANGED <<rows, latest, world, api, deaths, history>>

\* _resolve_if_needed with an active alert.
DecideFalse(e) ==
    /\ ev[e].pc = "decide" /\ ~ev[e].cond /\ ev[e].alert # NoAlert
    /\ ev' = [ev EXCEPT ![e].pc = "commit", ![e].effect = "resolve"]
    /\ UNCHANGED <<rows, latest, world, api, deaths, history>>

\* _clear_condition_state: the DELETE does not see a row that is not committed
\* and waits for one that is being saved.
ClearState(e) ==
    /\ ev[e].pc = "decide" /\ ~ev[e].cond /\ ev[e].alert = NoAlert
    /\ \/ /\ condState = "none"
          /\ ev' = [ev EXCEPT ![e].pc = "commit", ![e].effect = "none"]
          /\ UNCHANGED condHolder
       \/ /\ condState # "none" /\ condHolder = NoOne
          /\ ev' = [ev EXCEPT ![e].pc = "commit", ![e].effect = "clear"]
          /\ condHolder' = e
    /\ UNCHANGED <<status, holder, condState, latest, world, api,
                   deaths, history>>

-----------------------------------------------------------------------------
(* Commit and rollback.                                                    *)

\* Locks end with the transaction, whichever way it ends.
Release(e) ==
    /\ holder' = [a \in Alerts |-> IF holder[a] = e THEN NoOne ELSE holder[a]]
    /\ condHolder' = IF condHolder = e THEN NoOne ELSE condHolder
    /\ readingHolder' = IF readingHolder = e THEN NoOne ELSE readingHolder

\* (Mutated form of what follows.)  The resolution type ends up in the status.
StatusAfterMixedUp(e) ==
    CASE ev[e].effect = "resolve" -> "AUTO"
      [] ev[e].effect = "suppress" -> "SUPPRESSED"
      [] ev[e].effect = "open" -> "OPEN"
      [] OTHER -> status[ev[e].alert]

\* resolve_alert, suppress_alert and open_alert set the status;
\* update_active_alert leaves it as it is.
StatusAfter(e) ==
    CASE ev[e].effect = "resolve" -> "RESOLVED"
      [] ev[e].effect = "suppress" -> "SUPPRESSED"
      [] ev[e].effect = "open" -> "OPEN"
      [] OTHER -> status[ev[e].alert]

CondStateAfter(e) ==
    CASE ev[e].effect = "clear" -> "none"
      [] ev[e].effect \in {"track", "open"} /\ condState = "none" -> "fresh"
      [] OTHER -> condState

\* A deleted condition row is gone for those who already read it.
EvaluatorsAfter(e) ==
    [x \in Evaluators |->
        IF x = e THEN IdleEvaluator
        ELSE IF ev[e].effect = "clear" /\ ev[x].found # "none"
             THEN [ev[x] EXCEPT !.found = "gone"]
             ELSE ev[x]]

Commit(e) ==
    /\ ev[e].pc = "commit"
    /\ status' = IF ev[e].alert = NoAlert THEN status
                 ELSE [status EXCEPT ![ev[e].alert] = StatusAfter(e)]
    /\ condState' = CondStateAfter(e)
    /\ reading' = IF e \in SnmpPolls THEN ev[e].cond ELSE reading
    /\ ev' = EvaluatorsAfter(e)
    /\ Release(e)
    /\ opener' = CASE ev[e].effect = "open" -> [opener EXCEPT ![ev[e].alert] = e]
                   [] ev[e].effect \in {"resolve", "suppress"} ->
                        [opener EXCEPT ![ev[e].alert] = NoOne]
                   [] OTHER -> opener
    /\ interrupted' = (condState' # "none" /\ (interrupted \/ ~ev[e].cond))
    /\ UNCHANGED <<world, api, deaths>>

\* The worker dies, or its soft time limit strikes, before the commit.
Die(e) ==
    /\ deaths < MaxDeaths
    /\ ev[e].pc # "idle"
    /\ deaths' = deaths + 1
    /\ ev' = [ev EXCEPT ![e] = IdleEvaluator]
    /\ Release(e)
    /\ UNCHANGED <<status, condState, reading, world, api, history>>

-----------------------------------------------------------------------------
(* The REST API.                                                           *)

\* get_object, without a lock.  acknowledge returns early unless what it read
\* is OPEN; resolve has no such test.
GetEvent(u, a, op) ==
    /\ user[u].op = "idle"
    /\ calls < MaxCalls
    /\ op = "acknowledge" => status[a] = "OPEN"
    /\ op = "resolve" => status[a] \in Statuses
    /\ user' = [user EXCEPT ![u] = [op |-> op, alert |-> a]]
    /\ calls' = calls + 1
    /\ UNCHANGED <<rows, latest, world, ev, deaths, history>>

\* save(update_fields), whatever the row has become; on a deleted row it raises.
Acknowledge(u) ==
    /\ user[u].op = "acknowledge"
    /\ holder[user[u].alert] = NoOne
    /\ status' = IF status[user[u].alert] \in Statuses
                 THEN [status EXCEPT ![user[u].alert] = "ACKNOWLEDGED"] ELSE status
    /\ user' = [user EXCEPT ![u] = IdleUser]
    /\ UNCHANGED <<holder, condState, condHolder, latest, world, ev,
                   calls, deaths, history>>

ManuallyResolve(u) ==
    /\ user[u].op = "resolve"
    /\ holder[user[u].alert] = NoOne
    /\ status' = IF status[user[u].alert] \in Statuses
                 THEN [status EXCEPT ![user[u].alert] = "RESOLVED"] ELSE status
    /\ opener' = [opener EXCEPT ![user[u].alert] = NoOne]
    /\ user' = [user EXCEPT ![u] = IdleUser]
    /\ UNCHANGED <<holder, condState, condHolder, latest, world, ev,
                   calls, deaths, interrupted>>

\* DELETE on the alert's URL.
Destroy(a) ==
    /\ calls < MaxCalls
    /\ status[a] \in Statuses
    /\ holder[a] = NoOne
    /\ status' = [status EXCEPT ![a] = "DELETED"]
    /\ opener' = [opener EXCEPT ![a] = NoOne]
    /\ calls' = calls + 1
    /\ UNCHANGED <<holder, condState, condHolder, latest, world, ev,
                   user, deaths, interrupted>>

-----------------------------------------------------------------------------
(* The surroundings.                                                       *)

EquipmentChanges ==
    /\ flips < MaxFlips
    /\ flips' = flips + 1
    /\ bad' = ~bad
    /\ UNCHANGED <<rows, latest, window, ev, api, deaths, history>>

\* A window is created, begins, ends or is withdrawn.
WindowChanges ==
    /\ flips < MaxFlips
    /\ flips' = flips + 1
    /\ window' = ~window
    /\ UNCHANGED <<rows, latest, bad, ev, api, deaths, history>>

\* duration_seconds pass.
DurationPasses ==
    /\ HasDuration
    /\ condState = "fresh"
    /\ condState' = "due"
    /\ UNCHANGED <<status, holder, condHolder, latest, world, ev, api,
                   deaths, history>>

-----------------------------------------------------------------------------
Decide(e) ==
    \/ DecideTrue(e) \/ DecideSuppressed(e) \/ DecideFalse(e)
    \/ GetState(e) \/ Track(e) \/ TrackFails(e) \/ ClearState(e)

\* What a process that has its sample goes on to do.
Proceed(e) ==
    \/ SaveInTransaction(e) \/ SaveReading(e) \/ FetchReading(e) \/ Select(e)
    \/ \E a \in Alerts : LockAlert(e, a) \/ SkipAlert(e, a)
    \/ FindNoAlert(e)
    \/ Decide(e)
    \/ Commit(e)

Evaluate(e) == Sample(e) \/ Proceed(e) \/ Die(e)

Request(u) ==
    \/ \E a \in Alerts, op \in {"acknowledge", "resolve"} : GetEvent(u, a, op)
    \/ Acknowledge(u)
    \/ ManuallyResolve(u)

Next ==
    \/ \E e \in Evaluators : Evaluate(e)
    \/ \E u \in Users : Request(u)
    \/ \E a \in Alerts : Destroy(a)
    \/ EquipmentChanges
    \/ WindowChanges
    \/ DurationPasses

Spec == Init /\ [][Next]_vars

(* Polls are scheduled again and again; a confirmation needs a trap, and   *)
(* nothing promises one.  A process that has begun goes on, and the queue  *)
(* of a PostgreSQL row lock lets it through however often others come      *)
(* first (SF).  Time passes.  Users owe nothing.                           *)
Fairness ==
    /\ \A e \in SnmpPolls : WF_vars(Sample(e))
    /\ \A e \in Evaluators : SF_vars(Proceed(e))
    /\ WF_vars(DurationPasses)

FairSpec == Spec /\ Fairness

-----------------------------------------------------------------------------
(* Properties.                                                             *)

Pcs == {"idle", "sampled", "fetch", "select", "lock", "decide", "track", "commit"}
Effects == {"none", "update", "suppress", "insert suppressed", "track", "open",
            "resolve", "clear"}

\* The type of the state: every value a row, a lock or a local can take.
TypeOK ==
    /\ status \in [Alerts -> Statuses \cup {"NONE", "DELETED"}]
    /\ holder \in [Alerts -> Evaluators \cup {NoOne}]
    /\ condState \in Ages
    /\ condHolder \in Evaluators \cup {NoOne}
    /\ reading \in BOOLEAN
    /\ readingHolder \in Evaluators \cup {NoOne}
    /\ bad \in BOOLEAN
    /\ window \in BOOLEAN
    /\ ev \in [Evaluators -> [pc : Pcs, cond : BOOLEAN, seen : SUBSET Alerts,
                              alert : Alerts \cup {NoAlert},
                              found : Ages \cup {"gone"}, effect : Effects]]
    /\ user \in [Users -> [op : {"idle", "acknowledge", "resolve"},
                           alert : Alerts \cup {NoAlert}]]
    /\ flips \in 0 .. MaxFlips
    /\ calls \in 0 .. MaxCalls
    /\ deaths \in 0 .. MaxDeaths
    /\ opener \in [Alerts -> Evaluators \cup {NoOne}]
    /\ interrupted \in BOOLEAN

\* SNMP polls take turns on the reading's row; any other evaluator is on its own.
SameLane(e, f) == e = f \/ {e, f} \subseteq SnmpPolls

\* Duplicate prevention, as far as it goes: of the alerts that are active
\* without having been revived by a late acknowledgement, all the SNMP polls
\* together opened at most one, and so did every other evaluator
\* (_ensure_alert_for_true_condition opens only what _active_alert_for_rule
\* does not find).
OneActivePerLane ==
    \A a, b \in Active :
        /\ opener[a] # NoOne /\ opener[b] # NoOne
        /\ SameLane(opener[a], opener[b])
        => a = b

\* An alert the engine holds is active: nobody resolves, suppresses or deletes
\* it between the engine's lock and its write.
LockedActive ==
    \A a \in Alerts : holder[a] # NoOne => a \in Active

\* The engine never changes an alert that is resolved, suppressed or deleted,
\* however old its view of the alert is.
EngineRespectsTerminal ==
    [][ev' # ev =>
        \A a \in Alerts \ Active : status[a] # "NONE" => status'[a] = status[a]]_vars

\* Once the equipment stays normal, or a window stays open, no alert of the key
\* stays active: not the duplicates, not the acknowledged, not the revived, not
\* those a late evaluation opens.
QuietEventually ==
    <>[](window \/ ~bad) => <>[](Active = {})

\* Once the equipment stays in alarm outside any window, an alert is active and
\* remains so, whatever users resolve or delete meanwhile.
RaisesEventually ==
    <>[](bad /\ ~window) => <>[](Active # {})

\* What the module docstring and the regression checklist promise: one active
\* alert per key.
SingleActive ==
    \A a, b \in Active : a = b

\* An acknowledgement is of an OPEN alert: what acknowledge_alert tests on the
\* object it read and writes to the alert's log.
AcknowledgesOpen ==
    [][\A a \in Alerts :
        status'[a] = "ACKNOWLEDGED" /\ status[a] # "ACKNOWLEDGED" => status[a] = "OPEN"]_vars

\* A rule with a duration opens an alert only when evaluations have found the
\* condition true for that long without a break.
DurationRespected ==
    [][\A a \in Alerts :
        HasDuration /\ status[a] = "NONE" /\ status'[a] = "OPEN" => ~interrupted]_vars
=============================================================================
