---------------------------- MODULE MCAlertPath ----------------------------
(***************************************************************************)
(* What an alert goes through on its way to an operator, for TLC: the rule *)
(* lookup of a reading (RuleMatchCache), the traps that open alerts        *)
(* without a rule (TrapAlerts), the notices of an alert (AlertNotices) and *)
(* their delivery by e-mail, whose send may outlast the stale cutoff       *)
(* (NotificationDelivery).  One of them moves in each behaviour.           *)
(***************************************************************************)
EXTENDS NotificationDelivery

CONSTANTS mail,
    Rules, Evaluators, Writers, MaxVersions, MaxFaults,
    Slots, NoSlot, MaxAlerts, MaxTraps, MaxMishaps,
    Users, Policies, AckPolicies, Notifiers, MaxRuns, MaxBreaks

MCNotifs == {mail}
OnlyMail == [n \in MCNotifs |-> "EMAIL"]

\* send_mail has no timeout (EMAIL_TIMEOUT is unset).
Untimed == {"EMAIL"}

VARIABLES
    part,       \* the one that moves
    rules, version, lists, drawn, ev, writer, faults, unannounced, must, answer,
    device, alarm, traps, confirmations, latest, ruled, ruleAlert, state, occurrences,
    lockedBy, slot, acks, sent, mishaps, newest, known, revived, counted, excused,
    alertStatus, resolvedAt, due, recorded, notices, queued, notifier, runs, breaks, cut

cacheVars == <<rules, version, lists, drawn, ev, writer, faults, unannounced, must, answer>>
trapVars == <<device, alarm, traps, confirmations, latest, ruled, ruleAlert, state,
              occurrences, lockedBy, slot, acks, sent, mishaps, newest, known, revived, counted,
              excused>>
noticeVars == <<alertStatus, resolvedAt, due, recorded, notices, queued, notifier, runs,
                breaks, cut>>

Cache == INSTANCE RuleMatchCache
Traps == INSTANCE TrapAlerts
Notices == INSTANCE AlertNotices

ASSUME PartsAssumption == Cache!CacheAssumption /\ Traps!TrapAssumption

MCInit ==
    /\ part \in {"delivery", "cache", "traps", "notices"}
    /\ Init /\ Cache!Init /\ Traps!Init /\ Notices!Init
    /\ part # "cache" => rules = {}
    /\ part # "traps" => device = "UPS"

MCNext ==
    /\ part' = part
    /\ IF part = "delivery" THEN Next ELSE UNCHANGED vars
    /\ IF part = "cache" THEN Cache!Next ELSE UNCHANGED cacheVars
    /\ IF part = "traps" THEN Traps!Next ELSE UNCHANGED trapVars
    /\ IF part = "notices" THEN Notices!Next ELSE UNCHANGED noticeVars

MCSpec == MCInit /\ [][MCNext]_<<part, vars, cacheVars, trapVars, noticeVars>>

\* Lookups miss no announced rule (RuleMatchCache implements RuleLookup).
LookupsComplete == Cache!LookupsComplete

\* Every trap of a UPS is counted once.
TrapsCounted == Traps!TrapsCounted

\* Alerts without a rule are doubled by overlapping tasks and late acknowledgements only.
DoublesExplained == Traps!DoublesExplained

\* The alerts of a PAC end up as the equipment is.
TrapsConverge == Traps!TrapsConverge

\* Everybody hears of every fact about an alert.
EveryoneTold == Notices!EveryoneTold

\* Nobody hears of one twice.
NobodyToldTwice == Notices!NobodyToldTwice
=============================================================================
