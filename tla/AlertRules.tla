----------------------------- MODULE AlertRules -----------------------------
(***************************************************************************)
(* What the rules of an alert mean: which apply to a reading and in which  *)
(* order (get_matching_rules), when a condition holds (evaluate_rule_-     *)
(* condition), when a window suppresses it (_has_suppression), which       *)
(* policies escalate the alert (escalation.py), and what the clean methods *)
(* of these rows accept (apps/alerts/models.py).  The life cycle that is   *)
(* built on these answers is AlertEngine's.                                *)
(*                                                                         *)
(* A field that is NULL names everything.  A device is a record with its org,     *)
(* center and type, as it is when it is looked at: it may have moved since *)
(* a row that names it was saved.                                          *)
(***************************************************************************)
EXTENDS Readings

CONSTANT CenterOrg      \* the organization of each data center

Null == "any"
Covers(field, x) == field \in {Null, x}

\* The data center that a row names belongs to the organization it names.
CenterFits(row) == row.center = Null \/ CenterOrg[row.center] = row.org

-----------------------------------------------------------------------------
(* Rules.                                                                  *)

Columns == <<"float", "integer", "boolean", "text">>

\* _value_from_latest, _threshold_from_rule: the first column that is not NULL.
FirstSet(row) ==
    LET set == {i \in DOMAIN Columns : row[Columns[i]] # None}
    IN  IF set = {} THEN None ELSE row[Columns[Min(set)]]

\* AlertRule.clean, but for the search of a duplicate (module Seeds).
AcceptsRule(rule, device) ==
    /\ Cardinality({c \in ToSet(Columns) : rule.threshold[c] # None}) = 1
    /\ rule.device # Null =>
          /\ rule.org = device.org
          /\ Covers(rule.center, device.center) /\ Covers(rule.type, device.type)
    /\ CenterFits(rule)

\* _matching_rule_queryset: a rule of the device, whatever else it names, or one
\* whose data center and type are the device's as far as it names them.
Applies(rule, device, metric) ==
    /\ rule.active /\ rule.org = device.org /\ rule.metric = metric
    /\ \/ rule.device = device.id
       \/ rule.device = Null /\ Covers(rule.center, device.center) /\ Covers(rule.type, device.type)

\* _rule_specificity, of which rules are sorted in reverse: later ones come first.
\* Of rules that were created together any may be.
Rank(rule) ==
    IF rule.device # Null THEN 4
    ELSE (IF rule.center # Null THEN 2 ELSE 0) + (IF rule.type # Null THEN 1 ELSE 0)

Before(a, b) == Rank(a) > Rank(b) \/ (Rank(a) = Rank(b) /\ a.created > b.created)

Matching(rules, device, metric) ==
    LET found == {rule \in rules : Applies(rule, device, metric)}
    IN  CHOOSE list \in [1 .. Cardinality(found) -> found] :
            /\ ToSet(list) = found
            /\ \A i, j \in DOMAIN list : i < j => ~Before(list[j], list[i])

\* What Python compares: a boolean is a number, and words go by their letters.
Key(v) ==
    IF v.type = "text" THEN [empty |-> 0, off |-> 1, on |-> 2, other |-> 3][v.is]
    ELSE AsNumber(v)

Ordered(operator, x, y) ==
    CASE operator = "GT"  -> x > y
      [] operator = "GTE" -> x >= y
      [] operator = "LT"  -> x < y
      [] operator = "LTE" -> x <= y
      [] operator = "EQ"  -> x = y
      [] operator = "NEQ" -> x # y

\* _compare.  Whatever is no value, or text beside a number, is merely different;
\* to order them raises, which evaluate_rule_condition answers with False.
Compare(operator, value, threshold) ==
    IF value # None /\ (value.type = "text" <=> threshold.type = "text")
    THEN Ordered(operator, Key(value), Key(threshold))
    ELSE operator = "NEQ"

Condition(rule, latest) == Compare(rule.operator, FirstSet(latest), FirstSet(rule.threshold))

-----------------------------------------------------------------------------
(* Suppression windows.                                                    *)

\* AlertSuppressionWindow.clean.  Two windows of one scope may meet.
SameScope(w, o) ==
    w.org = o.org /\ w.center = o.center /\ w.device = o.device /\ w.metric = o.metric

AcceptsWindow(w, device, stored) ==
    /\ w.from < w.to
    /\ CenterFits(w)
    /\ w.device # Null => w.org = device.org /\ Covers(w.center, device.center)
    /\ w.active =>
          ~\E o \in stored : o.active /\ SameScope(w, o) /\ o.from < w.to /\ o.to > w.from

\* _has_suppression.  Both ends are inclusive.
Suppressed(windows, device, metric, now) ==
    \E w \in windows :
        /\ w.active /\ w.org = device.org /\ w.from <= now /\ now <= w.to
        /\ Covers(w.center, device.center) /\ Covers(w.device, device.id)
        /\ Covers(w.metric, metric)

-----------------------------------------------------------------------------
(* Escalation policies.  Minutes that are not set are Never.               *)

Never == 0

\* AlertEscalationPolicy.clean.
AcceptsPolicy(p, stored) ==
    /\ ~(p.unacknowledged = Never /\ p.unresolved = Never)
    /\ p.org # Null => CenterFits(p)
    /\ p.active => ~\E o \in stored : o.active /\ [o EXCEPT !.id = p.id] = p

\* _policy_matches.
PolicyMatches(p, alert) ==
    /\ p.active /\ p.severity = alert.severity
    /\ Covers(p.org, alert.org) /\ Covers(p.center, alert.center)

\* _policy_trigger_met, so many minutes after the alert was triggered.  It was
\* acknowledged then, or never.
TriggerMet(p, alert, minutes) ==
    LET acknowledged == alert.acknowledged # Never /\ alert.acknowledged <= minutes
        since == IF acknowledged THEN minutes - alert.acknowledged ELSE minutes
    IN  \/ ~acknowledged /\ p.unacknowledged # Never /\ minutes >= p.unacknowledged
        \/ p.unresolved # Never /\ since >= p.unresolved

\* run_alert_escalation_check: the first policy that is triggered ends the search,
\* whether it was recorded before or not.
Stopping(policies, alert, minutes) ==
    SelectInSeq(policies, LAMBDA p : PolicyMatches(p, alert) /\ TriggerMet(p, alert, minutes))

\* The policies that runs of the check, one a minute, have recorded.
Escalated(policies, alert, minutes) ==
    {Stopping(policies, alert, m) : m \in 0 .. minutes} \ {0}

-----------------------------------------------------------------------------
(* Properties.                                                             *)

Fields(rule) ==
    IF rule.device # Null THEN {"center", "type", "device"}
    ELSE {f \in {"center", "type"} : rule[f] # Null}

\* A reading is judged by the active rules of its metric that name nothing but what
\* its device is; one that names the device itself goes by where it was when the rule
\* was saved, unless it has moved to another organization.  None comes before another that is more specific.
RulesFound(rules, device, before, metric) ==
    LET found == Matching(rules, device, metric)
        as(rule) == IF rule.device = device.id THEN before ELSE device
    IN  /\ ToSet(found) =
              {rule \in rules :
                  /\ rule.active /\ rule.metric = metric
                  /\ rule.org = device.org /\ Covers(rule.center, as(rule).center)
                  /\ Covers(rule.type, as(rule).type) /\ Covers(rule.device, device.id)}
        /\ \A i, j \in DOMAIN found :
              i < j => ~(Fields(found[i]) \subseteq Fields(found[j])
                         /\ Fields(found[i]) # Fields(found[j]))

\* How a measure lies to the threshold where each operator holds.
Signs ==
    [GT |-> {1}, GTE |-> {0, 1}, LT |-> {-1}, LTE |-> {-1, 0}, EQ |-> {0}, NEQ |-> {-1, 1}]

Meets(operator, difference) ==
    (IF difference = 0 THEN 0 ELSE Sign(difference)) \in Signs[operator]

\* What is stored of a reading (Readings) holds a condition exactly when what was
\* measured does, but for measures nearer to the threshold than the types lose; and
\* what is no number, or no value, satisfies no condition but NEQ.
ConditionAsMeasured(i, rule) ==
    LET payload == Outcome(i)
        latest == [c \in ToSet(Columns) |-> IF c = payload.column THEN payload.value ELSE None]
        threshold == FirstSet(rule.threshold)
        holds == Condition(rule, latest)
        number == i.raw.type = "number" /\ i.metric \in {"FLOAT", "INTEGER"}
        exact == Lost(i) = 0 \/ Abs(Measured(i) - threshold.is) > Lost(i)
    IN  /\ number /\ threshold.type = "number" /\ exact =>
              (holds <=> Meets(rule.operator, Measured(i) - threshold.is))
        /\ i.raw.type = "number" /\ i.metric = "BOOLEAN" /\ Lost(i) = 0 /\ threshold.type = "bool" =>
              (holds <=> Meets(rule.operator, (IF Measured(i) # 0 THEN Unit ELSE 0)
                                                  - AsNumber(threshold)))
        /\ payload.value.type \in {"none", "text"} /\ threshold.type # "text" =>
              (holds <=> rule.operator = "NEQ")

\* Of two windows of one scope that were accepted one after the other, both suppress
\* an alert only at the instant at which they meet; and if they do meet, it stays
\* suppressed from the start of the first to the end of the second.
WindowsApart(first, second, device, metric, now) ==
    LET by(ws, t) == Suppressed(ws, device, metric, t)
    IN  SameScope(first, second) /\ first.active /\ second.active =>
            /\ by({first}, now) /\ by({second}, now) => now \in {first.from, first.to}
            /\ first.to = second.from /\ now \in first.from .. second.to =>
                  by({first, second}, now) = by({first, second}, first.from)

\* Minutes until a policy is triggered for an alert that is left alone.
Minutes(p) ==
    Min({p.unresolved, p.unacknowledged} \ {Never})

\* While an alert is left alone, a policy escalates it exactly if it is triggered
\* before any policy that the check looks at earlier: one that comes after a faster
\* one never does.
TiersReached(policies, alert, minutes) ==
    alert.acknowledged = Never =>
        LET wait(i) == Minutes(policies[i])
            of == {i \in DOMAIN policies :
                    /\ policies[i].active /\ policies[i].severity = alert.severity
                    /\ \A field \in {"org", "center"} : Covers(policies[i][field], alert[field])}
        IN  Escalated(policies, alert, minutes) =
                {i \in of : wait(i) <= minutes /\ \A j \in of : j < i => wait(i) < wait(j)}

\* An acknowledged alert is escalated as unresolved only, and the minutes start anew.
ClockRestarts(policies, alert, minutes) ==
    \A i \in Escalated(policies, alert, minutes) \ Escalated(policies, alert, alert.acknowledged - 1) :
        alert.acknowledged # Never =>
            /\ policies[i].unresolved # Never
            /\ minutes >= alert.acknowledged + policies[i].unresolved
=============================================================================
