------------------------------- MODULE Seeds -------------------------------
(***************************************************************************)
(* What the deployment writes into the tables that everything else reads:  *)
(* the scripts that seed the OID mappings of a device model (scripts/), the*)
(* scripts and the command that seed its trap mappings, and the commands   *)
(* that seed the alert rules, beside operators who edit the same rows in   *)
(* the admin.  Each is run again after a release whose table has changed.  *)
(*                                                                         *)
(* One metric of each script, two traps and one alarm are followed.  A row *)
(* belongs to the device model it is meant for ("own"), to one with a name *)
(* alike, or to no model; its vendor is the script's or none.  A scale is a*)
(* number of hundredths, as in Readings.  Left out: OIDs, names, units,    *)
(* categories and texts; offsets (all are 0); what a script prints.        *)
(***************************************************************************)
EXTENDS Integers, FiniteSets

CONSTANTS
    Oids,           \* the OIDs in question
    Savers,         \* processes that save an alert rule
    MaxEdits        \* bound: releases and what operators do

R == INSTANCE Readings WITH Word <- 65536

-----------------------------------------------------------------------------
(* Rows.                                                                   *)

\* update_or_create: the row that agrees on the key is updated, a missing one is
\* created, and more than one raise.
Matching(rows, key, values) == {r \in rows : \A f \in key : r[f] = values[f]}

\* After all the others.
Fresh(rows) == 1 + (IF rows = {} THEN 0 ELSE CHOOSE i \in {r.id : r \in rows} :
                                                  \A r \in rows : r.id <= i)

Upserted(rows, key, values) ==
    LET found == Matching(rows, key, values)
        id == IF found = {} THEN Fresh(rows) ELSE (CHOOSE r \in found : TRUE).id
    IN  (rows \ found) \cup {[values EXCEPT !.id = id]}

\* get_or_create: a row that is there stays as it is.
Kept(rows, key, values) ==
    IF Matching(rows, key, values) = {} THEN Upserted(rows, key, values) ELSE rows

-----------------------------------------------------------------------------
(* The tables: the data type of the metric and of the mapping, the scale.  *)

Item(metric, mapping, scale) == [metric |-> metric, mapping |-> mapping, scale |-> scale]

ATSItems ==
    {Item("text", "string", 100), Item("text", "ipaddress", 100),
     Item("integer", "integer", 100), Item("float", "integer", 100),
     Item("float", "gauge32", 100)}

UPSItems ==
    {Item("Integer", "integer", 100), Item("Float", "integer", 10),
     Item("Float", "integer", 100), Item("Text", "string", 100)}

PACItems == {Item("Float", "float", 10), Item("Integer", "integer", 100)}

\* The types of the metrics, and those of the mappings with their scale.
NetBotzMetrics == {"float", "string", "integer", "timeticks"}

NetBotzItems ==
    {i \in {Item(m, t, 100) : m \in NetBotzMetrics, t \in {"string", "integer", "timeticks"}} :
        i.mapping = i.metric \/ <<i.metric, i.mapping>> = <<"float", "string">>}

PDUItems ==
    {Item("string", "string", 100), Item("integer", "integer", 100),
     Item("integer", "counter", 100), Item("float", "gauge", 100),
     Item("float", "timeticks", 1)}
    \cup {Item("float", "integer", s) : s \in {1, 10, 100}}

DCIMItems == {Item("INTEGER", "integer", 100)}

-----------------------------------------------------------------------------
(* Whom a script writes for.  Models are those that exist already.         *)

\* Nothing was found: the script raises, and its transaction is rolled back.
Unplaced == "unplaced"

\* By the exact name.
ATSTarget(models) == IF "own" \in models THEN "own" ELSE Unplaced
NetBotzTarget(models) == IF "own" \in models THEN "own" ELSE Unplaced

\* By name, code or model number.
UPSTarget(models) == IF "own" \in models THEN "own" ELSE Unplaced

\* As before, then by a name that contains the one sought or is part of it.
PACTarget(models) ==
    IF "own" \in models THEN "own" ELSE IF "alike" \in models THEN "alike" ELSE Unplaced
UPSTrapTarget(models) ==
    IF "own" \in models THEN "own" ELSE IF "alike" \in models THEN "alike" ELSE Unplaced

\* What is missing is created; the traps' script looks for a name that contains the
\* model number first.
PDUTarget(models) == "own"
PDUTrapTarget(models) == IF "own" \in models \/ "alike" \notin models THEN "own" ELSE "alike"

\* By its name.
PACTrapTarget(models) == IF "own" \in models THEN "own" ELSE Unplaced

\* No model.
DCIMTarget == "any"

-----------------------------------------------------------------------------
(* The data types that are saved.                                          *)

Upper(label) ==
    CASE label \in {"float", "Float"} -> "FLOAT"
      [] label \in {"integer", "Integer"} -> "INTEGER"
      [] label \in {"text", "Text"} -> "TEXT"
      [] OTHER -> label

MetricDataTypes == {"FLOAT", "INTEGER", "BOOLEAN", "TEXT"}

\* The choice that reads like the label, in any case.
UPSChoice(label) == CHOOSE t \in MetricDataTypes : t = Upper(label)
PACChoice(label) == CHOOSE t \in MetricDataTypes : t = Upper(label)

\* A label that is no choice is saved as it is.
ATSChoice(label) == IF Upper(label) \in MetricDataTypes THEN Upper(label) ELSE label

\* The metric's row: update_or_create by its unique code.
ATSMetric(item) == ATSChoice(item.metric)
UPSMetric(item) == UPSChoice(item.metric)
PACMetric(item) == PACChoice(item.metric)
NetBotzMetric(item) == item.metric
PDUMetric(item) == item.metric

-----------------------------------------------------------------------------
(* The lookups of a mapping, beside the metric.                            *)

ATSKey == {"vendor", "model", "oid"}
UPSKey == {"vendor", "model", "oid"}
NetBotzKey == {"vendor", "model", "oid"}
DCIMKey == {"vendor", "model", "oid"}

\* (Mutated form of what follows.)  As the other scripts do.
PACKeyWithOid == {"vendor", "model", "oid"}

\* OID changes must update the existing mapping.
PACKey == {"vendor", "model"}

PDUKey == {"model"}

OidScripts ==
    [ATS     |-> [items |-> ATSItems, key |-> ATSKey],
     UPS     |-> [items |-> UPSItems, key |-> UPSKey],
     PAC     |-> [items |-> PACItems, key |-> PACKey],
     NetBotz |-> [items |-> NetBotzItems, key |-> NetBotzKey],
     PDU     |-> [items |-> PDUItems, key |-> PDUKey],
     DCIM    |-> [items |-> DCIMItems, key |-> DCIMKey]]

\* A trap is looked for by its OID; the command looks for the event.
PDUTrapKey == {"vendor", "model", "oid"}
UPSTrapKey == {"vendor", "model", "oid"}
PACTrapKey == {"vendor", "model", "code"}

TrapScripts == [PDUTraps |-> PDUTrapKey, UPSTraps |-> UPSTrapKey, PACTraps |-> PACTrapKey]

Target(name, models) ==
    [ATS |-> ATSTarget(models), UPS |-> UPSTarget(models), PAC |-> PACTarget(models),
     NetBotz |-> NetBotzTarget(models), PDU |-> PDUTarget(models),
     PDUTraps |-> PDUTrapTarget(models), UPSTraps |-> UPSTrapTarget(models)][name]

SavedType(name, item) ==
    CASE name = "ATS"     -> ATSMetric(item)
      [] name = "UPS"     -> UPSMetric(item)
      [] name = "PAC"     -> PACMetric(item)
      [] name = "NetBotz" -> NetBotzMetric(item)
      [] name = "PDU"     -> PDUMetric(item)

-----------------------------------------------------------------------------

VARIABLES
    script,     \* what is seeded: the name of a script, or "rules"
    models,     \* which models (device types, of rules) exist
    table,      \* what the release says of the metric, or of the traps
    metric,     \* MetricDefinition.data_type
    rows,       \* SNMPOIDMapping, SNMPTrapOIDMapping or AlertRule
    half,       \* whether the command is between its two traps
    saver,      \* the rule that each process has checked and not yet saved: none or one
    edits,      \* what is used of the bound
    \* history, read by the properties only
    seeded,     \* nothing has changed since the script began to write the table's rows
    byHand,     \* the rows that operators added
    overlapped  \* whether a rule was checked while another was being saved

vars == <<script, models, table, metric, rows, half, saver, edits, seeded, byHand, overlapped>>

Codes == {"fired", "restored"}

Tables(name) ==
    IF name \in DOMAIN OidScripts
    THEN [item : OidScripts[name].items, oid : Oids]
    ELSE IF name \in DOMAIN TrapScripts
         THEN {t \in [Codes -> Oids] : t["fired"] # t["restored"]}
         ELSE {"rules"}

Init ==
    /\ script \in DOMAIN OidScripts \cup DOMAIN TrapScripts \cup {"rules"}
    /\ models \in {{}, {"own"}, {"alike"}}
    /\ table \in Tables(script)
    /\ metric = "none"
    /\ rows = {}
    /\ half = FALSE
    /\ saver = [p \in Savers |-> {}]
    /\ edits = 0
    /\ seeded = FALSE
    /\ byHand = {}
    /\ overlapped = FALSE

Edit == edits < MaxEdits /\ edits' = edits + 1

-----------------------------------------------------------------------------
(* Releases and operators.                                                 *)

Release ==
    /\ Edit
    /\ ~half
    /\ table' \in Tables(script) \ {table}
    /\ seeded' = FALSE
    /\ UNCHANGED <<script, models, metric, rows, half, saver, byHand, overlapped>>

AddModel ==
    /\ Edit
    /\ "own" \notin models
    /\ models' = models \cup {"own"}
    /\ seeded' = FALSE
    /\ UNCHANGED <<script, table, metric, rows, half, saver, byHand, overlapped>>

\* Nothing forbids a second row for the same metric or OID.
AddRow(model, vendor) ==
    /\ Edit
    /\ model = "own" => "own" \in models
    /\ LET id == Fresh(rows)
       IN  /\ \/ /\ script \in DOMAIN OidScripts
                 /\ rows' = rows \cup {[id |-> id, model |-> model, vendor |-> vendor,
                                       oid |-> table.oid, type |-> table.item.mapping,
                                       scale |-> 50, active |-> TRUE]}
              \/ /\ script \in DOMAIN TrapScripts
                 /\ \E code \in Codes, oid \in Oids :
                       rows' = rows \cup {[id |-> id, model |-> model, vendor |-> vendor,
                                          oid |-> oid, code |-> code, active |-> TRUE]}
           /\ byHand' = byHand \cup {id}
    /\ seeded' = FALSE
    /\ UNCHANGED <<script, models, table, metric, half, saver, overlapped>>

Toggle(r) ==
    /\ Edit
    /\ script # "rules"
    /\ rows' = (rows \ {r}) \cup {[r EXCEPT !.active = ~@]}
    /\ seeded' = FALSE
    /\ UNCHANGED <<script, models, table, metric, half, saver, byHand, overlapped>>

Delete(r) ==
    /\ Edit
    /\ \A p \in Savers : \A o \in saver[p] : ~(o.locked /\ o.row.id = r.id)
    /\ rows' = rows \ {r}
    /\ byHand' = byHand \ {r.id}
    /\ seeded' = FALSE
    /\ UNCHANGED <<script, models, table, metric, half, saver, overlapped>>

-----------------------------------------------------------------------------
(* The scripts.  Where one raises nothing is left of it.                   *)

Vendor == IF script = "DCIM" THEN "none" ELSE "own"

MappingRow(target) ==
    [id |-> 0, model |-> target, vendor |-> Vendor, oid |-> table.oid,
     type |-> table.item.mapping, scale |-> table.item.scale, active |-> TRUE]

SeedMappings ==
    /\ script \in DOMAIN OidScripts \ {"DCIM"}
    /\ LET target == Target(script, models)
           key == OidScripts[script].key
       IN  /\ target # Unplaced
           /\ Cardinality(Matching(rows, key, MappingRow(target))) <= 1
           /\ rows' = Upserted(rows, key, MappingRow(target))
           /\ models' = models \cup {target}
           /\ seeded' = (target = "own")
    /\ metric' = SavedType(script, table.item)
    /\ UNCHANGED <<script, table, half, saver, edits, byHand, overlapped>>

\* seed_dcim leaves what it finds.
SeedBaseline ==
    /\ script = "DCIM"
    /\ Cardinality(Matching(rows, DCIMKey, MappingRow(DCIMTarget))) <= 1
    /\ rows' = Kept(rows, DCIMKey, MappingRow(DCIMTarget))
    /\ metric' = IF metric = "none" THEN table.item.metric ELSE metric
    /\ seeded' = (rows' # rows)
    /\ UNCHANGED <<script, models, table, half, saver, edits, byHand, overlapped>>

TrapRow(target, code) ==
    [id |-> 0, model |-> target, vendor |-> "own", oid |-> table[code], code |-> code,
     active |-> TRUE]

\* Both traps in one transaction.
SeedTraps ==
    /\ script \in DOMAIN TrapScripts \ {"PACTraps"}
    /\ LET target == Target(script, models)
           key == TrapScripts[script]
           first == Upserted(rows, key, TrapRow(target, "fired"))
       IN  /\ target # Unplaced
           /\ Cardinality(Matching(rows, key, TrapRow(target, "fired"))) <= 1
           /\ Cardinality(Matching(first, key, TrapRow(target, "restored"))) <= 1
           /\ rows' = Upserted(first, key, TrapRow(target, "restored"))
           /\ models' = models \cup {target}
           /\ seeded' = (target = "own")
    /\ UNCHANGED <<script, table, metric, half, saver, edits, byHand, overlapped>>

\* The command saves them one after the other, each for itself.
SeedPacTrap(code) ==
    /\ script = "PACTraps"
    /\ half = (code = "restored")
    /\ PACTrapTarget(models) # Unplaced
    /\ Cardinality(Matching(rows, PACTrapKey, TrapRow("own", code))) <= 1
    /\ rows' = Upserted(rows, PACTrapKey, TrapRow("own", code))
    /\ half' = ~half
    /\ seeded' = (half => seeded)
    /\ UNCHANGED <<script, models, table, metric, saver, edits, byHand, overlapped>>

\* It dies between them, or the second raises.
StopHalfway ==
    /\ Edit
    /\ half
    /\ half' = FALSE
    /\ seeded' = FALSE
    /\ UNCHANGED <<script, models, table, metric, rows, saver, byHand, overlapped>>

-----------------------------------------------------------------------------
(* Alert rules.  The condition of the alarm is EQ 1; models tells whether  *)
(* there is a device type PAC, which is a rule's scope.                    *)

RuleRow(id, name, scope, condition, active) ==
    [id |-> id, name |-> name, scope |-> scope, condition |-> condition, active |-> active]

Scope == IF "own" \in models THEN "PAC" ELSE "all"

\* AlertRule.clean: no other active rule of the same scope and condition.
Unique(r) ==
    r.active => \A o \in rows : o.id # r.id /\ o.active =>
                    <<o.scope, o.condition>> # <<r.scope, r.condition>>

\* full_clean; the row is written later, and no constraint looks again.
Check(p, r, bySeed, locked) ==
    /\ saver[p] = {}
    /\ Unique(r)
    /\ saver' = [saver EXCEPT ![p] = {[row |-> r, bySeed |-> bySeed, locked |-> locked]}]
    /\ overlapped' = (overlapped \/ \E q \in Savers : saver[q] # {})

\* seed_alert_rules: update_or_create by the name.
SeedByName(p) ==
    LET wanted == RuleRow(0, "label", Scope, "EQ 1", TRUE)
        found == Matching(rows, {"name", "scope"}, wanted)
    IN  /\ script = "rules"
        /\ Cardinality(found) <= 1
        /\ Check(p, IF found = {} THEN wanted
                    ELSE [wanted EXCEPT !.id = (CHOOSE r \in found : TRUE).id],
                 TRUE, found # {})
        /\ UNCHANGED <<script, models, table, metric, rows, half, edits, seeded, byHand>>

\* seed_pac_alert_rules: the oldest rule of the condition, or a new one.
SeedByCondition(p) ==
    LET wanted == RuleRow(0, "label", "PAC", "EQ 1", TRUE)
        found == Matching(rows, {"scope", "condition"}, wanted)
        oldest == CHOOSE r \in found : \A o \in found : r.id <= o.id
    IN  /\ script = "rules"
        /\ "own" \in models
        /\ Check(p, IF found = {} THEN wanted ELSE [wanted EXCEPT !.id = oldest.id],
                 TRUE, FALSE)
        /\ UNCHANGED <<script, models, table, metric, rows, half, edits, seeded, byHand>>

\* A request: a new rule, or new contents of one there is.
EditRule(p) ==
    /\ script = "rules"
    /\ Edit
    /\ "own" \in models
    /\ \E id \in {0} \cup {r.id : r \in rows}, name \in {"label", "other"},
          condition \in {"EQ 1", "other"}, active \in BOOLEAN :
          Check(p, RuleRow(id, name, "PAC", condition, active), FALSE, FALSE)
    /\ UNCHANGED <<script, models, table, metric, rows, half, seeded, byHand>>

\* update_or_create keeps the row it found locked until here.
SaveRule(p) ==
    /\ \E s \in saver[p] :
          LET id == IF s.row.id = 0 THEN Fresh(rows) ELSE s.row.id
          IN  /\ \A q \in Savers \ {p} : \A o \in saver[q] : ~(o.locked /\ o.row.id = id)
              /\ rows' = {r \in rows : r.id # id} \cup {[s.row EXCEPT !.id = id]}
              /\ seeded' = (s.bySeed /\ s.row.scope = Scope /\ ~overlapped)
    /\ saver' = [saver EXCEPT ![p] = {}]
    /\ UNCHANGED <<script, models, table, metric, half, edits, byHand, overlapped>>

Next ==
    \/ Release \/ AddModel \/ StopHalfway
    \/ \E model \in {"own", "any"}, vendor \in {"own", "none"} :
          AddRow(model, vendor)
    \/ \E r \in rows : Toggle(r) \/ Delete(r)
    \/ SeedMappings \/ SeedBaseline \/ SeedTraps
    \/ \E code \in Codes : SeedPacTrap(code)
    \/ \E p \in Savers : SeedByName(p) \/ SeedByCondition(p) \/ EditRule(p) \/ SaveRule(p)

Spec == Init /\ [][Next]_vars

-----------------------------------------------------------------------------
(* Properties.                                                             *)

\* What the collector may read the metric with: rows of the model, else generic ones.
Choosable ==
    LET own == {r \in rows : r.active /\ r.model = "own"}
    IN  IF own # {} THEN own ELSE {r \in rows : r.active /\ r.model = "any"}

\* What becomes of a number that the device answers.  Types that the parser does
\* not know are read as text, and their scale is not applied.
ReadAs(type) == IF type \in {"float", "integer", "counter", "gauge"} THEN "number" ELSE "text"

ReadRight(r, raw) ==
    LET type == IF Upper(metric) \in {"FLOAT", "INTEGER"} THEN Upper(metric) ELSE "TEXT"
        stored == R!Outcome([protocol |-> "SNMP", raw |-> R!Num(raw), metric |-> type,
                             m |-> [type |-> ReadAs(r.type), scale |-> r.scale, offset |-> 0]])
        meant == IF ReadAs(r.type) = "text" THEN raw ELSE (raw * table.item.scale) \div 100
    IN  /\ R!Quality(type, stored) = "GOOD"
        /\ stored.value.is = meant

\* The scripts that leave the row of a former OID as it is.
OldOidsKept == {"ATS", "UPS", "NetBotz", "DCIM"}

\* Once a script has run, the metric is read as its table says: from the table's
\* OID, scaled once, as a GOOD value in the column of its type.  What else the
\* collector might choose was added by an operator, or is a former OID that a script
\* of that set leaves active.
SeededMetricsRead ==
    seeded /\ script \in DOMAIN OidScripts /\ (script = "DCIM" => byHand = {}) =>
        \E r \in Choosable :
            /\ r.oid = table.oid
            /\ \A raw \in {0, 200, 70000} : ReadRight(r, raw)
            /\ \A o \in Choosable \ {r} :
                  o.id \in byHand \/ (script \in OldOidsKept /\ o.oid # table.oid)

\* Once traps are seeded, and unless an operator has added mappings of his own, a trap
\* of the table means what the table says and nothing else.
TrapsUnderstood ==
    seeded /\ ~half /\ script \in DOMAIN TrapScripts /\ byHand = {} =>
        \A code \in Codes :
            {r.code : r \in {q \in rows : q.active /\ q.model # "alike" /\ q.oid = table[code]}} = {code}

\* Two rules for the same condition raise two alerts: there are none, unless one was
\* checked before the other was saved.  And a seeded alarm has its rule.
RulesApart ==
    script = "rules" =>
        /\ ~overlapped => \A r, o \in rows :
               r.active /\ o.active /\ r.id # o.id =>
                  <<r.scope, r.condition>> # <<o.scope, o.condition>>
        /\ seeded => \E r \in rows : r.active /\ r.scope = Scope /\ r.condition = "EQ 1"

SeedingRight == SeededMetricsRead /\ TrapsUnderstood /\ RulesApart
=============================================================================
