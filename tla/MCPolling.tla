----------------------------- MODULE MCPolling -----------------------------
(***************************************************************************)
(* Instances of Polling for TLC.  The fleets that are enabled are checked  *)
(* one at a time: two Modbus devices of one gateway, one that starts to    *)
(* answer late beside one that no poller knows, or an SNMP device.         *)
(***************************************************************************)
EXTENDS Polling, TLC

CONSTANTS m1, m2, m3, s, x, g, h

MCDevices == {m1, m2, m3, s, x}
MCModbus == {m1, m2, m3}
MCUnsupported == {x}
MCGatewayOf == (m1 :> g) @@ (m2 :> g) @@ (m3 :> h)
MCUnreliable == {m3, s}

MCInit ==
    /\ Init
    /\ \/ enabled = {m1, m2} /\ up = enabled /\ flips = MaxFlips
       \/ enabled = {m3, x} /\ up = {} /\ flips = 0
       \/ enabled = {s} /\ up = enabled /\ flips = MaxFlips

(* The readings (module Readings) and the rules by which they are judged     *)
(* (module AlertRules, which extends it) are functions: every initial state  *)
(* beside polling is one of their inputs, and ends there.  Registers count   *)
(* to 16; organization "a" has the data centers "d1" and "d2", "b" has "d3". *)
J == INSTANCE AlertRules WITH Word <- 16, CenterOrg <- [d1 |-> "a", d2 |-> "a", d3 |-> "b"]

VARIABLE reading    \* the input that is tried; none while devices are polled

Polled == [of |-> "none"]

Mappings ==
    [type : {"number", "integer", "bool", "text"}, scale : {10, 50, 100}, offset : {0, -50}]

Raws(protocol) ==
    {J!Num(n) : n \in {-250, -100, 0, 50, 100, 150, 250}} \cup
    (IF protocol = "SNMP" THEN {J!Text(t) : t \in J!Words}
     ELSE {J!Bool(b) : b \in BOOLEAN})

Values ==
    UNION {[of : {"value"}, protocol : {p}, raw : Raws(p), m : Mappings,
            metric : {"FLOAT", "INTEGER", "BOOLEAN", "TEXT"}] : p \in {"SNMP", "MODBUS"}}

Registers ==
    UNION {[of : {"registers"}, type : {t}, n : J!RangeOf(t)] :
               t \in {"int16", "uint16", "int32", "uint32"}}

Lists ==
    {[of |-> "mappings", list |-> l] :
        l \in SeqOf([metric : {"load", "status"}, specific : BOOLEAN, id : {1, 2}], 3)}

Secrets == {J!Absent, J!Plain("p"), J!Plain("q")}

Options ==
    [of : {"secrets"}, version : {"1", "2c", "3"}, username : Secrets, community : Secrets,
     auth : {"SHA256", "unknown"}, authKey : Secrets, priv : {"AES128"}, privKey : Secrets]

\* Device "e" moves.
DeviceAt(center) ==
    [id |-> "e", org |-> IF center = "d3" THEN "b" ELSE "a", center |-> center, type |-> "t"]

Places == {DeviceAt(center) : center \in {"d1", "d2", "d3"}}

SetTo(column, value) ==
    [c \in {"float", "integer", "boolean", "text"} |-> IF c = column THEN value ELSE J!None]

Conditions ==
    [operator : {"GT", "GTE", "LT", "LTE", "EQ", "NEQ"},
     threshold : {SetTo("float", J!Num(50)), SetTo("integer", J!Num(100)),
                  SetTo("integer", J!Num(0)), SetTo("boolean", J!Bool(TRUE)),
                  SetTo("boolean", J!Bool(FALSE)), SetTo("text", J!Text("on"))}]

RuleScopes ==
    [org : {"a", "b"}, center : {J!Null, "d1", "d2"}, type : {J!Null, "t", "u"},
     device : {J!Null, "e", "f"}, metric : {"load"}, active : BOOLEAN,
     threshold : {SetTo("float", J!Num(50))}]

\* A rule is saved while its device is at one of the places; "f" stays there.
SavedRules(place) ==
    {rule \in RuleScopes :
        J!AcceptsRule(rule, [place EXCEPT !.id = rule.device])}

Created(rule, time) ==
    [f \in DOMAIN rule \cup {"created"} |-> IF f = "created" THEN time ELSE rule[f]]

RulePairs(home) ==
    {{Created(one, 1), Created(two, n)} :
        one, two \in SavedRules(home), n \in {0, 2}}

Windows ==
    [org : {"a"}, center : {J!Null, "d1", "d3"}, device : {J!Null, "e"}, metric : {J!Null, "load"},
     from : 0 .. 3, to : 0 .. 3, active : BOOLEAN]

SavedWindows(stored) == {w \in Windows : J!AcceptsWindow(w, DeviceAt("d1"), stored)}

Policies ==
    [id : {0}, org : {J!Null, "a"}, center : {J!Null, "d2"}, severity : {"CRITICAL"},
     unacknowledged : {J!Never, 1, 2}, unresolved : {J!Never, 1, 3}, active : {TRUE}]
    \cup [id : {0}, org : {J!Null}, center : {J!Null}, severity : {"WARNING", "CRITICAL"},
          unacknowledged : {1}, unresolved : {J!Never}, active : BOOLEAN]

SavedPolicies(stored) == {p \in Policies : J!AcceptsPolicy(p, stored)}

Judgements ==
    [of : {"rules"}, home : Places, place : Places]
    \cup [of : {"windows"}, place : Places, one : SavedWindows({})]
    \cup [of : {"policies"}, acknowledged : {J!Never, 2}, first : SavedPolicies({})]

\* Whatever is read is stored as it was measured, or marked as BAD, and judged so;
\* registers, mappings and secrets mean what the operator meant; rules, windows and
\* policies reach the devices and alerts that they name.
ReadingsRight ==
    CASE reading.of = "value" ->
            /\ J!StoredAsMeasured(reading)
            /\ \A rule \in Conditions : J!ConditionAsMeasured(reading, rule)
      [] reading.of = "registers" -> J!RegistersRead(reading.n, reading.type)
      [] reading.of = "mappings" -> J!MappingsChosen(reading.list)
      [] reading.of = "secrets" -> J!SecretsKept(reading, "key", "new key")
      [] reading.of = "rules" ->
            \A rules \in RulePairs(reading.home) :
                J!RulesFound(rules, reading.place, reading.home, "load")
      [] reading.of = "windows" ->
            \A two \in SavedWindows({reading.one}), now \in 0 .. 3 :
                J!WindowsApart(reading.one, two, reading.place, "load", now)
      [] reading.of = "policies" ->
            LET alert == [org |-> "a", center |-> "d1", severity |-> "CRITICAL",
                          acknowledged |-> reading.acknowledged]
            IN  \A p \in SavedPolicies({reading.first}) :
                    \A q \in SavedPolicies({reading.first, p}), minutes \in 0 .. 5 :
                        /\ J!TiersReached(<<reading.first, p, q>>, alert, minutes)
                        /\ J!ClockRestarts(<<reading.first, p, q>>, alert, minutes)
      [] OTHER -> TRUE

NothingPolled == Init /\ enabled = {s} /\ up = enabled /\ flips = MaxFlips

TryReading ==
    /\ NothingPolled
    /\ reading \in Values \cup Registers \cup Lists \cup Options
                   \cup Judgements

(* The seeds (module Seeds) are a part of their own, which starts with a       *)
(* script; elsewhere there is none.                                         *)
VARIABLES script, models, table, metric, rows, half, saver, edits, seeded, byHand, overlapped

seedVars ==
    <<script, models, table, metric, rows, half, saver, edits, seeded, byHand, overlapped>>

Seeding == INSTANCE Seeds WITH Oids <- {"o1", "o2"}, Savers <- {"p", "q"}, MaxEdits <- 2

NoScript == "none"

SeedingAside ==
    /\ script = NoScript /\ models = {} /\ table = 0 /\ metric = 0 /\ rows = {} /\ half = FALSE
    /\ saver = 0 /\ edits = 0 /\ seeded = FALSE /\ byHand = {} /\ overlapped = FALSE

\* After each script, and whatever operators and releases did before it, the
\* collector, the trap receiver and the alert engine read what its table says.
SeedingRight == script # NoScript => Seeding!SeedingRight

MCNext ==
    \/ /\ reading = Polled /\ script = NoScript
       /\ Next
       /\ UNCHANGED <<reading, seedVars>>
    \/ /\ script # NoScript
       /\ Seeding!Next
       /\ UNCHANGED <<vars, reading>>

MCSpec ==
    /\ \/ MCInit /\ reading = Polled /\ SeedingAside
       \/ TryReading /\ SeedingAside
       \/ NothingPolled /\ reading = Polled /\ Seeding!Init
    /\ [][MCNext]_<<vars, reading, seedVars>>
    /\ Fairness

\* An SNMP device that may stop to answer, and no other failure.
MCDeadSpec ==
    /\ Init /\ enabled = {s} /\ up = {s} /\ flips = 0 /\ reading = Polled /\ SeedingAside
    /\ [][MCNext]_<<vars, reading, seedVars>>
    /\ Fairness
=============================================================================
