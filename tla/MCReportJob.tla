---------------------------- MODULE MCReportJob ----------------------------
(***************************************************************************)
(* Instances of ReportJob, ReportSchedule and ReportContents for TLC: one  *)
(* job, the schedules with their claims and deliveries, or the figures of  *)
(* a summary move in each behaviour.  What parameters select is tried on   *)
(* jobs of their own, each of which is an initial state.                   *)
(***************************************************************************)
EXTENDS ReportJob, TLC

CONSTANTS
    Parts,      \* which of them a run is about
    Schedules, Reporters, Requests, DeliveryTimes, Until, MaxRequests, MaxFaults,
    MaxListed, MaxChanges

VARIABLES
    part,       \* the one that moves
    now, schedule, claimed, queue, proc, requests, faults,
    reach, settled, unset, skipped, taken, doubled, rewound, left

scheduleVars == <<now, schedule, claimed, queue, proc, requests, faults,
                  reach, settled, unset, skipped, taken, doubled, rewound, left>>

Planned == INSTANCE ReportSchedule WITH
               Workers <- Reporters, Users <- Requests, MaxCalls <- MaxRequests,
               row <- schedule, calls <- requests

ASSUME PlannedAssumption == Planned!ScheduleAssumption

(* The contents of reports.  The organization "a" has the data centers "d1" *)
(* and "d2", "b" has "d3"; device "e4" has moved from "d1" to "d2", and "e5" *)
(* is a device of "a" in the data center of "b" (tests/test_reports.py:496). *)
At(center, org, room, rack, model, type) ==
    [center |-> center, org |-> org, room |-> room, rack |-> rack, model |-> model, type |-> type]

MCDevice ==
    [e1 |-> At("d1", "a", "r1", "k1", "m1", "t1"), e2 |-> At("d2", "a", "r2", "none", "m2", "t1"),
     e3 |-> At("d3", "b", "none", "k3", "m3", "t2"), e4 |-> At("d2", "a", "r2", "k2", "m1", "t1"),
     e5 |-> At("d3", "a", "none", "none", "m1", "t1")]

Plain == {"severity", "status", "source", "recipient_id", "channel", "alert_id", "is_active",
          "actor_id", "actions", "resource_type", "resource_id", "ip_address"}

Times == {0, 3, 4, 7, 90 * 4, 92 * 4}
All == [name \in Plain |-> 1]

MCWorld ==
    LET stored(d, center, t, metric, is) ==
            [org |-> MCDevice[d].org, center |-> center, device |-> d, time |-> t,
             metric |-> metric, is |-> is]
    IN  {stored(d, MCDevice[d].center, t, metric, All) :
            d \in {"e1", "e2", "e3"}, t \in Times, metric \in {"pac_room_temperature", "load"}}
        \cup {stored(d, MCDevice[d].center, 4, "load", [All EXCEPT ![name] = 2]) :
                  d \in {"e1", "e2"}, name \in Plain}
        \cup {stored("e4", center, 4, "load", All) : center \in {"d1", "d2"}}
        \cup {stored("e5", "d3", 4, "load", All)}

VARIABLES
    asked,                      \* the job that is tried; none otherwise
    subject, listed, figures, changes

countVars == <<subject, listed, figures, changes>>

Contents == INSTANCE ReportContents WITH
                CenterOrg <- [d1 |-> "a", d2 |-> "a", d3 |-> "b"],
                RoomCenter <- [r1 |-> "d1", r2 |-> "d2", r3 |-> "d3"],
                RackCenter <- [k1 |-> "d1", k2 |-> "d2", k3 |-> "d3"],
                Device <- MCDevice,
                Active <- [pac_room_temperature |-> TRUE, load |-> TRUE, old |-> FALSE],
                World <- MCWorld

Instants == {[form |-> "time", at |-> t] : t \in Times}
LocalDates == {[form |-> "date", day |-> d] : d \in {0, 1, 90, 92}}

ASSUME ContentsAssumption == Contents!ContentsAssumption

\* Values of one filter.
ValuesOf(name) ==
    CASE name \in {"date_from", "date_to"} -> Instants \cup LocalDates \cup {[form |-> "bad"]}
      [] name = "data_center_id" -> {"d1", "d2", "d3", "d4"}
      [] name = "device_id" -> {"e1", "e2", "e3", "e4", "e5", "e6"}
      [] name = "room_id" -> {"r1", "r2", "r3", "r4"}
      [] name = "rack_id" -> {"k1", "k2", "k3", "k4"}
      [] name = "device_model_id" -> {"m1", "m2", "m3"}
      [] name = "device_type_id" -> {"t1", "t2"}
      [] name \in {"metric_codes", "metrics"} ->
            {{"load"}, {"room_temperature"}, {"load", "roomTemp"}, {"old"}, {"none"}}
      [] OTHER -> {{1}, {2}, {1, 2}, {3}, {Contents!Malformed}}

Alone == {"data_center_id", "device_id", "room_id", "rack_id", "device_type_id", "device_model_id",
          "metric_codes", "metrics", "date_from", "date_to"} \cup Plain

Singles(name) == {[n \in {name} |-> v] : v \in ValuesOf(name)}
Merged(f, g) == [n \in DOMAIN f \cup DOMAIN g |-> IF n \in DOMAIN f THEN f[n] ELSE g[n]]
Pairs(n1, n2) == {Merged(f, g) : f \in Singles(n1), g \in Singles(n2)}

FilterSets ==
    (UNION {Singles(name) : name \in Alone})
    \cup (UNION {Pairs("data_center_id", name) : name \in {"device_id", "room_id", "rack_id"}})
    \cup Pairs("date_from", "date_to") \cup Pairs("metrics", "date_to")

\* What exports require, where the job does not give it.
Whole == [date_from |-> [form |-> "time", at |-> 3], date_to |-> [form |-> "date", day |-> 2],
          metric_codes |-> {"load", "room_temperature"}]

AskedConfigs ==
    {Contents!NoConfig,
     [days |-> {0}, format |-> "CSV", allowed |-> {}, metrics |-> {"load", "old"}],
     [days |-> {1}, format |-> "PDF", allowed |-> {"CSV"}, metrics |-> {}]}

JobsOf(type) ==
    [type : {type}, org : {"a"}, center : {"unset", "d1"}, config : AskedConfigs,
     filters : IF Contents!DatesRequired(type)
               THEN {Whole, [date_to |-> Whole.date_to]} \cup {Merged(f, Whole) : f \in FilterSets}
               ELSE {[name \in {} |-> 0]} \cup FilterSets]

Jobs == UNION {JobsOf(type) : type \in Contents!Types}

NoJob == [type |-> "none"]

ReportsRight ==
    /\ asked # NoJob =>
          /\ Contents!StaysInside(asked)
          /\ asked.type \in DOMAIN Contents!Templates => Contents!Promised(asked)
          /\ \A t \in {4, 7} : Contents!WindowsMeet(asked, t)
          /\ asked.type = "audit_export" /\ asked.config = Contents!NoConfig =>
                \A label \in {"alert summary report", "telemetry export", "audit export",
                              "room environment", "device inventory"},
                   frequency \in {"DAILY", "WEEKLY", "MONTHLY", "QUARTERLY"} :
                   \A days \in Contents!Between(frequency), late \in {0, 1} :
                      Contents!ScheduledReported(asked, label, 3, frequency, days, late)
    /\ Contents!SummaryAgrees

NothingCounted == Contents!CountInit /\ subject = "alerts" /\ listed = <<>>

MCInit ==
    /\ part \in Parts
    /\ Init /\ Planned!Init
    /\ part # "job" => tasks = 0 /\ row.params = CHOOSE p \in Params : TRUE
    /\ part # "schedule" => \A s \in Schedules :
                          schedule[s].at = CHOOSE t \in DeliveryTimes : TRUE
    /\ \/ asked = NoJob /\ NothingCounted
       \/ part = "contents" /\ asked \in Jobs /\ NothingCounted
       \/ part = "contents" /\ asked = NoJob /\ Contents!CountInit

MCNext ==
    /\ part' = part /\ asked' = asked
    /\ IF part = "job" THEN Next ELSE UNCHANGED vars
    /\ IF part = "schedule" THEN Planned!Next ELSE UNCHANGED scheduleVars
    /\ IF part = "contents" /\ asked = NoJob THEN Contents!CountNext ELSE UNCHANGED countVars

MCSpec == MCInit /\ [][MCNext]_<<part, asked, vars, scheduleVars, countVars>>

\* A job's workers and requests go on, as in ReportJob.
MCFairSpec == MCSpec /\ (part = "job" => Fairness)

\* No time is lost between two windows of a schedule but by an edit that sets
\* last_run_at back to NULL.
WindowsCovered == Planned!WindowsCovered

\* Windows are claimed twice only after an unlocked save.
DoubledByRewind == Planned!DoubledByRewind

\* Every minute leaves no schedule due.
NothingLeft == Planned!NothingLeft
=============================================================================
