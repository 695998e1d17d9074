--------------------------- MODULE ReportContents ---------------------------
(***************************************************************************)
(* What a report contains (apps/reports/services/generator.py): which rows *)
(* of the database a job's parameters select, when they are refused, and   *)
(* the figures of the two summaries, which are counted one query after     *)
(* another while the rows change.                                          *)
(*                                                                         *)
(* A row names its organization, data center, device, metric and time, and *)
(* has the value 1 or 2 of every other thing that a report can be filtered *)
(* by.  The data center of a notification is that of the alert its         *)
(* metadata names.  Parameters that are absent are not in the domain of    *)
(* job.filters.  Times count quarters of a local day.                      *)
(*                                                                         *)
(* Left out: the columns of the files, the spelling of values, the order   *)
(* of rows, and read_count.                                                *)
(***************************************************************************)
EXTENDS Integers, Sequences, FiniteSets, SequencesExt

CONSTANTS
    CenterOrg,      \* the organization of each data center
    RoomCenter,     \* the data center of each room
    RackCenter,     \* the data center of each rack
    Device,         \* organization, data center, room, rack, model, type of each device
    Active,         \* whether each metric that is defined is active
    World,          \* the rows of the database
    MaxListed,      \* bound: rows when the counting starts
    MaxChanges      \* bound: rows that change while a summary is counted

Unset == "unset"

\* Foreign keys exist; a device need not be of the organization of its data center.
\* A hosted module states its assumptions as a definition.
ContentsAssumption ==
    /\ Unset \notin DOMAIN CenterOrg
    /\ \A d \in DOMAIN Device : Device[d].center \in DOMAIN CenterOrg
    /\ \A r \in DOMAIN RoomCenter : RoomCenter[r] \in DOMAIN CenterOrg
    /\ \A k \in DOMAIN RackCenter : RackCenter[k] \in DOMAIN CenterOrg
    /\ \A row \in World : row.time \in Int
    /\ MaxListed \in Nat /\ MaxChanges \in Nat

Known == {1, 2}                 \* values that exist
Malformed == 0                  \* what is no value of the column's type

\* _get_report_config of a job without a template: the format is CSV by default.
NoConfig == [days |-> {}, format |-> "CSV", allowed |-> {}, metrics |-> {}]

Day == 4
Types == {"alert_summary", "notification_delivery", "device_inventory", "alert_export",
          "audit_export", "telemetry_export", "room_environment"}

-----------------------------------------------------------------------------
(* Dates.  A bound is a local date, an instant, or neither.                *)

Dates == {"date_from", "date_to"}

\* A date stands for its first instant, or as an end for its last.
Instant(bound, end) ==
    IF bound.form = "date" THEN bound.day * Day + (IF end THEN Day - 1 ELSE 0) ELSE bound.at

From(job) == Instant(job.filters.date_from, FALSE)
To(job) == Instant(job.filters.date_to, TRUE)

DatesRequired(type) == type \in {"alert_export", "audit_export", "telemetry_export"}

\* parse_report_date_range raises.
DatesWrong(job, required) ==
    LET given == Dates \cap DOMAIN job.filters
    IN  \/ required /\ given # Dates
        \/ \E d \in given : job.filters[d].form = "bad"
        \/ given = Dates /\ From(job) > To(job)

\* validate_max_date_range: the limit that the configuration has, if any, else the default.
Limit(job) ==
    CHOOSE n \in (IF job.config.days # {} THEN job.config.days
                  ELSE IF job.type = "telemetry_export" THEN {31} ELSE {90}) : TRUE

TooLong(job) ==
    /\ job.type # "room_environment"
    /\ Dates \subseteq DOMAIN job.filters
    /\ Limit(job) > 0 /\ To(job) - From(job) > Limit(job) * Day

-----------------------------------------------------------------------------
(* Scope: the data center of the job, or the one that is asked for.         *)

AsksForCenter(job) == "data_center_id" \in DOMAIN job.filters

ScopeWrong(job) ==
    /\ AsksForCenter(job)
    /\ LET center == job.filters.data_center_id
       IN  \/ center \notin DOMAIN CenterOrg
           \/ CenterOrg[center] # job.org
           \/ job.center # Unset /\ job.center # center

\* (Mutated form of what follows.)  What is asked for is checked, and forgotten.
ScopeOfJob(job) == job.center

\* _resolve_data_center_scope, where it does not raise.
Scope(job) == IF AsksForCenter(job) THEN job.filters.data_center_id ELSE job.center

\* A device, or the data center of a room or rack, is of the job's organization and, in
\* the reports that know a scope, in that data center.
PlaceWrong(job, org, center) ==
    \/ org # job.org
    \/ /\ job.type # "notification_delivery"
       /\ Scope(job) # Unset /\ Scope(job) # center

\* A model or type is one of some device of the organization.
UsedIn(org, field) == {Device[d][field] : d \in {e \in DOMAIN Device : Device[e].org = org}}

-----------------------------------------------------------------------------
(* Metrics.                                                                *)

Aliases == [room_temperature |-> "pac_room_temperature", room_humidity |-> "pac_room_humidity",
            roomTemp |-> "pac_room_temperature", roomRH |-> "pac_room_humidity"]

\* _resolve_telemetry_metrics: a code that is defined is itself, else what it was
\* renamed to.
Canonical(code) ==
    IF code \notin DOMAIN Active /\ code \in DOMAIN Aliases THEN Aliases[code] ELSE code

\* The metrics of a room_environment report: those of the parameters, of the template,
\* or two that had these names once.
EnvironmentMetrics(job) ==
    LET codes == IF "metrics" \in DOMAIN job.filters THEN job.filters.metrics
                 ELSE IF job.config.metrics # {} THEN job.config.metrics
                 ELSE {"room_temperature", "room_humidity"}
    IN  {code \in codes \cap DOMAIN Active : Active[code]}

-----------------------------------------------------------------------------
(* Which parameters each report reads, and what they do.                    *)

Located == {"device_id", "device_model_id", "device_type_id", "room_id", "rack_id"}
AlertSummary == Dates \cup Located \cup {"data_center_id", "metric_codes", "severity", "status"}
AlertExport == AlertSummary \cup {"source"}
NotificationDelivery ==
    Dates \cup {"recipient_id", "channel", "status", "alert_id", "device_id"}
DeviceInventory == Located \cup {"data_center_id", "status", "is_active"}
AuditExport ==
    Dates \cup {"actor_id", "actions", "resource_type", "resource_id", "ip_address"}
TelemetryExport == Dates \cup Located \cup {"data_center_id", "metric_codes"}
RoomEnvironment == Dates \cup {"metrics"}

Reads(type) ==
    CASE type = "alert_summary"         -> AlertSummary
      [] type = "alert_export"          -> AlertExport
      [] type = "notification_delivery" -> NotificationDelivery
      [] type = "device_inventory"      -> DeviceInventory
      [] type = "audit_export"          -> AuditExport
      [] type = "telemetry_export"      -> TelemetryExport
      [] type = "room_environment"      -> RoomEnvironment

Given(job) == Reads(job.type) \cap DOMAIN job.filters

\* Enumerated values and users are looked up.  Other values are compared only, but the
\* query of ip_address, a column with a type of its own, fails on what is none.
Enumerated == {"severity", "status", "channel", "actions", "is_active"}
People == {"recipient_id", "actor_id"}

Refuses(name, job) ==
    LET v == job.filters[name]
    IN  CASE name = "device_id" ->
                v \notin DOMAIN Device \/ PlaceWrong(job, Device[v].org, Device[v].center)
          [] name = "room_id" ->
                \/ v \notin DOMAIN RoomCenter
                \/ PlaceWrong(job, CenterOrg[RoomCenter[v]], RoomCenter[v])
          [] name = "rack_id" ->
                \/ v \notin DOMAIN RackCenter
                \/ PlaceWrong(job, CenterOrg[RackCenter[v]], RackCenter[v])
          [] name = "device_model_id" -> v \notin UsedIn(job.org, "model")
          [] name = "device_type_id"  -> v \notin UsedIn(job.org, "type")
          [] name \in Enumerated \cup People -> ~(v \subseteq Known)
          [] name = "metric_codes" /\ job.type = "telemetry_export" ->
                \E code \in v : Canonical(code) \notin DOMAIN Active
          [] name = "data_center_id" -> ScopeWrong(job)
          [] name = "ip_address" -> Malformed \in v
          [] OTHER -> FALSE

Keeps(name, job, row) ==
    LET v == job.filters[name]
    IN  CASE name = "date_from" -> row.time >= From(job)
          [] name = "date_to"   -> row.time <= To(job)
          [] name = "data_center_id" -> TRUE        \* see InScope
          [] name = "device_id" -> row.device = v
          [] name = "room_id"   -> Device[row.device].room = v
          [] name = "rack_id"   -> Device[row.device].rack = v
          [] name = "device_model_id" -> Device[row.device].model = v
          [] name = "device_type_id"  -> Device[row.device].type = v
          [] name = "metrics" -> TRUE               \* see Rows
          [] name = "metric_codes" ->
                row.metric \in (IF job.type = "telemetry_export"
                                THEN {Canonical(code) : code \in v} ELSE v)
          [] OTHER -> row.is[name] \in v

\* An audit entry belongs to no data center; two reports read the job's only.
InScope(job, row) ==
    LET center == CASE job.type = "audit_export" -> Unset
                    [] job.type \in {"notification_delivery", "room_environment"} -> job.center
                    [] OTHER -> Scope(job)
    IN  row.org = job.org /\ (center = Unset \/ row.center = center)

\* _resolve_output_format; a job of a schedule has no template, and its parameter
\* output_format is not looked at.
FormatWrong(job) ==
    \/ job.config.format # "CSV"
    \/ job.config.allowed # {} /\ "CSV" \notin job.config.allowed

\* A room_environment report without metrics is empty before its dates are read.
NoMetrics(job) == job.type = "room_environment" /\ EnvironmentMetrics(job) = {}

\* _build_report raises, and the job fails.
Refused(job) ==
    \/ job.type \notin Types
    \/ FormatWrong(job)
    \/ /\ ~NoMetrics(job)
       /\ \/ job.type # "device_inventory" /\ DatesWrong(job, DatesRequired(job.type))
          \/ job.type # "device_inventory" /\ TooLong(job)
          \/ job.type = "telemetry_export" /\ "metric_codes" \notin DOMAIN job.filters
          \/ \E name \in Given(job) : Refuses(name, job)

\* The rows of the report, or those that its figures count.
Rows(job) ==
    {row \in World :
        /\ InScope(job, row)
        /\ job.type = "room_environment" => row.metric \in EnvironmentMetrics(job)
        /\ \A name \in Given(job) : Keeps(name, job, row)}

-----------------------------------------------------------------------------
(* Templates and schedules.                                                *)

\* REPORT_TEMPLATE_SEEDS: what each template says its report can be filtered by, has to
\* be, and for how many days.
Template(required, optional, days) ==
    [required |-> required, filters |-> required \cup optional, days |-> days]

Everywhere == {"data_center_id", "device_id", "device_model_id", "device_type_id",
               "room_id", "rack_id"}

Templates ==
    [alert_summary |->
        Template({}, Dates \cup Everywhere \cup {"metric_codes", "severity", "status"}, {90}),
     notification_delivery |->
        Template({}, Dates \cup {"recipient_id", "channel", "status", "alert_id",
                                 "device_id"}, {90}),
     device_inventory |-> Template({}, Everywhere \cup {"status", "is_active"}, {}),
     alert_export |->
        Template(Dates, Everywhere \cup {"metric_codes", "severity", "status", "source"}, {90}),
     audit_export |->
        Template(Dates, {"actor_id", "actions", "resource_type", "resource_id",
                         "ip_address"}, {90}),
     telemetry_export |-> Template(Dates \cup {"metric_codes"}, Everywhere, {31})]

\* A job that uses the seeded template of its type.
Seeded(job) ==
    [job EXCEPT !.config = [days |-> Templates[job.type].days, format |-> "CSV",
                            allowed |-> {"CSV"}, metrics |-> {}]]

\* normalize_report_type, which schedules are saved through.
Labels ==
    [alert_summary |-> {"alert summary", "alert summary report"},
     notification_delivery |-> {"notification delivery", "notification delivery report"},
     device_inventory |-> {"device inventory", "device inventory report"},
     room_environment |-> {"environmental trends report", "room environment report",
                           "room temperature and humidity report", "room environment"},
     alert_export |-> {"alert export"}, audit_export |-> {"audit export"},
     telemetry_export |-> {"telemetry export"}]

TypeOf(label) == {type \in DOMAIN Labels : label \in Labels[type]}

\* The days between two runs of a schedule.
Between(frequency) ==
    CASE frequency = "DAILY"     -> {1}
      [] frequency = "WEEKLY"    -> {7}
      [] frequency = "MONTHLY"   -> 28 .. 31
      [] frequency = "QUARTERLY" -> 89 .. 92

\* The job of a schedule that last ran at "from" and is claimed "late" after "days" more.
ScheduledJob(job, from, days, late) ==
    LET at(t) == [form |-> "time", at |-> t]
    IN  [job EXCEPT !.config = NoConfig,
                    !.filters = [name \in DOMAIN job.filters \cup Dates |->
                                    CASE name = "date_from" -> at(from)
                                      [] name = "date_to" -> at(from + days * Day + late)
                                      [] OTHER -> job.filters[name]]]

-----------------------------------------------------------------------------
(* Summaries.  A figure is the number of rows of some groups and statuses.  *)

VARIABLES
    subject,        \* what is summed up: alerts or notifications
    listed,         \* the rows that the parameters select, with group and status
    figures,        \* the figures so far, in the order of the file
    changes         \* how many rows came or changed since the first query

countVars == <<subject, listed, figures, changes>>

Statuses == [alerts |-> <<"OPEN", "ACKNOWLEDGED", "RESOLVED", "SUPPRESSED">>,
             notifications |-> <<"PENDING", "DELIVERING", "SENT", "FAILED">>]

\* Alerts are grouped by severity, notifications by channel.
GroupOrder == [alerts |-> <<"INFO", "WARNING", "CRITICAL", "EMERGENCY">>,
               notifications |-> <<"EMAIL", "SMS", "WEB", "WEBHOOK">>]

Groups == ToSet(GroupOrder[subject])

Figure(section, label, groups, statuses) ==
    [section |-> section, label |-> label, groups |-> groups, statuses |-> statuses]

PerStatus(section, kind) ==
    [i \in 1 .. 4 |-> Figure(section, Statuses[kind][i], Groups, {Statuses[kind][i]})]

AllOf(kind) == ToSet(Statuses[kind])

PerGroup(section, kind) ==
    [i \in 1 .. 4 |-> Figure(section, GroupOrder[kind][i], {GroupOrder[kind][i]}, AllOf(kind))]

AlertFigures ==
    LET active == {"OPEN", "ACKNOWLEDGED"}
        of(label, groups, statuses) == Figure("summary", label, groups, statuses)
    IN  << of("total", Groups, AllOf("alerts")),
           of("open_total", Groups, active),
           of("critical_open", {"CRITICAL"}, active),
           of("warning_open", {"WARNING"}, active),
           of("acknowledged_total", Groups, {"ACKNOWLEDGED"}),
           of("resolved_total", Groups, {"RESOLVED"}),
           of("unacknowledged_critical", {"CRITICAL"}, {"OPEN"}) >>
        \o PerGroup("group", "alerts") \o PerStatus("status", "alerts")

NotificationFigures ==
    << Figure("summary", "total", Groups, AllOf("notifications")) >>
    \o PerStatus("summary", "notifications") \o PerStatus("status", "notifications")
    \o PerGroup("group", "notifications")

Figures == IF subject = "alerts" THEN AlertFigures ELSE NotificationFigures

CountInit ==
    /\ subject \in DOMAIN Statuses
    /\ \E n \in 0 .. MaxListed : listed \in [1 .. n -> [group : Groups, status : AllOf(subject)]]
    /\ figures = <<>> /\ changes = 0

\* One query: qs.filter(...).count().
Count ==
    /\ Len(figures) < Len(Figures)
    /\ LET f == Figures[Len(figures) + 1]
       IN  figures' = Append(figures,
               Cardinality({id \in DOMAIN listed : listed[id].group \in f.groups /\
                                                   listed[id].status \in f.statuses}))
    /\ UNCHANGED <<subject, listed, changes>>

\* Meanwhile a row is added, or its status changes.
Change ==
    /\ Len(figures) \in 1 .. Len(Figures) - 1
    /\ changes < MaxChanges
    /\ changes' = changes + 1
    /\ \E id \in DOMAIN listed \cup {Cardinality(DOMAIN listed) + 1}, group \in Groups,
          status \in AllOf(subject) :
          /\ id \in DOMAIN listed => listed[id].group = group /\ listed[id].status # status
          /\ listed' = [i \in DOMAIN listed \cup {id} |->
                           IF i = id THEN [group |-> group, status |-> status] ELSE listed[i]]
    /\ UNCHANGED <<subject, figures>>

CountNext == Count \/ Change

CountSpec == CountInit /\ [][CountNext]_countVars

-----------------------------------------------------------------------------
(* Properties.                                                             *)

\* Whether the job and its parameters leave a data center.
Leaves(job, center) ==
    /\ job.center # Unset /\ job.type # "notification_delivery" => center = job.center
    /\ AsksForCenter(job) /\ "data_center_id" \in Reads(job.type) =>
          center = job.filters.data_center_id

\* The data centers of the organization that they leave.
Reach(job) == {c \in DOMAIN CenterOrg : CenterOrg[c] = job.org /\ Leaves(job, c)}

\* A filter is sound when what it names exists, within reach; a device of the organization
\* may stand in the data center of another.
Sound(name, job) ==
    LET v == job.filters[name]
    IN  CASE name = "data_center_id" -> Reach(job) # {}
          [] name = "device_id" ->
                v \in {d \in DOMAIN Device :
                          Device[d].org = job.org /\ Leaves(job, Device[d].center)}
          [] name = "room_id" -> v \in {r \in DOMAIN RoomCenter : RoomCenter[r] \in Reach(job)}
          [] name = "rack_id" -> v \in {r \in DOMAIN RackCenter : RackCenter[r] \in Reach(job)}
          [] name = "device_model_id" ->
                \E d \in DOMAIN Device : Device[d].org = job.org /\ Device[d].model = v
          [] name = "device_type_id" ->
                \E d \in DOMAIN Device : Device[d].org = job.org /\ Device[d].type = v
          [] name = "metric_codes" ->
                job.type = "telemetry_export" =>
                    \A code \in v : {code, Canonical(code)} \cap DOMAIN Active # {}
          [] name = "ip_address" -> Malformed \notin v
          [] name \in {"source", "alert_id", "resource_type", "resource_id"} -> TRUE
          [] OTHER -> v \subseteq Known

\* The rows that every filter selects which the template of the report names, both ends
\* of its dates included.
Selected(job) ==
    LET given == Templates[job.type].filters \cap DOMAIN job.filters
        both == Dates \subseteq given
    IN  {row \in World :
            /\ row.org = job.org
            /\ job.center # Unset /\ job.type # "audit_export" => row.center = job.center
            /\ "data_center_id" \in given => row.center = job.filters.data_center_id
            /\ both => row.time \in From(job) .. To(job)
            /\ \A name \in (IF both THEN given \ Dates ELSE given) : Keeps(name, job, row)}

\* The lists of filters and the limit of days that its template has (REPORT_TEMPLATE_SEEDS)
\* hold of what is generated: it has the rows of the organization and data center that
\* are selected, and no other.  It is refused exactly when a required filter is missing,
\* one is unsound, or its dates are wrong or too far apart.  What a template says in
\* prose is not promised: "Active device inventory" (seed_data.py) has the inactive
\* devices too, unless is_active is given.
Promised(job) ==
    LET t == Templates[job.type]
        given == t.filters \cap DOMAIN job.filters
        j == Seeded(job)
    IN  /\ ~Refused(j) => Rows(j) = Selected(job)
        /\ Refused(j) <=>
              \/ ~(t.required \subseteq given)
              \/ \E name \in given \ Dates : ~Sound(name, j)
              \/ Dates \cap given # {} /\ DatesWrong(j, FALSE)
              \/ Dates \subseteq given /\ To(j) - From(j) > Limit(j) * Day

\* Whatever its parameters, no report shows a row of another organization, or of another
\* data center than the one the job has or asks for; an environment report and a
\* notification report show nothing of the centers that are not the job's.
StaysInside(job) ==
    ~Refused(job) =>
        \A row \in Rows(job) :
            /\ row.org = job.org
            /\ job.center # Unset /\ job.type # "audit_export" => row.center = job.center
            /\ "data_center_id" \in Given(job) => row.center = job.filters.data_center_id

\* Two reports whose windows meet show every row that one of both windows shows, and
\* twice only those of the instant at which they meet.
WindowsMeet(job, t) ==
    Dates \subseteq Given(job) /\ ~DatesWrong(job, TRUE) /\ ~Refused(job)
        /\ t \in From(job) .. To(job) =>
        LET meet == [form |-> "time", at |-> t]
            first == Rows([job EXCEPT !.filters.date_to = meet])
            second == Rows([job EXCEPT !.filters.date_from = meet])
        IN  /\ first \cup second = Rows(job)
            /\ \A row \in first \cap second : row.time = t

\* A schedule of any type that can be saved, with parameters that are not refused, gets
\* its daily and weekly reports; the others unless they reach back too far.
ScheduledReported(job, label, from, frequency, days, late) ==
    LET of(type) == ScheduledJob([job EXCEPT !.type = type], from, days, late)
    IN  /\ Cardinality(TypeOf(label)) = 1
        /\ \A type \in TypeOf(label) :
            LET j == of(type)
            IN  (\A name \in Given(j) : ~Refuses(name, j)) /\
                (type = "telemetry_export" => "metric_codes" \in Given(j)) =>
                    /\ frequency \in {"DAILY", "WEEKLY"} => ~Refused(j)
                    /\ Refused(j) => days * Day + late > Limit(j) * Day

\* The figures of a summary agree, but for as many rows as changed while they were
\* counted: every section adds up to the total, and so do the active alerts.
Value(section, label) ==
    LET at == CHOOSE i \in 1 .. Len(Figures) :
                  Figures[i].section = section /\ Figures[i].label = label
    IN  figures[at]

Differ(a, b) == (IF a < b THEN b - a ELSE a - b) <= changes

\* The rows of a section, which names one of its figures after each of these.
Added(section, names) ==
    Value(section, names[1]) + Value(section, names[2])
        + Value(section, names[3]) + Value(section, names[4])

SummaryAgrees ==
    Len(figures) = Len(Figures) =>
        LET total == Value("summary", "total")
            status(s) == Value("status", s)
        IN  /\ Differ(total, Added("status", Statuses[subject]))
            /\ Differ(total, Added("group", GroupOrder[subject]))
            /\ subject = "alerts" =>
                  /\ Differ(Value("summary", "open_total"),
                            status("OPEN") + status("ACKNOWLEDGED"))
                  /\ Differ(total, Value("summary", "open_total") +
                                   status("RESOLVED") + status("SUPPRESSED"))
                  /\ Value("summary", "unacknowledged_critical")
                        <= Value("summary", "critical_open") + changes
=============================================================================
