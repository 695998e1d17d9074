----------------------- MODULE ReportContents_proofs -----------------------
(***************************************************************************)
(* Proofs about ReportContents, for any organizations, data centers,       *)
(* devices, metrics and rows, any job, and any number of rows that are     *)
(* listed or change while a summary is counted.                            *)
(***************************************************************************)
EXTENDS ReportContents, FiniteSetTheorems, SequenceTheorems, TLAPS

-----------------------------------------------------------------------------
(* Jobs.                                                                   *)

\* A bound of a date range, unless the serializer could not read it.
IsBound(bound) ==
    \/ bound.form = "bad"
    \/ bound.form = "date" /\ bound.day \in Int
    \/ bound.form = "time" /\ bound.at \in Int

\* A job: its filters are a function of the names that are given.
IsJob(job) ==
    /\ job = [type |-> job.type, org |-> job.org, center |-> job.center,
              config |-> job.config, filters |-> job.filters]
    /\ job.type \in Types
    /\ job.filters = [name \in DOMAIN job.filters |-> job.filters[name]]
    /\ \A d \in Dates \cap DOMAIN job.filters : IsBound(job.filters[d])

\* Dates that can be read are instants.
LEMMA DatesRead ==
    ASSUME NEW job, IsJob(job),
           \A d \in Dates \cap DOMAIN job.filters : job.filters[d].form # "bad"
    PROVE  /\ "date_from" \in DOMAIN job.filters => From(job) \in Int
           /\ "date_to" \in DOMAIN job.filters => To(job) \in Int
<1>1. ASSUME NEW d \in Dates \cap DOMAIN job.filters, NEW end \in BOOLEAN
      PROVE  Instant(job.filters[d], end) \in Int
  <2>1. job.filters[d].form # "bad" /\ IsBound(job.filters[d])
    BY DEF IsJob
  <2>. QED BY <2>1 DEF IsBound, Instant, Day
<1>. QED BY <1>1 DEF Dates, From, To

\* What a report without a template has to do with one that uses its template.
LEMMA SeededJob ==
    ASSUME NEW job, IsJob(job)
    PROVE  LET j == Seeded(job)
           IN  /\ j.type = job.type /\ j.org = job.org /\ j.center = job.center
               /\ j.filters = job.filters /\ IsJob(j)
               /\ j.config = [days |-> Templates[job.type].days, format |-> "CSV",
                              allowed |-> {"CSV"}, metrics |-> {}]
BY DEF Seeded, IsJob

\* Where a job that is not refused may look, if it reads the data center it asks for.
LEMMA ScopeChecked ==
    ASSUME ContentsAssumption, NEW job, ~Refused(job), job.type \in Types,
           "data_center_id" \in Given(job)
    PROVE  /\ ~ScopeWrong(job) /\ AsksForCenter(job)
           /\ job.filters.data_center_id # Unset
           /\ job.center # Unset => job.filters.data_center_id = job.center
<1>1. ~NoMetrics(job)
  BY DEF NoMetrics, Given, Reads, RoomEnvironment, Dates
<1>2. ~Refuses("data_center_id", job)
  BY <1>1 DEF Refused
<1>3. ~ScopeWrong(job)
  BY <1>2 DEF Refuses, Enumerated, People
<1>. QED BY <1>3 DEF ScopeWrong, AsksForCenter, Given, ContentsAssumption

\* The reports with a scope read the data center that is asked for.
LEMMA Scoped ==
    ASSUME NEW job, job.type \in Types
    PROVE  "data_center_id" \in Reads(job.type) <=>
               job.type \notin {"audit_export", "notification_delivery", "room_environment"}
BY DEF Types, Reads, AlertSummary, AlertExport, NotificationDelivery, DeviceInventory,
       AuditExport, TelemetryExport, RoomEnvironment, Dates, Located

\* _resolve_data_center_scope and the querysets: no report shows a row of another
\* organization, or of another data center than the one the job has or asks for.
THEOREM NothingFromElsewhere ==
    ASSUME ContentsAssumption, NEW job PROVE StaysInside(job)
<1>. SUFFICES ASSUME ~Refused(job), NEW row \in Rows(job)
              PROVE  /\ row.org = job.org
                     /\ job.center # Unset /\ job.type # "audit_export" => row.center = job.center
                     /\ "data_center_id" \in Given(job) => row.center = job.filters.data_center_id
  BY DEF StaysInside
<1>1. job.type \in Types
  BY DEF Refused
<1>2. InScope(job, row)
  BY DEF Rows
<1>3. row.org = job.org
  BY <1>2 DEF InScope
<1>4. CASE "data_center_id" \in Given(job)
  <2>1. /\ AsksForCenter(job) /\ job.filters.data_center_id # Unset
        /\ job.center # Unset => job.filters.data_center_id = job.center
    BY <1>1, <1>4, ScopeChecked
  <2>2. job.type \notin {"audit_export", "notification_delivery", "room_environment"}
    BY <1>1, <1>4, Scoped DEF Given
  <2>3. row.center = job.filters.data_center_id
    BY <1>2, <2>1, <2>2 DEF InScope, Scope
  <2>. QED BY <1>3, <2>1, <2>3
<1>5. CASE "data_center_id" \notin Given(job)
  <2>1. SUFFICES ASSUME job.center # Unset, job.type # "audit_export"
                 PROVE  row.center = job.center
    BY <1>3, <1>5
  <2>2. CASE job.type \in {"notification_delivery", "room_environment"}
    BY <1>2, <2>1, <2>2 DEF InScope
  <2>3. CASE job.type \notin {"notification_delivery", "room_environment"}
    <3>1. ~AsksForCenter(job)
      BY <1>1, <1>5, <2>1, <2>3, Scoped DEF Given, AsksForCenter
    <3>. QED BY <1>2, <2>1, <2>3, <3>1 DEF InScope, Scope
  <2>. QED BY <2>2, <2>3
<1>. QED BY <1>4, <1>5

\* What a filter other than the dates keeps does not depend on the dates.
LEMMA KeepsAlike ==
    ASSUME NEW job, NEW other, NEW name, NEW row, other.type = job.type,
           name \notin Dates, other.filters[name] = job.filters[name]
    PROVE  Keeps(name, other, row) <=> Keeps(name, job, row)
BY DEF Keeps, Dates

\* Consecutive reports: two windows that meet show every row of both, and twice only
\* those of the instant at which they meet.
THEOREM NothingBetweenReports ==
    ASSUME ContentsAssumption, NEW job, IsJob(job), NEW t \in Int PROVE WindowsMeet(job, t)
<1>. DEFINE meet == [form |-> "time", at |-> t]
            one == [job EXCEPT !.filters.date_to = meet]
            two == [job EXCEPT !.filters.date_from = meet]
<1>. SUFFICES ASSUME Dates \subseteq Given(job), ~DatesWrong(job, TRUE), t \in From(job) .. To(job)
              PROVE  /\ Rows(one) \cup Rows(two) = Rows(job)
                     /\ \A row \in Rows(one) \cap Rows(two) : row.time = t
  BY DEF WindowsMeet
<1>1. {"date_from", "date_to"} \subseteq DOMAIN job.filters
  BY DEF Dates, Given
<1>2. From(job) \in Int /\ To(job) \in Int /\ From(job) <= t /\ t <= To(job)
  <2>1. \A d \in Dates \cap DOMAIN job.filters : job.filters[d].form # "bad"
    BY DEF DatesWrong
  <2>2. From(job) \in Int /\ To(job) \in Int
    BY <1>1, <2>1, DatesRead
  <2>. QED BY <2>2
<1>3. /\ one.type = job.type /\ one.org = job.org /\ one.center = job.center
      /\ one.config = job.config
      /\ DOMAIN one.filters = DOMAIN job.filters /\ one.filters.date_to = meet
      /\ \A name \in DOMAIN job.filters \ {"date_to"} : one.filters[name] = job.filters[name]
  BY <1>1 DEF IsJob
<1>4. /\ two.type = job.type /\ two.org = job.org /\ two.center = job.center
      /\ two.config = job.config
      /\ DOMAIN two.filters = DOMAIN job.filters /\ two.filters.date_from = meet
      /\ \A name \in DOMAIN job.filters \ {"date_from"} : two.filters[name] = job.filters[name]
  BY <1>1 DEF IsJob
<1>. HIDE DEF one, two
<1>5. From(one) = From(job) /\ To(one) = t
  BY <1>1, <1>3 DEF From, To, Instant
<1>6. From(two) = t /\ To(two) = To(job)
  BY <1>1, <1>4 DEF From, To, Instant
<1>7. ASSUME NEW other \in {one, two}, NEW row \in World
      PROVE  row \in Rows(other) <=>
                 /\ InScope(job, row)
                 /\ job.type = "room_environment" => row.metric \in EnvironmentMetrics(job)
                 /\ \A name \in Given(job) \ Dates : Keeps(name, job, row)
                 /\ From(other) <= row.time /\ row.time <= To(other)
  <2>1. /\ other.type = job.type /\ other.org = job.org /\ other.center = job.center
        /\ other.config = job.config /\ DOMAIN other.filters = DOMAIN job.filters
        /\ \A name \in DOMAIN job.filters \ Dates : other.filters[name] = job.filters[name]
    BY <1>3, <1>4 DEF Dates
  <2>2. AsksForCenter(other) <=> AsksForCenter(job)
    BY <2>1 DEF AsksForCenter
  <2>3. Scope(other) = Scope(job)
    BY <2>1, <2>2 DEF Scope, AsksForCenter, Dates
  <2>4. InScope(other, row) <=> InScope(job, row)
    BY <2>1, <2>3 DEF InScope
  <2>5. EnvironmentMetrics(other) = EnvironmentMetrics(job)
    BY <2>1 DEF EnvironmentMetrics, Dates
  <2>6. Given(other) = Given(job)
    BY <2>1 DEF Given
  <2>7. \A name \in Given(job) \ Dates : Keeps(name, other, row) <=> Keeps(name, job, row)
    BY <2>1, KeepsAlike DEF Given
  <2>8. /\ Keeps("date_from", other, row) <=> row.time >= From(other)
        /\ Keeps("date_to", other, row) <=> row.time <= To(other)
    BY DEF Keeps
  <2>9. row.time \in Int /\ From(other) \in Int /\ To(other) \in Int
    BY <1>2, <1>5, <1>6 DEF ContentsAssumption
  <2>. QED BY <2>1, <2>4, <2>5, <2>6, <2>7, <2>8, <2>9 DEF Rows, Dates
<1>8. ASSUME NEW row \in World
      PROVE  row \in Rows(job) <=>
                 /\ InScope(job, row)
                 /\ job.type = "room_environment" => row.metric \in EnvironmentMetrics(job)
                 /\ \A name \in Given(job) \ Dates : Keeps(name, job, row)
                 /\ From(job) <= row.time /\ row.time <= To(job)
  <2>1. /\ Keeps("date_from", job, row) <=> row.time >= From(job)
        /\ Keeps("date_to", job, row) <=> row.time <= To(job)
    BY DEF Keeps
  <2>2. row.time \in Int
    BY DEF ContentsAssumption
  <2>. QED BY <1>2, <2>1, <2>2 DEF Rows, Dates
<1>9. \A row \in World : row.time \in Int
  BY DEF ContentsAssumption
<1>10. Rows(one) \subseteq World /\ Rows(two) \subseteq World /\ Rows(job) \subseteq World
  BY DEF Rows
<1>11. \A row \in World : row \in Rows(one) \/ row \in Rows(two) <=> row \in Rows(job)
  BY <1>2, <1>5, <1>6, <1>7, <1>8, <1>9
<1>12. \A row \in World : row \in Rows(one) /\ row \in Rows(two) => row.time = t
  BY <1>5, <1>6, <1>7, <1>9
<1>. QED BY <1>10, <1>11, <1>12

\* ReportSchedule: a label stands for one type of report.
LEMMA OneType ==
    ASSUME NEW type \in DOMAIN Labels, NEW label \in Labels[type]
    PROVE  TypeOf(label) = {type}
<1>1. ASSUME NEW other \in DOMAIN Labels, label \in Labels[other]
      PROVE  other = type
  <2>1. /\ Labels["alert_summary"] = {"alert summary", "alert summary report"}
        /\ Labels["notification_delivery"] =
              {"notification delivery", "notification delivery report"}
        /\ Labels["device_inventory"] = {"device inventory", "device inventory report"}
        /\ Labels["room_environment"] =
              {"environmental trends report", "room environment report",
               "room temperature and humidity report", "room environment"}
        /\ Labels["alert_export"] = {"alert export"}
        /\ Labels["audit_export"] = {"audit export"}
        /\ Labels["telemetry_export"] = {"telemetry export"}
        /\ DOMAIN Labels = Types
    BY DEF Labels, Types
  <2>2. type \in Types /\ other \in Types
    BY <2>1
  <2>3. \A t \in Types : label \in Labels[t] =>
            t = CASE label \in {"alert summary", "alert summary report"} -> "alert_summary"
                  [] label \in {"notification delivery", "notification delivery report"} ->
                        "notification_delivery"
                  [] label \in {"device inventory", "device inventory report"} ->
                        "device_inventory"
                  [] label = "alert export" -> "alert_export"
                  [] label = "audit export" -> "audit_export"
                  [] label = "telemetry export" -> "telemetry_export"
                  [] OTHER -> "room_environment"
    BY <2>1 DEF Types
  <2>. QED BY <1>1, <2>2, <2>3
<1>. QED BY <1>1 DEF TypeOf

\* A schedule of any type that can be saved, with parameters that are not refused, gets
\* its daily and weekly reports; the others unless they reach back too far.
THEOREM SchedulesReport ==
    ASSUME NEW job, IsJob(job), NEW saved \in DOMAIN Labels, NEW label \in Labels[saved],
           NEW frequency \in {"DAILY", "WEEKLY", "MONTHLY", "QUARTERLY"},
           NEW days \in Between(frequency), NEW from \in Int, NEW late \in 0 .. Day
    PROVE  ScheduledReported(job, label, from, frequency, days, late)
<1>. DEFINE j == ScheduledJob([job EXCEPT !.type = saved], from, days, late)
<1>1. TypeOf(label) = {saved} /\ saved \in Types
  BY OneType DEF Labels, Types
<1>2. days \in Nat /\ (frequency \in {"DAILY", "WEEKLY"} => days <= 7)
  BY DEF Between
<1>3. /\ j.type = saved /\ j.config = NoConfig /\ Dates \subseteq DOMAIN j.filters
      /\ j.filters.date_from = [form |-> "time", at |-> from]
      /\ j.filters.date_to = [form |-> "time", at |-> from + days * Day + late]
  BY DEF ScheduledJob, IsJob, Dates
<1>. HIDE DEF j
<1>4. From(j) = from /\ To(j) = from + days * Day + late
  BY <1>3 DEF From, To, Instant
<1>5. \A required : ~DatesWrong(j, required)
  BY <1>2, <1>3, <1>4 DEF DatesWrong, Dates, Day
<1>6. ~FormatWrong(j)
  BY <1>3 DEF FormatWrong, NoConfig
<1>7. Limit(j) = IF saved = "telemetry_export" THEN 31 ELSE 90
  BY <1>3 DEF Limit, NoConfig
<1>8. TooLong(j) => days * Day + late > Limit(j) * Day
  BY <1>2, <1>4, <1>7 DEF TooLong, Day
<1>9. frequency \in {"DAILY", "WEEKLY"} => ~TooLong(j)
  BY <1>2, <1>7, <1>8 DEF Day
<1>10. ASSUME \A name \in Given(j) : ~Refuses(name, j),
              saved = "telemetry_export" => "metric_codes" \in Given(j)
       PROVE  Refused(j) => TooLong(j)
  BY <1>1, <1>3, <1>5, <1>6, <1>10 DEF Refused, DatesRequired, Given
<1>11. Cardinality(TypeOf(label)) = 1
  BY <1>1, FS_Singleton
<1>. QED BY <1>1, <1>8, <1>9, <1>10, <1>11 DEF ScheduledReported, j
-----------------------------------------------------------------------------
(* Templates.                                                              *)

\* The seeded template of a type names the filters that its report reads.
LEMMA TemplateReads ==
    ASSUME NEW type \in DOMAIN Templates
    PROVE  /\ type \in Types /\ type # "room_environment"
           /\ Templates[type].filters = Reads(type)
           /\ \/ Dates \subseteq Reads(type)
              \/ type = "device_inventory" /\ Dates \cap Reads(type) = {}
           /\ Templates[type].days =
                 IF type = "device_inventory" THEN {}
                 ELSE IF type = "telemetry_export" THEN {31} ELSE {90}
           /\ Templates[type].required =
                 (IF DatesRequired(type) THEN Dates ELSE {})
                 \cup (IF type = "telemetry_export" THEN {"metric_codes"} ELSE {})
<1>1. DOMAIN Templates = {"alert_summary", "notification_delivery", "device_inventory",
                          "alert_export", "audit_export", "telemetry_export"}
  BY DEF Templates
<1>2. CASE type = "alert_summary"
  BY <1>2 DEF Templates, Template, Types, Reads, AlertSummary, Everywhere, Located, Dates,
              DatesRequired
<1>3. CASE type = "notification_delivery"
  BY <1>3 DEF Templates, Template, Types, Reads, NotificationDelivery, Dates, DatesRequired
<1>4. CASE type = "device_inventory"
  BY <1>4 DEF Templates, Template, Types, Reads, DeviceInventory, Everywhere, Located, Dates,
              DatesRequired
<1>5. CASE type = "alert_export"
  BY <1>5 DEF Templates, Template, Types, Reads, AlertExport, AlertSummary, Everywhere,
              Located, Dates, DatesRequired
<1>6. CASE type = "audit_export"
  BY <1>6 DEF Templates, Template, Types, Reads, AuditExport, Dates, DatesRequired
<1>7. CASE type = "telemetry_export"
  BY <1>7 DEF Templates, Template, Types, Reads, TelemetryExport, Everywhere, Located, Dates,
              DatesRequired
<1>. QED BY <1>1, <1>2, <1>3, <1>4, <1>5, <1>6, <1>7

\* _resolve_data_center_scope raises exactly when no data center is left.
LEMMA ScopeSound ==
    ASSUME ContentsAssumption, NEW job, job.type \in Types, "data_center_id" \in Given(job)
    PROVE  ScopeWrong(job) <=> Reach(job) = {}
<1>. DEFINE center == job.filters.data_center_id
<1>1. AsksForCenter(job) /\ "data_center_id" \in Reads(job.type)
  BY DEF Given, AsksForCenter
<1>2. job.type # "notification_delivery"
  BY <1>1, Scoped
<1>3. Reach(job) =
          {c \in DOMAIN CenterOrg :
              /\ CenterOrg[c] = job.org /\ c = center
              /\ job.center # Unset => c = job.center}
  BY <1>1, <1>2 DEF Reach, Leaves
<1>4. ScopeWrong(job) <=>
          \/ center \notin DOMAIN CenterOrg \/ CenterOrg[center] # job.org
          \/ job.center # Unset /\ job.center # center
  BY <1>1 DEF ScopeWrong
<1>. QED BY <1>3, <1>4

\* A place is refused exactly when it is of another organization or, in the scope that
\* there is, in a data center that is left out.
LEMMA PlaceSound ==
    ASSUME ContentsAssumption, NEW job, job.type \in Types,
           job.type \notin {"audit_export", "room_environment"},
           "data_center_id" \in Given(job) => ~ScopeWrong(job),
           NEW org, NEW center
    PROVE  PlaceWrong(job, org, center) <=> ~(org = job.org /\ Leaves(job, center))
<1>1. CASE "data_center_id" \in Given(job)
  <2>1. AsksForCenter(job) /\ "data_center_id" \in Reads(job.type)
    BY <1>1 DEF Given, AsksForCenter
  <2>2. job.type # "notification_delivery"
    BY <2>1, Scoped
  <2>3. /\ job.filters.data_center_id # Unset
        /\ job.center # Unset => job.filters.data_center_id = job.center
    BY <1>1, <2>1 DEF ScopeWrong, ContentsAssumption
  <2>. QED BY <2>1, <2>2, <2>3 DEF PlaceWrong, Scope, Leaves
<1>2. CASE "data_center_id" \notin Given(job)
  <2>1. CASE job.type = "notification_delivery"
    <3>1. "data_center_id" \notin Reads(job.type)
      BY <2>1, Scoped
    <3>. QED BY <2>1, <3>1 DEF PlaceWrong, Leaves
  <2>2. CASE job.type # "notification_delivery"
    <3>1. ~AsksForCenter(job)
      BY <1>2, <2>2, Scoped DEF Given, AsksForCenter
    <3>. QED BY <2>2, <3>1 DEF PlaceWrong, Scope, Leaves
  <2>. QED BY <2>1, <2>2
<1>. QED BY <1>1, <1>2

\* Each parameter is refused exactly when it is unsound.
LEMMA RefusedUnsound ==
    ASSUME ContentsAssumption, NEW job, job.type \in DOMAIN Templates,
           "data_center_id" \in Given(job) => ~ScopeWrong(job),
           NEW name \in Given(job) \ Dates
    PROVE  Refuses(name, job) <=> ~Sound(name, job)
<1>. DEFINE v == job.filters[name]
<1>1. job.type \in Types /\ job.type # "room_environment"
  BY TemplateReads
<1>2. name \in {"device_id", "room_id", "rack_id"} => job.type # "audit_export"
  BY DEF Given, Reads, AuditExport, Dates
<1>3. CASE name = "data_center_id"
  <2>1. Refuses(name, job) <=> ScopeWrong(job)
    BY <1>3 DEF Refuses, Enumerated, People
  <2>2. Sound(name, job) <=> Reach(job) # {}
    BY <1>3 DEF Sound
  <2>. QED BY <1>1, <1>3, <2>1, <2>2, ScopeSound
<1>4. CASE name = "device_id"
  <2>1. Refuses(name, job) <=>
            v \notin DOMAIN Device \/ PlaceWrong(job, Device[v].org, Device[v].center)
    BY <1>4 DEF Refuses, Enumerated, People
  <2>2. Sound(name, job) <=>
            v \in DOMAIN Device /\ Device[v].org = job.org /\ Leaves(job, Device[v].center)
    BY <1>4 DEF Sound
  <2>. QED BY <1>1, <1>2, <1>4, <2>1, <2>2, PlaceSound
<1>5. CASE name = "room_id"
  <2>1. Refuses(name, job) <=>
            \/ v \notin DOMAIN RoomCenter
            \/ PlaceWrong(job, CenterOrg[RoomCenter[v]], RoomCenter[v])
    BY <1>5 DEF Refuses, Enumerated, People
  <2>2. Sound(name, job) <=> v \in DOMAIN RoomCenter /\ RoomCenter[v] \in Reach(job)
    BY <1>5 DEF Sound
  <2>3. v \in DOMAIN RoomCenter => RoomCenter[v] \in DOMAIN CenterOrg
    BY DEF ContentsAssumption
  <2>. QED BY <1>1, <1>2, <1>5, <2>1, <2>2, <2>3, PlaceSound DEF Reach
<1>6. CASE name = "rack_id"
  <2>1. Refuses(name, job) <=>
            \/ v \notin DOMAIN RackCenter
            \/ PlaceWrong(job, CenterOrg[RackCenter[v]], RackCenter[v])
    BY <1>6 DEF Refuses, Enumerated, People
  <2>2. Sound(name, job) <=> v \in DOMAIN RackCenter /\ RackCenter[v] \in Reach(job)
    BY <1>6 DEF Sound
  <2>3. v \in DOMAIN RackCenter => RackCenter[v] \in DOMAIN CenterOrg
    BY DEF ContentsAssumption
  <2>. QED BY <1>1, <1>2, <1>6, <2>1, <2>2, <2>3, PlaceSound DEF Reach
<1>7. CASE name = "device_model_id"
  <2>1. Refuses(name, job) <=> v \notin UsedIn(job.org, "model")
    BY <1>7 DEF Refuses, Enumerated, People
  <2>. QED BY <1>7, <2>1 DEF Sound, UsedIn
<1>8. CASE name = "device_type_id"
  <2>1. Refuses(name, job) <=> v \notin UsedIn(job.org, "type")
    BY <1>8 DEF Refuses, Enumerated, People
  <2>. QED BY <1>8, <2>1 DEF Sound, UsedIn
<1>9. CASE name = "metric_codes"
  <2>1. CASE job.type = "telemetry_export"
    <3>1. Refuses(name, job) <=> \E code \in v : Canonical(code) \notin DOMAIN Active
      BY <1>9, <2>1 DEF Refuses, Enumerated, People
    <3>2. Sound(name, job) <=>
              \A code \in v : {code, Canonical(code)} \cap DOMAIN Active # {}
      BY <1>9, <2>1 DEF Sound
    <3>3. \A code : {code, Canonical(code)} \cap DOMAIN Active # {} <=>
                    Canonical(code) \in DOMAIN Active
      BY DEF Canonical
    <3>. QED BY <3>1, <3>2, <3>3
  <2>2. CASE job.type # "telemetry_export"
    BY <1>9, <2>2 DEF Refuses, Sound, Enumerated, People
  <2>. QED BY <2>1, <2>2
<1>10. CASE name \in Enumerated \cup People
  BY <1>10 DEF Refuses, Sound, Enumerated, People
<1>11. CASE name \in {"source", "alert_id", "resource_type", "resource_id"}
  BY <1>11 DEF Refuses, Sound, Enumerated, People
<1>12. CASE name = "ip_address"
  <2>1. Refuses(name, job) <=> Malformed \in v
    BY <1>12 DEF Refuses, Enumerated, People
  <2>2. Sound(name, job) <=> Malformed \notin v
    BY <1>12 DEF Sound
  <2>. QED BY <2>1, <2>2
<1>13. name \in Located \cup {"data_center_id", "metric_codes"} \cup Enumerated \cup People
                \cup {"source", "alert_id", "resource_type", "resource_id", "ip_address"}
  <2>1. name \in Reads(job.type)
    BY DEF Given
  <2>. QED BY <1>1, <2>1
       DEF Types, Reads, AlertSummary, AlertExport, NotificationDelivery, DeviceInventory,
           AuditExport, TelemetryExport, Located, Enumerated, People
<1>. QED BY <1>3, <1>4, <1>5, <1>6, <1>7, <1>8, <1>9, <1>10, <1>11, <1>12, <1>13
         DEF Located

\* When a job that uses its template is refused.
LEMMA RefusedSeeded ==
    ASSUME NEW job, IsJob(job), job.type \in DOMAIN Templates,
           job.config = [days |-> Templates[job.type].days, format |-> "CSV",
                         allowed |-> {"CSV"}, metrics |-> {}]
    PROVE  Refused(job) <=>
               \/ ~(Templates[job.type].required \subseteq Given(job))
               \/ \E name \in Given(job) \ Dates : Refuses(name, job)
               \/ Dates \cap Given(job) # {} /\ DatesWrong(job, FALSE)
               \/ Dates \subseteq Given(job) /\ To(job) - From(job) > Limit(job) * Day
<1>1. job.type \in Types /\ ~FormatWrong(job) /\ ~NoMetrics(job)
  BY TemplateReads DEF FormatWrong, NoMetrics
<1>2. \A name \in Dates : ~Refuses(name, job)
  BY DEF Refuses, Dates, Enumerated, People
<1>3. DatesWrong(job, DatesRequired(job.type)) <=>
          \/ DatesRequired(job.type) /\ ~(Dates \subseteq DOMAIN job.filters)
          \/ DatesWrong(job, FALSE)
  BY DEF DatesWrong
<1>4. DatesWrong(job, FALSE) => Dates \cap DOMAIN job.filters # {}
  BY DEF DatesWrong, Dates
<1>5. CASE job.type = "device_inventory"
  <2>1. Dates \cap Reads(job.type) = {} /\ ~DatesRequired(job.type)
    BY <1>5, TemplateReads DEF Reads, DeviceInventory, Dates, DatesRequired, Located
  <2>2. Dates \cap Given(job) = {} /\ ~(Dates \subseteq Given(job))
    BY <2>1 DEF Given, Dates
  <2>3. Templates[job.type].required = {}
    BY <1>5, <2>1, TemplateReads
  <2>. QED BY <1>1, <1>5, <2>2, <2>3 DEF Refused
<1>6. CASE job.type # "device_inventory"
  <2>1. Dates \subseteq Reads(job.type) /\ Dates \cap Given(job) = Dates \cap DOMAIN job.filters
    BY <1>6, TemplateReads DEF Given
  <2>2. Templates[job.type].required \subseteq Given(job) <=>
            /\ DatesRequired(job.type) => Dates \subseteq DOMAIN job.filters
            /\ job.type = "telemetry_export" => "metric_codes" \in DOMAIN job.filters
    <3>1. job.type = "telemetry_export" => "metric_codes" \in Reads(job.type)
      BY DEF Reads, TelemetryExport
    <3>. QED BY <2>1, <3>1, TemplateReads DEF Given
  <2>3. job.config.days # {} /\ job.config.days \in {{31}, {90}}
    BY <1>6, TemplateReads
  <2>4. Limit(job) > 0
    BY <2>3 DEF Limit
  <2>5. TooLong(job) <=>
            Dates \subseteq Given(job) /\ To(job) - From(job) > Limit(job) * Day
    BY <1>1, <2>1, <2>4, TemplateReads DEF TooLong
  <2>6. \/ DatesWrong(job, DatesRequired(job.type))
        \/ job.type = "telemetry_export" /\ "metric_codes" \notin DOMAIN job.filters
        <=> \/ ~(Templates[job.type].required \subseteq Given(job))
            \/ Dates \cap Given(job) # {} /\ DatesWrong(job, FALSE)
    BY <1>3, <1>4, <2>1, <2>2
  <2>. QED BY <1>1, <1>2, <1>6, <2>5, <2>6 DEF Refused
<1>. QED BY <1>5, <1>6

\* The rows of a job that uses its template are those that the template promises.
LEMMA RowsSelected ==
    ASSUME ContentsAssumption, NEW job, IsJob(job), job.type \in DOMAIN Templates,
           ~Refused(job), NEW row \in World
    PROVE  row \in Rows(job) <=>
               /\ row.org = job.org
               /\ job.center # Unset /\ job.type # "audit_export" => row.center = job.center
               /\ "data_center_id" \in Given(job) => row.center = job.filters.data_center_id
               /\ \A name \in Given(job) : Keeps(name, job, row)
<1>1. job.type \in Types /\ job.type # "room_environment"
  BY TemplateReads
<1>2. InScope(job, row) <=>
          /\ row.org = job.org
          /\ job.center # Unset /\ job.type # "audit_export" => row.center = job.center
          /\ "data_center_id" \in Given(job) => row.center = job.filters.data_center_id
  <2>1. CASE "data_center_id" \in Given(job)
    <3>1. /\ AsksForCenter(job) /\ job.filters.data_center_id # Unset
          /\ job.center # Unset => job.filters.data_center_id = job.center
      BY <1>1, <2>1, ScopeChecked
    <3>2. job.type \notin {"audit_export", "notification_delivery", "room_environment"}
      BY <1>1, <2>1, Scoped DEF Given
    <3>. QED BY <2>1, <3>1, <3>2 DEF InScope, Scope
  <2>2. CASE "data_center_id" \notin Given(job)
    <3>1. job.type \notin {"audit_export", "notification_delivery"} => ~AsksForCenter(job)
      BY <1>1, <2>2, Scoped DEF Given, AsksForCenter
    <3>. QED BY <1>1, <2>2, <3>1 DEF InScope, Scope
  <2>. QED BY <2>1, <2>2
<1>. QED BY <1>1, <1>2 DEF Rows

\* REPORT_TEMPLATE_SEEDS and _build_report: the lists of filters and the limit of days
\* that its template has hold of what is generated, both of the rows it has and of when
\* it is refused.
THEOREM TemplatesKeepPromises ==
    ASSUME ContentsAssumption, NEW job, IsJob(job), job.type \in DOMAIN Templates
    PROVE  Promised(job)
<1>. DEFINE j == Seeded(job)
            given == Templates[job.type].filters \cap DOMAIN job.filters
            both == Dates \subseteq given
<1>1. /\ j.type = job.type /\ j.org = job.org /\ j.center = job.center
      /\ j.filters = job.filters /\ IsJob(j)
      /\ j.config = [days |-> Templates[job.type].days, format |-> "CSV",
                     allowed |-> {"CSV"}, metrics |-> {}]
  BY SeededJob
<1>. HIDE DEF j
<1>2. given = Given(j)
  BY <1>1, TemplateReads DEF Given
<1>3. Refused(j) <=>
          \/ ~(Templates[job.type].required \subseteq given)
          \/ \E name \in given \ Dates : Refuses(name, j)
          \/ Dates \cap given # {} /\ DatesWrong(j, FALSE)
          \/ both /\ To(j) - From(j) > Limit(j) * Day
  BY <1>1, <1>2, RefusedSeeded
<1>4. (\E name \in given \ Dates : Refuses(name, j)) <=>
          \E name \in given \ Dates : ~Sound(name, j)
  <2>1. CASE "data_center_id" \in given /\ ScopeWrong(j)
    <3>1. Refuses("data_center_id", j) /\ "data_center_id" \in given \ Dates
      BY <2>1 DEF Refuses, Enumerated, People, Dates
    <3>2. ~Sound("data_center_id", j)
      BY <1>1, <1>2, <2>1, TemplateReads, ScopeSound DEF Sound
    <3>. QED BY <3>1, <3>2
  <2>2. CASE "data_center_id" \in given => ~ScopeWrong(j)
    BY <1>1, <1>2, <2>2, RefusedUnsound
  <2>. QED BY <2>1, <2>2
<1>5. ASSUME ~Refused(j), NEW row \in World
      PROVE  row \in Rows(j) <=>
                 /\ row.org = job.org
                 /\ job.center # Unset /\ job.type # "audit_export" => row.center = job.center
                 /\ "data_center_id" \in given => row.center = job.filters.data_center_id
                 /\ both => row.time \in From(j) .. To(j)
                 /\ \A name \in (IF both THEN given \ Dates ELSE given) : Keeps(name, job, row)
  <2>1. \A name : Keeps(name, j, row) <=> Keeps(name, job, row)
    BY <1>1 DEF Keeps, From, To
  <2>2. row \in Rows(j) <=>
            /\ row.org = job.org
            /\ job.center # Unset /\ job.type # "audit_export" => row.center = job.center
            /\ "data_center_id" \in given => row.center = job.filters.data_center_id
            /\ \A name \in given : Keeps(name, job, row)
    BY <1>1, <1>2, <1>5, <2>1, RowsSelected
  <2>3. CASE both
    <3>1. \A d \in Dates \cap DOMAIN j.filters : j.filters[d].form # "bad"
      BY <1>3, <1>5, <2>3 DEF DatesWrong, Dates
    <3>2. From(j) \in Int /\ To(j) \in Int /\ row.time \in Int
      BY <1>1, <1>2, <2>3, <3>1, DatesRead DEF ContentsAssumption, Given, Dates
    <3>3. Keeps("date_from", j, row) /\ Keeps("date_to", j, row) <=>
              row.time \in From(j) .. To(j)
      BY <3>2 DEF Keeps
    <3>. QED BY <2>1, <2>2, <2>3, <3>3 DEF Dates
  <2>. QED BY <2>2, <2>3
<1>6. Rows(j) \subseteq World
  BY DEF Rows
<1>7. ~Refused(j) =>
          Rows(j) = {row \in World :
              /\ row.org = job.org
              /\ job.center # Unset /\ job.type # "audit_export" => row.center = job.center
              /\ "data_center_id" \in given => row.center = job.filters.data_center_id
              /\ both => row.time \in From(j) .. To(j)
              /\ \A name \in (IF both THEN given \ Dates ELSE given) : Keeps(name, job, row)}
  BY <1>5, <1>6
<1>8. From(j) = From(job) /\ To(j) = To(job)
  BY <1>1 DEF From, To
<1>. QED BY <1>3, <1>4, <1>7, <1>8 DEF Promised, Selected, j

-----------------------------------------------------------------------------
(* Summaries.                                                              *)

\* A section of four figures.
LEMMA Section ==
    ASSUME NEW S, NEW part \in [1 .. 4 -> S]
    PROVE  part \in Seq(S) /\ Len(part) = 4
<1>1. part = [i \in 1 .. 4 |-> part[i]] /\ 4 \in Nat /\ \A i \in 1 .. 4 : part[i] \in S
  OBVIOUS
<1>2. [i \in 1 .. 4 |-> part[i]] \in Seq(S)
  BY <1>1, IsASeq
<1>. QED BY <1>1, <1>2, LenProperties

\* Others come before it.
LEMMA Appended ==
    ASSUME NEW S, NEW head \in Seq(S), NEW part \in Seq(S), NEW all, all = head \o part
    PROVE  /\ all \in Seq(S)
           /\ Len(all) = Len(head) + Len(part)
           /\ \A i \in 1 .. Len(head) + Len(part) :
                 all[i] = IF i <= Len(head) THEN head[i] ELSE part[i - Len(head)]
BY ConcatProperties

\* What the figures of a section are.
IsFigure(f, section, label, groups, statuses) ==
    f.section = section /\ f.label = label /\ f.groups = groups /\ f.statuses = statuses

\* The figures of a summary of alerts, by their places.
LEMMA AlertPlaces ==
    ASSUME subject = "alerts"
    PROVE  /\ Len(Figures) = 15
           /\ Groups = {"INFO", "WARNING", "CRITICAL", "EMERGENCY"}
           /\ AllOf(subject) = {"OPEN", "ACKNOWLEDGED", "RESOLVED", "SUPPRESSED"}
           /\ IsFigure(Figures[1], "summary", "total", Groups, AllOf(subject))
           /\ IsFigure(Figures[2], "summary", "open_total", Groups, {"OPEN", "ACKNOWLEDGED"})
           /\ IsFigure(Figures[3], "summary", "critical_open", {"CRITICAL"},
                       {"OPEN", "ACKNOWLEDGED"})
           /\ Figures[4].section = "summary" /\ Figures[4].label = "warning_open"
           /\ Figures[5].section = "summary" /\ Figures[5].label = "acknowledged_total"
           /\ Figures[6].section = "summary" /\ Figures[6].label = "resolved_total"
           /\ IsFigure(Figures[7], "summary", "unacknowledged_critical", {"CRITICAL"}, {"OPEN"})
           /\ IsFigure(Figures[8], "group", "INFO", {"INFO"}, AllOf(subject))
           /\ IsFigure(Figures[9], "group", "WARNING", {"WARNING"}, AllOf(subject))
           /\ IsFigure(Figures[10], "group", "CRITICAL", {"CRITICAL"}, AllOf(subject))
           /\ IsFigure(Figures[11], "group", "EMERGENCY", {"EMERGENCY"}, AllOf(subject))
           /\ IsFigure(Figures[12], "status", "OPEN", Groups, {"OPEN"})
           /\ IsFigure(Figures[13], "status", "ACKNOWLEDGED", Groups, {"ACKNOWLEDGED"})
           /\ IsFigure(Figures[14], "status", "RESOLVED", Groups, {"RESOLVED"})
           /\ IsFigure(Figures[15], "status", "SUPPRESSED", Groups, {"SUPPRESSED"})
<1>. DEFINE active == {"OPEN", "ACKNOWLEDGED"}
            of(label, groups, statuses) == Figure("summary", label, groups, statuses)
            head == << of("total", Groups, AllOf("alerts")),
                       of("open_total", Groups, active),
                       of("critical_open", {"CRITICAL"}, active),
                       of("warning_open", {"WARNING"}, active),
                       of("acknowledged_total", Groups, {"ACKNOWLEDGED"}),
                       of("resolved_total", Groups, {"RESOLVED"}),
                       of("unacknowledged_critical", {"CRITICAL"}, {"OPEN"}) >>
            one == PerGroup("group", "alerts")
            two == PerStatus("status", "alerts")
            S == {head[i] : i \in 1 .. 7} \cup {one[i] : i \in 1 .. 4} \cup {two[i] : i \in 1 .. 4}
<1>1. Figures = head \o one \o two
  BY DEF Figures, AlertFigures
<1>2. head \in Seq(S) /\ Len(head) = 7
  OBVIOUS
<1>3. one \in Seq(S) /\ Len(one) = 4 /\ two \in Seq(S) /\ Len(two) = 4
  <2>1. one \in [1 .. 4 -> S] /\ two \in [1 .. 4 -> S]
    BY DEF PerGroup, PerStatus
  <2>. HIDE DEF one, two, S
  <2>. QED BY <2>1, Section
<1>4. /\ GroupOrder["alerts"] = <<"INFO", "WARNING", "CRITICAL", "EMERGENCY">>
      /\ Statuses["alerts"] = <<"OPEN", "ACKNOWLEDGED", "RESOLVED", "SUPPRESSED">>
  BY DEF GroupOrder, Statuses
<1>5. Groups = {"INFO", "WARNING", "CRITICAL", "EMERGENCY"}
  BY <1>4 DEF Groups, ToSet
<1>6. AllOf("alerts") = {"OPEN", "ACKNOWLEDGED", "RESOLVED", "SUPPRESSED"}
  BY <1>4 DEF AllOf, ToSet
<1>7. /\ one[1] = Figure("group", "INFO", {"INFO"}, AllOf("alerts"))
      /\ one[2] = Figure("group", "WARNING", {"WARNING"}, AllOf("alerts"))
      /\ one[3] = Figure("group", "CRITICAL", {"CRITICAL"}, AllOf("alerts"))
      /\ one[4] = Figure("group", "EMERGENCY", {"EMERGENCY"}, AllOf("alerts"))
  BY <1>4 DEF PerGroup
<1>8. /\ two[1] = Figure("status", "OPEN", Groups, {"OPEN"})
      /\ two[2] = Figure("status", "ACKNOWLEDGED", Groups, {"ACKNOWLEDGED"})
      /\ two[3] = Figure("status", "RESOLVED", Groups, {"RESOLVED"})
      /\ two[4] = Figure("status", "SUPPRESSED", Groups, {"SUPPRESSED"})
  BY <1>4 DEF PerStatus
<1>9. /\ head[1] = of("total", Groups, AllOf("alerts"))
      /\ head[2] = of("open_total", Groups, active)
      /\ head[3] = of("critical_open", {"CRITICAL"}, active)
      /\ head[4] = of("warning_open", {"WARNING"}, active)
      /\ head[5] = of("acknowledged_total", Groups, {"ACKNOWLEDGED"})
      /\ head[6] = of("resolved_total", Groups, {"RESOLVED"})
      /\ head[7] = of("unacknowledged_critical", {"CRITICAL"}, {"OPEN"})
  OBVIOUS
<1>. HIDE DEF head, one, two, S
<1>. DEFINE first == head \o one
<1>10. /\ first \in Seq(S) /\ Len(first) = 11
       /\ \A i \in 1 .. 7 : first[i] = head[i]
       /\ \A i \in 1 .. 4 : first[7 + i] = one[i]
  <2>1. first = head \o one /\ head \in Seq(S) /\ one \in Seq(S)
    BY <1>2, <1>3
  <2>. HIDE DEF first
  <2>2. /\ first \in Seq(S)
        /\ Len(first) = Len(head) + Len(one)
        /\ \A i \in 1 .. Len(head) + Len(one) :
              first[i] = IF i <= Len(head) THEN head[i] ELSE one[i - Len(head)]
    BY <2>1, Appended
  <2>. QED BY <1>2, <1>3, <2>2
<1>11. Figures = first \o two /\ first \in Seq(S) /\ two \in Seq(S)
  BY <1>1, <1>3, <1>10
<1>. HIDE DEF first
<1>12. /\ Len(Figures) = 15
       /\ \A i \in 1 .. 7 : Figures[i] = head[i]
       /\ \A i \in 1 .. 4 : Figures[7 + i] = one[i] /\ Figures[11 + i] = two[i]
  <2>1. /\ Len(Figures) = Len(first) + Len(two)
        /\ \A i \in 1 .. Len(first) + Len(two) :
              Figures[i] = IF i <= Len(first) THEN first[i] ELSE two[i - Len(first)]
    BY <1>11, Appended
  <2>. QED BY <1>3, <1>10, <2>1
<1>13. /\ Figures[8] = one[1] /\ Figures[9] = one[2] /\ Figures[10] = one[3]
       /\ Figures[11] = one[4] /\ Figures[12] = two[1] /\ Figures[13] = two[2]
       /\ Figures[14] = two[3] /\ Figures[15] = two[4]
  BY <1>12
<1>. HIDE DEF active
<1>14. /\ IsFigure(Figures[1], "summary", "total", Groups, AllOf(subject))
       /\ IsFigure(Figures[2], "summary", "open_total", Groups, active)
       /\ IsFigure(Figures[3], "summary", "critical_open", {"CRITICAL"}, active)
       /\ Figures[4].section = "summary" /\ Figures[4].label = "warning_open"
       /\ Figures[5].section = "summary" /\ Figures[5].label = "acknowledged_total"
       /\ Figures[6].section = "summary" /\ Figures[6].label = "resolved_total"
       /\ IsFigure(Figures[7], "summary", "unacknowledged_critical", {"CRITICAL"}, {"OPEN"})
  BY <1>9, <1>12 DEF IsFigure, Figure
<1>15. /\ IsFigure(Figures[8], "group", "INFO", {"INFO"}, AllOf(subject))
       /\ IsFigure(Figures[9], "group", "WARNING", {"WARNING"}, AllOf(subject))
       /\ IsFigure(Figures[10], "group", "CRITICAL", {"CRITICAL"}, AllOf(subject))
       /\ IsFigure(Figures[11], "group", "EMERGENCY", {"EMERGENCY"}, AllOf(subject))
  BY <1>7, <1>13 DEF IsFigure, Figure
<1>16. /\ IsFigure(Figures[12], "status", "OPEN", Groups, {"OPEN"})
       /\ IsFigure(Figures[13], "status", "ACKNOWLEDGED", Groups, {"ACKNOWLEDGED"})
       /\ IsFigure(Figures[14], "status", "RESOLVED", Groups, {"RESOLVED"})
       /\ IsFigure(Figures[15], "status", "SUPPRESSED", Groups, {"SUPPRESSED"})
  BY <1>8, <1>13 DEF IsFigure, Figure
<1>. QED BY <1>5, <1>6, <1>12, <1>14, <1>15, <1>16 DEF active

\* The figures of a summary of notifications, by their places.
LEMMA NotificationPlaces ==
    ASSUME subject = "notifications"
    PROVE  /\ Len(Figures) = 13
           /\ Groups = {"EMAIL", "SMS", "WEB", "WEBHOOK"}
           /\ AllOf(subject) = {"PENDING", "DELIVERING", "SENT", "FAILED"}
           /\ IsFigure(Figures[1], "summary", "total", Groups, AllOf(subject))
           /\ Figures[2].section = "summary" /\ Figures[2].label = "PENDING"
           /\ Figures[3].section = "summary" /\ Figures[3].label = "DELIVERING"
           /\ Figures[4].section = "summary" /\ Figures[4].label = "SENT"
           /\ Figures[5].section = "summary" /\ Figures[5].label = "FAILED"
           /\ IsFigure(Figures[6], "status", "PENDING", Groups, {"PENDING"})
           /\ IsFigure(Figures[7], "status", "DELIVERING", Groups, {"DELIVERING"})
           /\ IsFigure(Figures[8], "status", "SENT", Groups, {"SENT"})
           /\ IsFigure(Figures[9], "status", "FAILED", Groups, {"FAILED"})
           /\ IsFigure(Figures[10], "group", "EMAIL", {"EMAIL"}, AllOf(subject))
           /\ IsFigure(Figures[11], "group", "SMS", {"SMS"}, AllOf(subject))
           /\ IsFigure(Figures[12], "group", "WEB", {"WEB"}, AllOf(subject))
           /\ IsFigure(Figures[13], "group", "WEBHOOK", {"WEBHOOK"}, AllOf(subject))
<1>. DEFINE total == Figure("summary", "total", Groups, AllOf("notifications"))
            head == << total >>
            one == PerStatus("summary", "notifications")
            two == PerStatus("status", "notifications")
            three == PerGroup("group", "notifications")
            S == {total} \cup {one[i] : i \in 1 .. 4} \cup {two[i] : i \in 1 .. 4}
                 \cup {three[i] : i \in 1 .. 4}
            first == head \o one
            second == first \o two
<1>1. Figures = second \o three
  BY DEF Figures, NotificationFigures
<1>2. head \in Seq(S) /\ Len(head) = 1 /\ head[1] = total
  OBVIOUS
<1>3. /\ one \in Seq(S) /\ Len(one) = 4 /\ two \in Seq(S) /\ Len(two) = 4
      /\ three \in Seq(S) /\ Len(three) = 4
  <2>1. one \in [1 .. 4 -> S] /\ two \in [1 .. 4 -> S] /\ three \in [1 .. 4 -> S]
    BY DEF PerGroup, PerStatus
  <2>. HIDE DEF one, two, three, S
  <2>. QED BY <2>1, Section
<1>4. /\ GroupOrder["notifications"] = <<"EMAIL", "SMS", "WEB", "WEBHOOK">>
      /\ Statuses["notifications"] = <<"PENDING", "DELIVERING", "SENT", "FAILED">>
  BY DEF GroupOrder, Statuses
<1>5. Groups = {"EMAIL", "SMS", "WEB", "WEBHOOK"}
  BY <1>4 DEF Groups, ToSet
<1>6. AllOf("notifications") = {"PENDING", "DELIVERING", "SENT", "FAILED"}
  BY <1>4 DEF AllOf, ToSet
<1>7. /\ one[1] = Figure("summary", "PENDING", Groups, {"PENDING"})
      /\ one[2] = Figure("summary", "DELIVERING", Groups, {"DELIVERING"})
      /\ one[3] = Figure("summary", "SENT", Groups, {"SENT"})
      /\ one[4] = Figure("summary", "FAILED", Groups, {"FAILED"})
  BY <1>4 DEF PerStatus
<1>8. /\ two[1] = Figure("status", "PENDING", Groups, {"PENDING"})
      /\ two[2] = Figure("status", "DELIVERING", Groups, {"DELIVERING"})
      /\ two[3] = Figure("status", "SENT", Groups, {"SENT"})
      /\ two[4] = Figure("status", "FAILED", Groups, {"FAILED"})
  BY <1>4 DEF PerStatus
<1>9. /\ three[1] = Figure("group", "EMAIL", {"EMAIL"}, AllOf("notifications"))
      /\ three[2] = Figure("group", "SMS", {"SMS"}, AllOf("notifications"))
      /\ three[3] = Figure("group", "WEB", {"WEB"}, AllOf("notifications"))
      /\ three[4] = Figure("group", "WEBHOOK", {"WEBHOOK"}, AllOf("notifications"))
  BY <1>4 DEF PerGroup
<1>. HIDE DEF head, one, two, three, S
<1>10. first \in Seq(S) /\ Len(first) = 5 /\ first[1] = total
       /\ \A i \in 1 .. 4 : first[1 + i] = one[i]
  <2>1. first = head \o one /\ head \in Seq(S) /\ one \in Seq(S)
    BY <1>2, <1>3
  <2>. HIDE DEF first
  <2>2. /\ first \in Seq(S)
        /\ Len(first) = Len(head) + Len(one)
        /\ \A i \in 1 .. Len(head) + Len(one) :
              first[i] = IF i <= Len(head) THEN head[i] ELSE one[i - Len(head)]
    BY <2>1, Appended
  <2>. QED BY <1>2, <1>3, <2>2
<1>. HIDE DEF first
<1>11. /\ second \in Seq(S) /\ Len(second) = 9
       /\ \A i \in 1 .. 5 : second[i] = first[i]
       /\ \A i \in 1 .. 4 : second[5 + i] = two[i]
  <2>1. second = first \o two /\ first \in Seq(S) /\ two \in Seq(S)
    BY <1>3, <1>10
  <2>. HIDE DEF second
  <2>2. /\ second \in Seq(S)
        /\ Len(second) = Len(first) + Len(two)
        /\ \A i \in 1 .. Len(first) + Len(two) :
              second[i] = IF i <= Len(first) THEN first[i] ELSE two[i - Len(first)]
    BY <2>1, Appended
  <2>. QED BY <1>3, <1>10, <2>2
<1>12. Figures = second \o three /\ second \in Seq(S) /\ three \in Seq(S)
  BY <1>1, <1>3, <1>11
<1>. HIDE DEF second
<1>13. /\ Len(Figures) = 13
       /\ \A i \in 1 .. 9 : Figures[i] = second[i]
       /\ \A i \in 1 .. 4 : Figures[9 + i] = three[i]
  <2>1. /\ Len(Figures) = Len(second) + Len(three)
        /\ \A i \in 1 .. Len(second) + Len(three) :
              Figures[i] = IF i <= Len(second) THEN second[i] ELSE three[i - Len(second)]
    BY <1>12, Appended
  <2>. QED BY <1>3, <1>11, <2>1
<1>14. /\ Figures[1] = total /\ Figures[2] = one[1] /\ Figures[3] = one[2]
       /\ Figures[4] = one[3] /\ Figures[5] = one[4] /\ Figures[6] = two[1]
       /\ Figures[7] = two[2] /\ Figures[8] = two[3] /\ Figures[9] = two[4]
       /\ Figures[10] = three[1] /\ Figures[11] = three[2] /\ Figures[12] = three[3]
       /\ Figures[13] = three[4]
  BY <1>10, <1>11, <1>13
<1>15. /\ IsFigure(Figures[1], "summary", "total", Groups, AllOf(subject))
       /\ Figures[2].section = "summary" /\ Figures[2].label = "PENDING"
       /\ Figures[3].section = "summary" /\ Figures[3].label = "DELIVERING"
       /\ Figures[4].section = "summary" /\ Figures[4].label = "SENT"
       /\ Figures[5].section = "summary" /\ Figures[5].label = "FAILED"
  BY <1>7, <1>14 DEF IsFigure, Figure
<1>16. /\ IsFigure(Figures[6], "status", "PENDING", Groups, {"PENDING"})
       /\ IsFigure(Figures[7], "status", "DELIVERING", Groups, {"DELIVERING"})
       /\ IsFigure(Figures[8], "status", "SENT", Groups, {"SENT"})
       /\ IsFigure(Figures[9], "status", "FAILED", Groups, {"FAILED"})
  BY <1>8, <1>14 DEF IsFigure, Figure
<1>17. /\ IsFigure(Figures[10], "group", "EMAIL", {"EMAIL"}, AllOf(subject))
       /\ IsFigure(Figures[11], "group", "SMS", {"SMS"}, AllOf(subject))
       /\ IsFigure(Figures[12], "group", "WEB", {"WEB"}, AllOf(subject))
       /\ IsFigure(Figures[13], "group", "WEBHOOK", {"WEBHOOK"}, AllOf(subject))
  BY <1>9, <1>14 DEF IsFigure, Figure
<1>. QED BY <1>5, <1>6, <1>13, <1>15, <1>16, <1>17

\* The figure of a section and label is the one at its place.
LEMMA AlertValues ==
    ASSUME subject = "alerts"
    PROVE  /\ Value("summary", "total") = figures[1]
           /\ Value("summary", "open_total") = figures[2]
           /\ Value("summary", "critical_open") = figures[3]
           /\ Value("summary", "unacknowledged_critical") = figures[7]
           /\ Value("group", "INFO") = figures[8]
           /\ Value("group", "WARNING") = figures[9]
           /\ Value("group", "CRITICAL") = figures[10]
           /\ Value("group", "EMERGENCY") = figures[11]
           /\ Value("status", "OPEN") = figures[12]
           /\ Value("status", "ACKNOWLEDGED") = figures[13]
           /\ Value("status", "RESOLVED") = figures[14]
           /\ Value("status", "SUPPRESSED") = figures[15]
<1>1. ASSUME NEW section, NEW label, NEW at \in 1 .. 15,
             \A i \in 1 .. 15 :
                Figures[i].section = section /\ Figures[i].label = label <=> i = at
      PROVE  Value(section, label) = figures[at]
  <2>1. (CHOOSE i \in 1 .. Len(Figures) :
            Figures[i].section = section /\ Figures[i].label = label) = at
    BY <1>1, AlertPlaces
  <2>. QED BY <2>1 DEF Value
<1>2. /\ Figures[1].section = "summary" /\ Figures[1].label = "total"
      /\ Figures[2].section = "summary" /\ Figures[2].label = "open_total"
      /\ Figures[3].section = "summary" /\ Figures[3].label = "critical_open"
      /\ Figures[4].section = "summary" /\ Figures[4].label = "warning_open"
      /\ Figures[5].section = "summary" /\ Figures[5].label = "acknowledged_total"
      /\ Figures[6].section = "summary" /\ Figures[6].label = "resolved_total"
      /\ Figures[7].section = "summary" /\ Figures[7].label = "unacknowledged_critical"
      /\ Figures[8].section = "group" /\ Figures[8].label = "INFO"
      /\ Figures[9].section = "group" /\ Figures[9].label = "WARNING"
      /\ Figures[10].section = "group" /\ Figures[10].label = "CRITICAL"
      /\ Figures[11].section = "group" /\ Figures[11].label = "EMERGENCY"
      /\ Figures[12].section = "status" /\ Figures[12].label = "OPEN"
      /\ Figures[13].section = "status" /\ Figures[13].label = "ACKNOWLEDGED"
      /\ Figures[14].section = "status" /\ Figures[14].label = "RESOLVED"
      /\ Figures[15].section = "status" /\ Figures[15].label = "SUPPRESSED"
  BY AlertPlaces DEF IsFigure
<1>3. Value("summary", "total") = figures[1]
  BY <1>1, <1>2
<1>4. Value("summary", "open_total") = figures[2]
  BY <1>1, <1>2
<1>5. Value("summary", "critical_open") = figures[3]
  BY <1>1, <1>2
<1>6. Value("summary", "unacknowledged_critical") = figures[7]
  BY <1>1, <1>2
<1>7. Value("group", "INFO") = figures[8] /\ Value("group", "WARNING") = figures[9]
  BY <1>1, <1>2
<1>8. Value("group", "CRITICAL") = figures[10] /\ Value("group", "EMERGENCY") = figures[11]
  BY <1>1, <1>2
<1>9. Value("status", "OPEN") = figures[12] /\ Value("status", "ACKNOWLEDGED") = figures[13]
  BY <1>1, <1>2
<1>10. Value("status", "RESOLVED") = figures[14] /\ Value("status", "SUPPRESSED") = figures[15]
  BY <1>1, <1>2
<1>. QED BY <1>3, <1>4, <1>5, <1>6, <1>7, <1>8, <1>9, <1>10

\* The same of notifications.
LEMMA NotificationValues ==
    ASSUME subject = "notifications"
    PROVE  /\ Value("summary", "total") = figures[1]
           /\ Value("status", "PENDING") = figures[6]
           /\ Value("status", "DELIVERING") = figures[7]
           /\ Value("status", "SENT") = figures[8]
           /\ Value("status", "FAILED") = figures[9]
           /\ Value("group", "EMAIL") = figures[10]
           /\ Value("group", "SMS") = figures[11]
           /\ Value("group", "WEB") = figures[12]
           /\ Value("group", "WEBHOOK") = figures[13]
<1>1. ASSUME NEW section, NEW label, NEW at \in 1 .. 13,
             \A i \in 1 .. 13 :
                Figures[i].section = section /\ Figures[i].label = label <=> i = at
      PROVE  Value(section, label) = figures[at]
  <2>1. (CHOOSE i \in 1 .. Len(Figures) :
            Figures[i].section = section /\ Figures[i].label = label) = at
    BY <1>1, NotificationPlaces
  <2>. QED BY <2>1 DEF Value
<1>2. /\ Figures[1].section = "summary" /\ Figures[1].label = "total"
      /\ Figures[2].section = "summary" /\ Figures[2].label = "PENDING"
      /\ Figures[3].section = "summary" /\ Figures[3].label = "DELIVERING"
      /\ Figures[4].section = "summary" /\ Figures[4].label = "SENT"
      /\ Figures[5].section = "summary" /\ Figures[5].label = "FAILED"
      /\ Figures[6].section = "status" /\ Figures[6].label = "PENDING"
      /\ Figures[7].section = "status" /\ Figures[7].label = "DELIVERING"
      /\ Figures[8].section = "status" /\ Figures[8].label = "SENT"
      /\ Figures[9].section = "status" /\ Figures[9].label = "FAILED"
      /\ Figures[10].section = "group" /\ Figures[10].label = "EMAIL"
      /\ Figures[11].section = "group" /\ Figures[11].label = "SMS"
      /\ Figures[12].section = "group" /\ Figures[12].label = "WEB"
      /\ Figures[13].section = "group" /\ Figures[13].label = "WEBHOOK"
  BY NotificationPlaces DEF IsFigure
<1>3. Value("summary", "total") = figures[1]
  BY <1>1, <1>2
<1>4. Value("status", "PENDING") = figures[6] /\ Value("status", "DELIVERING") = figures[7]
  BY <1>1, <1>2
<1>5. Value("status", "SENT") = figures[8] /\ Value("status", "FAILED") = figures[9]
  BY <1>1, <1>2
<1>6. Value("group", "EMAIL") = figures[10] /\ Value("group", "SMS") = figures[11]
  BY <1>1, <1>2
<1>7. Value("group", "WEB") = figures[12] /\ Value("group", "WEBHOOK") = figures[13]
  BY <1>1, <1>2
<1>. QED BY <1>3, <1>4, <1>5, <1>6, <1>7

\* The rows of some groups and statuses, and what a figure is or would be by now.
Matched(groups, statuses) ==
    {id \in DOMAIN listed : listed[id].group \in groups /\ listed[id].status \in statuses}

Estimate(i) ==
    IF i <= Len(figures) THEN figures[i]
    ELSE Cardinality(Matched(Figures[i].groups, Figures[i].statuses))

CountTypes ==
    /\ subject \in {"alerts", "notifications"}
    /\ IsFiniteSet(DOMAIN listed)
    /\ listed \in [DOMAIN listed -> [group : Groups, status : AllOf(subject)]]
    /\ figures \in Seq(Nat) /\ Len(figures) <= Len(Figures)
    /\ changes \in Nat

\* The figures agree with each other, but for as many rows as have changed, from the
\* first query on: those that are not counted yet are what they would be by now.
AlertsBalanced ==
    /\ Differ(Estimate(1), Estimate(8) + Estimate(9) + Estimate(10) + Estimate(11))
    /\ Differ(Estimate(1), Estimate(12) + Estimate(13) + Estimate(14) + Estimate(15))
    /\ Differ(Estimate(2), Estimate(12) + Estimate(13))
    /\ Differ(Estimate(1), Estimate(2) + Estimate(14) + Estimate(15))
    /\ Estimate(7) <= Estimate(3) + changes

NotificationsBalanced ==
    /\ Differ(Estimate(1), Estimate(6) + Estimate(7) + Estimate(8) + Estimate(9))
    /\ Differ(Estimate(1), Estimate(10) + Estimate(11) + Estimate(12) + Estimate(13))

CountInv ==
    /\ CountTypes
    /\ subject = "alerts" => AlertsBalanced
    /\ subject = "notifications" => NotificationsBalanced

\* There is a finite number of rows.
LEMMA MatchedFinite ==
    ASSUME IsFiniteSet(DOMAIN listed), NEW groups, NEW statuses
    PROVE  /\ IsFiniteSet(Matched(groups, statuses))
           /\ Cardinality(Matched(groups, statuses)) \in Nat
<1>1. Matched(groups, statuses) \subseteq DOMAIN listed
  BY DEF Matched
<1>2. IsFiniteSet(Matched(groups, statuses))
  BY <1>1, FS_Subset
<1>. QED BY <1>2, FS_CardinalityType

LEMMA EstimateTypes ==
    ASSUME CountTypes, NEW i \in 1 .. Len(Figures) PROVE Estimate(i) \in Nat
<1>1. CASE i <= Len(figures)
  <2>1. figures[i] \in Nat
    BY <1>1, ElementOfSeq, LenProperties DEF CountTypes
  <2>. QED BY <1>1, <2>1 DEF Estimate
<1>2. CASE ~(i <= Len(figures))
  <2>1. Cardinality(Matched(Figures[i].groups, Figures[i].statuses)) \in Nat
    BY MatchedFinite DEF CountTypes
  <2>. QED BY <1>2, <2>1 DEF Estimate
<1>. QED BY <1>1, <1>2

\* Sets of rows that have none in common.
LEMMA TwoParts ==
    ASSUME NEW A, NEW B, IsFiniteSet(A), IsFiniteSet(B), A \cap B = {}
    PROVE  /\ IsFiniteSet(A \cup B)
           /\ Cardinality(A \cup B) = Cardinality(A) + Cardinality(B)
<1>1. Cardinality(A) \in Nat /\ Cardinality(B) \in Nat /\ Cardinality(A \cap B) = 0
  BY FS_CardinalityType, FS_EmptySet
<1>2. /\ IsFiniteSet(A \cup B)
      /\ Cardinality(A \cup B) = Cardinality(A) + Cardinality(B) - Cardinality(A \cap B)
  BY FS_Union
<1>. QED BY <1>1, <1>2

LEMMA FourParts ==
    ASSUME NEW A, NEW B, NEW C, NEW D, IsFiniteSet(A), IsFiniteSet(B), IsFiniteSet(C),
           IsFiniteSet(D), A \cap B = {}, (A \cup B) \cap C = {}, (A \cup B \cup C) \cap D = {}
    PROVE  Cardinality(A \cup B \cup C \cup D)
               = Cardinality(A) + Cardinality(B) + Cardinality(C) + Cardinality(D)
<1>1. IsFiniteSet(A \cup B) /\ Cardinality(A \cup B) = Cardinality(A) + Cardinality(B)
  BY TwoParts
<1>2. /\ IsFiniteSet(A \cup B \cup C)
      /\ Cardinality(A \cup B \cup C) = Cardinality(A \cup B) + Cardinality(C)
  BY <1>1, TwoParts
<1>3. Cardinality(A \cup B \cup C \cup D) = Cardinality(A \cup B \cup C) + Cardinality(D)
  BY <1>2, TwoParts
<1>. QED BY <1>1, <1>2, <1>3

Distinct(a, b, c, d) == a # b /\ a # c /\ a # d /\ b # c /\ b # d /\ c # d

\* Rows that differ in status, or in group, are counted by one figure each.
LEMMA StatusesPart ==
    ASSUME IsFiniteSet(DOMAIN listed), NEW groups, NEW a, NEW b, NEW c, NEW d,
           Distinct(a, b, c, d)
    PROVE  Cardinality(Matched(groups, {a, b, c, d}))
               = Cardinality(Matched(groups, {a})) + Cardinality(Matched(groups, {b}))
                 + Cardinality(Matched(groups, {c})) + Cardinality(Matched(groups, {d}))
<1>. DEFINE A == Matched(groups, {a})
            B == Matched(groups, {b})
            C == Matched(groups, {c})
            D == Matched(groups, {d})
<1>1. Matched(groups, {a, b, c, d}) = A \cup B \cup C \cup D
  BY DEF Matched
<1>2. A \cap B = {} /\ (A \cup B) \cap C = {} /\ (A \cup B \cup C) \cap D = {}
  BY DEF Matched, Distinct
<1>3. IsFiniteSet(A) /\ IsFiniteSet(B) /\ IsFiniteSet(C) /\ IsFiniteSet(D)
  BY MatchedFinite
<1>. HIDE DEF A, B, C, D
<1>4. Cardinality(A \cup B \cup C \cup D)
          = Cardinality(A) + Cardinality(B) + Cardinality(C) + Cardinality(D)
  BY <1>2, <1>3, FourParts
<1>. QED BY <1>1, <1>4 DEF A, B, C, D

LEMMA TwoStatuses ==
    ASSUME IsFiniteSet(DOMAIN listed), NEW groups, NEW a, NEW b, a # b
    PROVE  Cardinality(Matched(groups, {a, b}))
               = Cardinality(Matched(groups, {a})) + Cardinality(Matched(groups, {b}))
<1>. DEFINE A == Matched(groups, {a})
            B == Matched(groups, {b})
<1>1. Matched(groups, {a, b}) = A \cup B /\ A \cap B = {}
  BY DEF Matched
<1>2. IsFiniteSet(A) /\ IsFiniteSet(B)
  BY MatchedFinite
<1>. HIDE DEF A, B
<1>3. Cardinality(A \cup B) = Cardinality(A) + Cardinality(B)
  BY <1>1, <1>2, TwoParts
<1>. QED BY <1>1, <1>3 DEF A, B

LEMMA GroupsPart ==
    ASSUME IsFiniteSet(DOMAIN listed), NEW statuses, NEW a, NEW b, NEW c, NEW d,
           Distinct(a, b, c, d)
    PROVE  Cardinality(Matched({a, b, c, d}, statuses))
               = Cardinality(Matched({a}, statuses)) + Cardinality(Matched({b}, statuses))
                 + Cardinality(Matched({c}, statuses)) + Cardinality(Matched({d}, statuses))
<1>. DEFINE A == Matched({a}, statuses)
            B == Matched({b}, statuses)
            C == Matched({c}, statuses)
            D == Matched({d}, statuses)
<1>1. Matched({a, b, c, d}, statuses) = A \cup B \cup C \cup D
  BY DEF Matched
<1>2. A \cap B = {} /\ (A \cup B) \cap C = {} /\ (A \cup B \cup C) \cap D = {}
  BY DEF Matched, Distinct
<1>3. IsFiniteSet(A) /\ IsFiniteSet(B) /\ IsFiniteSet(C) /\ IsFiniteSet(D)
  BY MatchedFinite
<1>. HIDE DEF A, B, C, D
<1>4. Cardinality(A \cup B \cup C \cup D)
          = Cardinality(A) + Cardinality(B) + Cardinality(C) + Cardinality(D)
  BY <1>2, <1>3, FourParts
<1>. QED BY <1>1, <1>4 DEF A, B, C, D

LEMMA CountBegins == ContentsAssumption /\ CountInit => CountInv
<1>. SUFFICES ASSUME ContentsAssumption, CountInit PROVE CountInv
  OBVIOUS
<1>1. subject \in {"alerts", "notifications"}
  BY DEF CountInit, Statuses
<1>2. PICK n \in 0 .. MaxListed : listed \in [1 .. n -> [group : Groups, status : AllOf(subject)]]
  BY DEF CountInit
<1>3. n \in Nat /\ DOMAIN listed = 1 .. n
  BY <1>2 DEF ContentsAssumption
<1>4. IsFiniteSet(DOMAIN listed)
  BY <1>3, FS_Interval
<1>5. figures = <<>> /\ figures \in Seq(Nat) /\ Len(figures) = 0 /\ changes = 0
  BY EmptySeq DEF CountInit
<1>6. Len(Figures) \in Nat
  BY <1>1, AlertPlaces, NotificationPlaces
<1>7. CountTypes
  BY <1>1, <1>2, <1>3, <1>4, <1>5, <1>6 DEF CountTypes
<1>8. \A i \in 1 .. 15 : Estimate(i) = Cardinality(Matched(Figures[i].groups, Figures[i].statuses))
  BY <1>5 DEF Estimate
<1>9. \A i \in 1 .. Len(Figures) : Estimate(i) \in Nat
  BY <1>7, EstimateTypes
<1>10. \A a, b : a \in Nat /\ b = a => Differ(a, b)
  BY <1>5 DEF Differ
<1>11. ASSUME subject = "alerts" PROVE AlertsBalanced
  <2>. DEFINE M(groups, statuses) == Cardinality(Matched(groups, statuses))
              all == AllOf(subject)
  <2>1. /\ Figures[1].groups = Groups /\ Figures[1].statuses = all
        /\ Figures[2].groups = Groups /\ Figures[2].statuses = {"OPEN", "ACKNOWLEDGED"}
        /\ Figures[3].groups = {"CRITICAL"} /\ Figures[3].statuses = {"OPEN", "ACKNOWLEDGED"}
        /\ Figures[7].groups = {"CRITICAL"} /\ Figures[7].statuses = {"OPEN"}
        /\ Figures[8].groups = {"INFO"} /\ Figures[8].statuses = all
        /\ Figures[9].groups = {"WARNING"} /\ Figures[9].statuses = all
        /\ Figures[10].groups = {"CRITICAL"} /\ Figures[10].statuses = all
        /\ Figures[11].groups = {"EMERGENCY"} /\ Figures[11].statuses = all
        /\ Figures[12].groups = Groups /\ Figures[12].statuses = {"OPEN"}
        /\ Figures[13].groups = Groups /\ Figures[13].statuses = {"ACKNOWLEDGED"}
        /\ Figures[14].groups = Groups /\ Figures[14].statuses = {"RESOLVED"}
        /\ Figures[15].groups = Groups /\ Figures[15].statuses = {"SUPPRESSED"}
    BY <1>11, AlertPlaces DEF IsFigure
  <2>. HIDE DEF all
  <2>. DEFINE E(i) == Estimate(i) = M(Figures[i].groups, Figures[i].statuses)
  <2>2. E(1) /\ E(2) /\ E(3) /\ E(7) /\ E(8) /\ E(9) /\ E(10) /\ E(11) /\ E(12) /\ E(13)
        /\ E(14) /\ E(15)
    BY <1>8
  <2>3. /\ Estimate(1) = M(Groups, all)
        /\ Estimate(2) = M(Groups, {"OPEN", "ACKNOWLEDGED"})
        /\ Estimate(3) = M({"CRITICAL"}, {"OPEN", "ACKNOWLEDGED"})
        /\ Estimate(7) = M({"CRITICAL"}, {"OPEN"})
    BY <2>1, <2>2, Zenon
  <2>4. /\ Estimate(8) = M({"INFO"}, all) /\ Estimate(9) = M({"WARNING"}, all)
        /\ Estimate(10) = M({"CRITICAL"}, all) /\ Estimate(11) = M({"EMERGENCY"}, all)
    BY <2>1, <2>2, Zenon
  <2>5. /\ Estimate(12) = M(Groups, {"OPEN"}) /\ Estimate(13) = M(Groups, {"ACKNOWLEDGED"})
        /\ Estimate(14) = M(Groups, {"RESOLVED"}) /\ Estimate(15) = M(Groups, {"SUPPRESSED"})
    BY <2>1, <2>2, Zenon
  <2>6. /\ Distinct("OPEN", "ACKNOWLEDGED", "RESOLVED", "SUPPRESSED")
        /\ Distinct("INFO", "WARNING", "CRITICAL", "EMERGENCY")
    BY DEF Distinct
  <2>7. M(Groups, {"OPEN", "ACKNOWLEDGED", "RESOLVED", "SUPPRESSED"})
            = M(Groups, {"OPEN"}) + M(Groups, {"ACKNOWLEDGED"})
              + M(Groups, {"RESOLVED"}) + M(Groups, {"SUPPRESSED"})
    BY <1>4, <2>6, StatusesPart
  <2>8. M(Groups, {"OPEN", "ACKNOWLEDGED"}) = M(Groups, {"OPEN"}) + M(Groups, {"ACKNOWLEDGED"})
    BY <1>4, TwoStatuses
  <2>9. M({"INFO", "WARNING", "CRITICAL", "EMERGENCY"}, all)
            = M({"INFO"}, all) + M({"WARNING"}, all) + M({"CRITICAL"}, all)
              + M({"EMERGENCY"}, all)
    BY <1>4, <2>6, GroupsPart
  <2>10. Groups = {"INFO", "WARNING", "CRITICAL", "EMERGENCY"}
        /\ all = {"OPEN", "ACKNOWLEDGED", "RESOLVED", "SUPPRESSED"}
    BY <1>11, AlertPlaces DEF all
  <2>11. M({"CRITICAL"}, {"OPEN"}) <= M({"CRITICAL"}, {"OPEN", "ACKNOWLEDGED"})
    <3>1. Matched({"CRITICAL"}, {"OPEN"}) \subseteq
              Matched({"CRITICAL"}, {"OPEN", "ACKNOWLEDGED"})
      BY DEF Matched
    <3>. QED BY <1>4, <3>1, MatchedFinite, FS_Subset
  <2>. HIDE DEF M
  <2>12. Len(Figures) = 15
    BY <1>11, AlertPlaces
  <2>13. \A i \in 1 .. 15 : Estimate(i) \in Nat
    BY <1>9, <2>12
  <2>14. Differ(Estimate(1), Estimate(8) + Estimate(9) + Estimate(10) + Estimate(11))
    <3>1. Estimate(8) + Estimate(9) + Estimate(10) + Estimate(11) = Estimate(1)
      BY <2>3, <2>4, <2>9, <2>10
    <3>. QED BY <1>10, <2>13, <3>1
  <2>15. /\ Estimate(12) + Estimate(13) + Estimate(14) + Estimate(15) = Estimate(1)
         /\ Estimate(12) + Estimate(13) = Estimate(2)
    BY <2>3, <2>5, <2>7, <2>10, <2>8
  <2>16. Estimate(2) + Estimate(14) + Estimate(15) = Estimate(1)
    BY <2>13, <2>15
  <2>17. Estimate(7) <= Estimate(3) + changes
    BY <1>5, <2>3, <2>11, <2>13
  <2>. QED BY <1>10, <2>13, <2>14, <2>15, <2>16, <2>17 DEF AlertsBalanced
<1>12. ASSUME subject = "notifications" PROVE NotificationsBalanced
  <2>. DEFINE M(groups, statuses) == Cardinality(Matched(groups, statuses))
              all == AllOf(subject)
  <2>1. /\ Figures[1].groups = Groups /\ Figures[1].statuses = all
        /\ Figures[6].groups = Groups /\ Figures[6].statuses = {"PENDING"}
        /\ Figures[7].groups = Groups /\ Figures[7].statuses = {"DELIVERING"}
        /\ Figures[8].groups = Groups /\ Figures[8].statuses = {"SENT"}
        /\ Figures[9].groups = Groups /\ Figures[9].statuses = {"FAILED"}
        /\ Figures[10].groups = {"EMAIL"} /\ Figures[10].statuses = all
        /\ Figures[11].groups = {"SMS"} /\ Figures[11].statuses = all
        /\ Figures[12].groups = {"WEB"} /\ Figures[12].statuses = all
        /\ Figures[13].groups = {"WEBHOOK"} /\ Figures[13].statuses = all
    BY <1>12, NotificationPlaces DEF IsFigure
  <2>. HIDE DEF all
  <2>. DEFINE E(i) == Estimate(i) = M(Figures[i].groups, Figures[i].statuses)
  <2>2. E(1) /\ E(6) /\ E(7) /\ E(8) /\ E(9) /\ E(10) /\ E(11) /\ E(12) /\ E(13)
    BY <1>8
  <2>3. Estimate(1) = M(Groups, all)
    BY <2>1, <2>2, Zenon
  <2>4. /\ Estimate(6) = M(Groups, {"PENDING"}) /\ Estimate(7) = M(Groups, {"DELIVERING"})
        /\ Estimate(8) = M(Groups, {"SENT"}) /\ Estimate(9) = M(Groups, {"FAILED"})
    BY <2>1, <2>2, Zenon
  <2>5. /\ Estimate(10) = M({"EMAIL"}, all) /\ Estimate(11) = M({"SMS"}, all)
        /\ Estimate(12) = M({"WEB"}, all) /\ Estimate(13) = M({"WEBHOOK"}, all)
    BY <2>1, <2>2, Zenon
  <2>6. Distinct("PENDING", "DELIVERING", "SENT", "FAILED")
    BY DEF Distinct
  <2>7. Distinct("EMAIL", "SMS", "WEB", "WEBHOOK")
    BY DEF Distinct
  <2>8. M(Groups, {"PENDING", "DELIVERING", "SENT", "FAILED"})
            = M(Groups, {"PENDING"}) + M(Groups, {"DELIVERING"})
              + M(Groups, {"SENT"}) + M(Groups, {"FAILED"})
    BY <1>4, <2>6, StatusesPart
  <2>9. M({"EMAIL", "SMS", "WEB", "WEBHOOK"}, all)
            = M({"EMAIL"}, all) + M({"SMS"}, all) + M({"WEB"}, all) + M({"WEBHOOK"}, all)
    BY <1>4, <2>7, GroupsPart
  <2>10. Groups = {"EMAIL", "SMS", "WEB", "WEBHOOK"}
        /\ all = {"PENDING", "DELIVERING", "SENT", "FAILED"}
    BY <1>12, NotificationPlaces DEF all
  <2>. HIDE DEF M
  <2>11. Estimate(1) \in Nat
    <3>1. Len(Figures) = 13
      BY <1>12, NotificationPlaces
    <3>. QED BY <1>9, <3>1
  <2>12. Estimate(6) + Estimate(7) + Estimate(8) + Estimate(9) = Estimate(1)
    BY <2>3, <2>4, <2>8, <2>10
  <2>13. Estimate(10) + Estimate(11) + Estimate(12) + Estimate(13) = Estimate(1)
    BY <2>3, <2>5, <2>9, <2>10
  <2>. QED BY <1>10, <2>11, <2>12, <2>13 DEF NotificationsBalanced
<1>. QED BY <1>7, <1>11, <1>12 DEF CountInv

\* The figures themselves do not change.
LEMMA SameFigures ==
    ASSUME subject' = subject PROVE Figures' = Figures /\ Groups' = Groups
BY DEF Figures, AlertFigures, NotificationFigures, Groups, PerStatus, PerGroup

\* A query makes a figure what it would have been.
LEMMA CountKeeps ==
    ASSUME CountTypes, Count
    PROVE  CountTypes' /\ \A i \in 1 .. Len(Figures) : Estimate(i)' = Estimate(i)
<1>. DEFINE k == Len(figures)
            f == Figures[k + 1]
            n == Cardinality(Matched(f.groups, f.statuses))
<1>1. k \in Nat /\ k < Len(Figures) /\ Len(Figures) \in Nat
  <2>1. Len(Figures) \in Nat
    BY AlertPlaces, NotificationPlaces DEF CountTypes
  <2>. QED BY <2>1, LenProperties DEF CountTypes, Count
<1>2. subject' = subject /\ listed' = listed /\ changes' = changes
  BY DEF Count
<1>3. Figures' = Figures /\ Groups' = Groups
  BY <1>2, SameFigures
<1>4. figures' = Append(figures, n)
  BY DEF Count, Matched
<1>5. n \in Nat
  BY MatchedFinite DEF CountTypes
<1>6. /\ figures' \in Seq(Nat) /\ Len(figures') = k + 1
      /\ figures'[k + 1] = n /\ \A i \in 1 .. k : figures'[i] = figures[i]
  <2>. HIDE DEF n
  <2>1. figures \in Seq(Nat)
    BY DEF CountTypes
  <2>. QED BY <1>4, <1>5, <2>1, AppendProperties
<1>7. \A i : Matched(Figures[i].groups, Figures[i].statuses)'
                = Matched(Figures[i].groups, Figures[i].statuses)
  BY <1>2, <1>3 DEF Matched
<1>8. CountTypes'
  BY <1>1, <1>2, <1>3, <1>6 DEF CountTypes, AllOf
<1>9. ASSUME NEW i \in 1 .. Len(Figures) PROVE Estimate(i)' = Estimate(i)
  <2>1. Estimate(i)' = IF i <= k + 1 THEN figures'[i]
                       ELSE Cardinality(Matched(Figures[i].groups, Figures[i].statuses))
    BY <1>6, <1>7 DEF Estimate
  <2>2. CASE i <= k
    BY <1>1, <1>6, <2>1, <2>2 DEF Estimate
  <2>3. CASE i = k + 1
    BY <1>1, <1>6, <2>1, <2>3 DEF Estimate
  <2>4. CASE i > k + 1
    BY <1>1, <2>1, <2>4 DEF Estimate
  <2>. QED BY <1>1, <2>2, <2>3, <2>4
<1>. QED BY <1>8, <1>9

\* Whether a row of some group and status is counted by a figure; a row that was not
\* there has no status.
NoStatus == "none"

Counted(i, group, status) ==
    IF status # NoStatus /\ group \in Figures[i].groups /\ status \in Figures[i].statuses
    THEN 1 ELSE 0

\* A change of a row moves the figures that are not counted yet, each by one at most.
LEMMA ChangeMoves ==
    ASSUME CountTypes, Change
    PROVE  /\ CountTypes' /\ changes' = changes + 1 /\ Len(figures) >= 1
           /\ \E group \in Groups, status \in AllOf(subject),
                 old \in AllOf(subject) \cup {NoStatus} :
                 \A i \in 1 .. Len(Figures) :
                    Estimate(i)' = IF i <= Len(figures) THEN Estimate(i)
                                   ELSE Estimate(i) + Counted(i, group, status)
                                                    - Counted(i, group, old)
<1>1. subject' = subject /\ figures' = figures /\ changes' = changes + 1
      /\ Len(figures) \in 1 .. Len(Figures) - 1
  BY DEF Change
<1>2. Figures' = Figures /\ Groups' = Groups /\ AllOf(subject)' = AllOf(subject)
  BY <1>1, SameFigures DEF AllOf
<1>3. Len(Figures) \in Nat /\ Len(figures) \in Nat
  <2>1. Len(Figures) \in Nat
    BY AlertPlaces, NotificationPlaces DEF CountTypes
  <2>. QED BY <2>1, LenProperties DEF CountTypes
<1>4. NoStatus \notin AllOf(subject)
  <2>1. CASE subject = "alerts"
    <3>1. AllOf(subject) = {"OPEN", "ACKNOWLEDGED", "RESOLVED", "SUPPRESSED"}
      BY <2>1, AlertPlaces
    <3>. QED BY <3>1 DEF NoStatus
  <2>2. CASE subject = "notifications"
    <3>1. AllOf(subject) = {"PENDING", "DELIVERING", "SENT", "FAILED"}
      BY <2>2, NotificationPlaces
    <3>. QED BY <3>1 DEF NoStatus
  <2>. QED BY <2>1, <2>2 DEF CountTypes
<1>5. PICK id \in DOMAIN listed \cup {Cardinality(DOMAIN listed) + 1}, group \in Groups,
           status \in AllOf(subject) :
          /\ id \in DOMAIN listed => listed[id].group = group
          /\ listed' = [i \in DOMAIN listed \cup {id} |->
                           IF i = id THEN [group |-> group, status |-> status] ELSE listed[i]]
  BY Zenon DEF Change
<1>. DEFINE old == IF id \in DOMAIN listed THEN listed[id].status ELSE NoStatus
<1>6. old \in AllOf(subject) \cup {NoStatus}
  BY DEF CountTypes
<1>7. IsFiniteSet(DOMAIN listed) /\ IsFiniteSet(DOMAIN listed')
  BY <1>5, FS_AddElement DEF CountTypes
<1>8. listed' \in [DOMAIN listed' -> [group : Groups, status : AllOf(subject)]]
  BY <1>5 DEF CountTypes
<1>9. CountTypes'
  BY <1>1, <1>2, <1>3, <1>7, <1>8 DEF CountTypes
<1>10. ASSUME NEW i \in 1 .. Len(Figures), ~(i <= Len(figures))
       PROVE  Estimate(i)' = Estimate(i) + Counted(i, group, status) - Counted(i, group, old)
  <2>. DEFINE groups == Figures[i].groups
              statuses == Figures[i].statuses
              before == Matched(groups, statuses)
              rest == before \ {id}
              after == {n \in DOMAIN listed' :
                           listed'[n].group \in groups /\ listed'[n].status \in statuses}
  <2>1. Estimate(i) = Cardinality(before)
    BY <1>10 DEF Estimate
  <2>2. Estimate(i)' = Cardinality(after)
    BY <1>1, <1>2, <1>10 DEF Estimate, Matched
  <2>3. IsFiniteSet(before) /\ Cardinality(before) \in Nat
    BY <1>7, MatchedFinite
  <2>4. id \in before <=> Counted(i, group, old) = 1
    BY <1>4, <1>5, <1>6 DEF Matched, Counted, CountTypes
  <2>5. after = IF Counted(i, group, status) = 1 THEN rest \cup {id} ELSE rest
    <3>1. ASSUME NEW n PROVE n \in after <=>
              \/ n \in before /\ n # id
              \/ n = id /\ group \in groups /\ status \in statuses
      BY <1>5 DEF Matched
    <3>2. Counted(i, group, status) = 1 <=> group \in groups /\ status \in statuses
      BY <1>4 DEF Counted
    <3>. HIDE DEF after, before, groups, statuses
    <3>. QED BY <3>1, <3>2
  <2>6. Counted(i, group, status) \in {0, 1} /\ Counted(i, group, old) \in {0, 1}
    BY DEF Counted
  <2>. HIDE DEF after, before, old, groups, statuses
  <2>7. IsFiniteSet(rest) /\ Cardinality(rest) = Cardinality(before) - Counted(i, group, old)
    <3>1. /\ IsFiniteSet(rest)
          /\ Cardinality(rest) = IF id \in before THEN Cardinality(before) - 1
                                 ELSE Cardinality(before)
      BY <2>3, FS_RemoveElement
    <3>. QED BY <2>3, <2>4, <2>6, <3>1
  <2>8. Cardinality(rest \cup {id}) = Cardinality(rest) + 1
    BY <2>7, FS_AddElement
  <2>9. Cardinality(rest) \in Nat
    BY <2>7, FS_CardinalityType
  <2>10. Cardinality(after) = Cardinality(rest) + Counted(i, group, status)
    BY <2>5, <2>6, <2>8, <2>9
  <2>. HIDE DEF rest
  <2>. QED BY <2>1, <2>2, <2>3, <2>6, <2>7, <2>10
<1>11. ASSUME NEW i \in 1 .. Len(Figures), i <= Len(figures)
       PROVE  Estimate(i)' = Estimate(i)
  BY <1>1, <1>11 DEF Estimate
<1>. HIDE DEF old
<1>. QED BY <1>1, <1>6, <1>9, <1>10, <1>11

\* Which figures of a summary of alerts count a row.
LEMMA AlertCounted ==
    ASSUME subject = "alerts", NEW group \in Groups,
           NEW status \in AllOf(subject) \cup {NoStatus}
    PROVE  /\ \A i \in {1, 2, 3, 7, 8, 9, 10, 11, 12, 13, 14, 15} :
                 Counted(i, group, status) \in {0, 1}
           /\ Counted(1, group, status) = 0 <=> status = NoStatus
           /\ Counted(2, group, status) = 1 <=> status \in {"OPEN", "ACKNOWLEDGED"}
           /\ Counted(7, group, status) = 1 => Counted(3, group, status) = 1
           /\ Counted(8, group, status) = 1 <=> status # NoStatus /\ group = "INFO"
           /\ Counted(9, group, status) = 1 <=> status # NoStatus /\ group = "WARNING"
           /\ Counted(10, group, status) = 1 <=> status # NoStatus /\ group = "CRITICAL"
           /\ Counted(11, group, status) = 1 <=> status # NoStatus /\ group = "EMERGENCY"
           /\ Counted(12, group, status) = 1 <=> status = "OPEN"
           /\ Counted(13, group, status) = 1 <=> status = "ACKNOWLEDGED"
           /\ Counted(14, group, status) = 1 <=> status = "RESOLVED"
           /\ Counted(15, group, status) = 1 <=> status = "SUPPRESSED"
           /\ status \in {"OPEN", "ACKNOWLEDGED", "RESOLVED", "SUPPRESSED", NoStatus}
           /\ group \in {"INFO", "WARNING", "CRITICAL", "EMERGENCY"}
<1>1. /\ Groups = {"INFO", "WARNING", "CRITICAL", "EMERGENCY"}
      /\ AllOf(subject) = {"OPEN", "ACKNOWLEDGED", "RESOLVED", "SUPPRESSED"}
      /\ NoStatus \notin {"OPEN", "ACKNOWLEDGED", "RESOLVED", "SUPPRESSED"}
  BY AlertPlaces DEF NoStatus
<1>2. \A i : Counted(i, group, status) \in {0, 1}
  BY DEF Counted
<1>3. /\ Counted(1, group, status) = 0 <=> status = NoStatus
      /\ Counted(2, group, status) = 1 <=> status \in {"OPEN", "ACKNOWLEDGED"}
  <2>1. /\ Figures[1].groups = Groups /\ Figures[1].statuses = AllOf(subject)
        /\ Figures[2].groups = Groups /\ Figures[2].statuses = {"OPEN", "ACKNOWLEDGED"}
    BY AlertPlaces DEF IsFigure
  <2>. QED BY <1>1, <2>1 DEF Counted
<1>4. Counted(7, group, status) = 1 => Counted(3, group, status) = 1
  <2>1. /\ Figures[3].groups = {"CRITICAL"} /\ Figures[3].statuses = {"OPEN", "ACKNOWLEDGED"}
        /\ Figures[7].groups = {"CRITICAL"} /\ Figures[7].statuses = {"OPEN"}
    BY AlertPlaces DEF IsFigure
  <2>. QED BY <2>1 DEF Counted
<1>5. /\ Counted(8, group, status) = 1 <=> status # NoStatus /\ group = "INFO"
      /\ Counted(9, group, status) = 1 <=> status # NoStatus /\ group = "WARNING"
      /\ Counted(10, group, status) = 1 <=> status # NoStatus /\ group = "CRITICAL"
      /\ Counted(11, group, status) = 1 <=> status # NoStatus /\ group = "EMERGENCY"
  <2>1. /\ Figures[8].groups = {"INFO"} /\ Figures[8].statuses = AllOf(subject)
        /\ Figures[9].groups = {"WARNING"} /\ Figures[9].statuses = AllOf(subject)
        /\ Figures[10].groups = {"CRITICAL"} /\ Figures[10].statuses = AllOf(subject)
        /\ Figures[11].groups = {"EMERGENCY"} /\ Figures[11].statuses = AllOf(subject)
    BY AlertPlaces DEF IsFigure
  <2>. QED BY <1>1, <2>1 DEF Counted
<1>6. /\ Counted(12, group, status) = 1 <=> status = "OPEN"
      /\ Counted(13, group, status) = 1 <=> status = "ACKNOWLEDGED"
      /\ Counted(14, group, status) = 1 <=> status = "RESOLVED"
      /\ Counted(15, group, status) = 1 <=> status = "SUPPRESSED"
  <2>1. /\ Figures[12].groups = Groups /\ Figures[12].statuses = {"OPEN"}
        /\ Figures[13].groups = Groups /\ Figures[13].statuses = {"ACKNOWLEDGED"}
        /\ Figures[14].groups = Groups /\ Figures[14].statuses = {"RESOLVED"}
        /\ Figures[15].groups = Groups /\ Figures[15].statuses = {"SUPPRESSED"}
    BY AlertPlaces DEF IsFigure
  <2>. QED BY <1>1, <2>1 DEF Counted
<1>. QED BY <1>1, <1>2, <1>3, <1>4, <1>5, <1>6

\* The same of notifications.
LEMMA NotificationCounted ==
    ASSUME subject = "notifications", NEW group \in Groups,
           NEW status \in AllOf(subject) \cup {NoStatus}
    PROVE  /\ \A i \in {1, 6, 7, 8, 9, 10, 11, 12, 13} : Counted(i, group, status) \in {0, 1}
           /\ Counted(1, group, status) = 0 <=> status = NoStatus
           /\ Counted(6, group, status) = 1 <=> status = "PENDING"
           /\ Counted(7, group, status) = 1 <=> status = "DELIVERING"
           /\ Counted(8, group, status) = 1 <=> status = "SENT"
           /\ Counted(9, group, status) = 1 <=> status = "FAILED"
           /\ Counted(10, group, status) = 1 <=> status # NoStatus /\ group = "EMAIL"
           /\ Counted(11, group, status) = 1 <=> status # NoStatus /\ group = "SMS"
           /\ Counted(12, group, status) = 1 <=> status # NoStatus /\ group = "WEB"
           /\ Counted(13, group, status) = 1 <=> status # NoStatus /\ group = "WEBHOOK"
           /\ status \in {"PENDING", "DELIVERING", "SENT", "FAILED", NoStatus}
           /\ group \in {"EMAIL", "SMS", "WEB", "WEBHOOK"}
<1>1. /\ Groups = {"EMAIL", "SMS", "WEB", "WEBHOOK"}
      /\ AllOf(subject) = {"PENDING", "DELIVERING", "SENT", "FAILED"}
      /\ NoStatus \notin {"PENDING", "DELIVERING", "SENT", "FAILED"}
  BY NotificationPlaces DEF NoStatus
<1>2. \A i : Counted(i, group, status) \in {0, 1}
  BY DEF Counted
<1>3. Counted(1, group, status) = 0 <=> status = NoStatus
  <2>1. Figures[1].groups = Groups /\ Figures[1].statuses = AllOf(subject)
    BY NotificationPlaces DEF IsFigure
  <2>. QED BY <1>1, <2>1 DEF Counted
<1>4. /\ Counted(6, group, status) = 1 <=> status = "PENDING"
      /\ Counted(7, group, status) = 1 <=> status = "DELIVERING"
      /\ Counted(8, group, status) = 1 <=> status = "SENT"
      /\ Counted(9, group, status) = 1 <=> status = "FAILED"
  <2>1. /\ Figures[6].groups = Groups /\ Figures[6].statuses = {"PENDING"}
        /\ Figures[7].groups = Groups /\ Figures[7].statuses = {"DELIVERING"}
        /\ Figures[8].groups = Groups /\ Figures[8].statuses = {"SENT"}
        /\ Figures[9].groups = Groups /\ Figures[9].statuses = {"FAILED"}
    BY NotificationPlaces DEF IsFigure
  <2>. QED BY <1>1, <2>1 DEF Counted
<1>5. /\ Counted(10, group, status) = 1 <=> status # NoStatus /\ group = "EMAIL"
      /\ Counted(11, group, status) = 1 <=> status # NoStatus /\ group = "SMS"
      /\ Counted(12, group, status) = 1 <=> status # NoStatus /\ group = "WEB"
      /\ Counted(13, group, status) = 1 <=> status # NoStatus /\ group = "WEBHOOK"
  <2>1. /\ Figures[10].groups = {"EMAIL"} /\ Figures[10].statuses = AllOf(subject)
        /\ Figures[11].groups = {"SMS"} /\ Figures[11].statuses = AllOf(subject)
        /\ Figures[12].groups = {"WEB"} /\ Figures[12].statuses = AllOf(subject)
        /\ Figures[13].groups = {"WEBHOOK"} /\ Figures[13].statuses = AllOf(subject)
    BY NotificationPlaces DEF IsFigure
  <2>. QED BY <1>1, <2>1 DEF Counted
<1>. QED BY <1>1, <1>2, <1>3, <1>4, <1>5

\* A change leaves the figures of a summary of alerts balanced, by one row less.
LEMMA AlertsMove ==
    ASSUME CountTypes, Change, subject = "alerts", AlertsBalanced PROVE AlertsBalanced'
<1>. DEFINE k == Len(figures)
<1>1. changes \in Nat /\ changes' = changes + 1 /\ k \in Nat /\ k >= 1 /\ Len(Figures) = 15
  BY ChangeMoves, LenProperties, AlertPlaces DEF CountTypes
<1>2. \A i \in 1 .. 15 : Estimate(i) \in Nat
  BY <1>1, EstimateTypes
<1>3. PICK group \in Groups, status \in AllOf(subject), old \in AllOf(subject) \cup {NoStatus} :
          \A i \in 1 .. Len(Figures) :
              Estimate(i)' = IF i <= Len(figures) THEN Estimate(i)
                             ELSE Estimate(i) + Counted(i, group, status)
                                              - Counted(i, group, old)
  BY ChangeMoves
<1>. DEFINE c(i) == Counted(i, group, status)
            o(i) == Counted(i, group, old)
            moves(i) == Estimate(i)' = IF i <= k THEN Estimate(i)
                                       ELSE Estimate(i) + c(i) - o(i)
<1>4. /\ moves(1) /\ moves(2) /\ moves(3) /\ moves(7) /\ moves(8) /\ moves(9) /\ moves(10)
      /\ moves(11) /\ moves(12) /\ moves(13) /\ moves(14) /\ moves(15)
  BY <1>1, <1>3
<1>5. /\ Estimate(1) \in Nat /\ Estimate(2) \in Nat /\ Estimate(3) \in Nat /\ Estimate(7) \in Nat
      /\ Estimate(8) \in Nat /\ Estimate(9) \in Nat /\ Estimate(10) \in Nat
      /\ Estimate(11) \in Nat /\ Estimate(12) \in Nat /\ Estimate(13) \in Nat
      /\ Estimate(14) \in Nat /\ Estimate(15) \in Nat
  BY <1>2
<1>6. /\ c(1) = 1 /\ {c(2), c(3), c(7)} \subseteq {0, 1}
      /\ c(8) + c(9) + c(10) + c(11) = 1 /\ {c(8), c(9), c(10), c(11)} \subseteq {0, 1}
      /\ c(12) + c(13) + c(14) + c(15) = 1 /\ {c(12), c(13), c(14), c(15)} \subseteq {0, 1}
      /\ c(2) = c(12) + c(13) /\ c(7) <= c(3)
  <2>1. status # NoStatus
    BY AlertPlaces DEF NoStatus
  <2>. QED BY <2>1, AlertCounted
<1>7. /\ {o(1), o(2), o(3), o(7)} \subseteq {0, 1}
      /\ o(8) + o(9) + o(10) + o(11) = o(1) /\ {o(8), o(9), o(10), o(11)} \subseteq {0, 1}
      /\ o(12) + o(13) + o(14) + o(15) = o(1) /\ {o(12), o(13), o(14), o(15)} \subseteq {0, 1}
      /\ o(2) = o(12) + o(13) /\ o(7) <= o(3)
  <2>1. CASE old = NoStatus
    <3>1. NoStatus \notin {"OPEN", "ACKNOWLEDGED", "RESOLVED", "SUPPRESSED"}
      BY DEF NoStatus
    <3>. QED BY <2>1, <3>1, AlertCounted
  <2>2. CASE old # NoStatus
    BY <2>2, AlertCounted
  <2>. QED BY <2>1, <2>2
<1>8. o(8) <= c(8) /\ o(9) <= c(9) /\ o(10) <= c(10) /\ o(11) <= c(11)
  <2>1. status # NoStatus
    BY AlertPlaces DEF NoStatus
  <2>. QED BY <2>1, AlertCounted
<1>. HIDE DEF c, o, k
<1>9. Differ(Estimate(1), Estimate(8) + Estimate(9) + Estimate(10) + Estimate(11))'
  <2>1. Differ(Estimate(1), Estimate(8) + Estimate(9) + Estimate(10) + Estimate(11))
    BY DEF AlertsBalanced
  <2>. QED BY <1>1, <1>4, <1>5, <1>6, <1>7, <1>8, <2>1 DEF Differ
<1>10. Differ(Estimate(1), Estimate(12) + Estimate(13) + Estimate(14) + Estimate(15))'
  <2>1. Differ(Estimate(1), Estimate(12) + Estimate(13) + Estimate(14) + Estimate(15))
    BY DEF AlertsBalanced
  <2>. QED BY <1>1, <1>4, <1>5, <1>6, <1>7, <2>1 DEF Differ
<1>11. Differ(Estimate(2), Estimate(12) + Estimate(13))'
  <2>1. Differ(Estimate(2), Estimate(12) + Estimate(13))
    BY DEF AlertsBalanced
  <2>. QED BY <1>1, <1>4, <1>5, <1>6, <1>7, <2>1 DEF Differ
<1>12. Differ(Estimate(1), Estimate(2) + Estimate(14) + Estimate(15))'
  <2>1. Differ(Estimate(1), Estimate(2) + Estimate(14) + Estimate(15))
    BY DEF AlertsBalanced
  <2>. QED BY <1>1, <1>4, <1>5, <1>6, <1>7, <2>1 DEF Differ
<1>13. (Estimate(7) <= Estimate(3) + changes)'
  <2>1. Estimate(7) <= Estimate(3) + changes
    BY DEF AlertsBalanced
  <2>. QED BY <1>1, <1>4, <1>5, <1>6, <1>7, <2>1
<1>. QED BY <1>9, <1>10, <1>11, <1>12, <1>13 DEF AlertsBalanced

LEMMA NotificationsMove ==
    ASSUME CountTypes, Change, subject = "notifications", NotificationsBalanced
    PROVE  NotificationsBalanced'
<1>. DEFINE k == Len(figures)
<1>1. changes \in Nat /\ changes' = changes + 1 /\ k \in Nat /\ k >= 1 /\ Len(Figures) = 13
  BY ChangeMoves, LenProperties, NotificationPlaces DEF CountTypes
<1>2. \A i \in 1 .. 13 : Estimate(i) \in Nat
  BY <1>1, EstimateTypes
<1>3. PICK group \in Groups, status \in AllOf(subject), old \in AllOf(subject) \cup {NoStatus} :
          \A i \in 1 .. Len(Figures) :
              Estimate(i)' = IF i <= Len(figures) THEN Estimate(i)
                             ELSE Estimate(i) + Counted(i, group, status)
                                              - Counted(i, group, old)
  BY ChangeMoves
<1>. DEFINE c(i) == Counted(i, group, status)
            o(i) == Counted(i, group, old)
            moves(i) == Estimate(i)' = IF i <= k THEN Estimate(i)
                                       ELSE Estimate(i) + c(i) - o(i)
<1>4. /\ moves(1) /\ moves(6) /\ moves(7) /\ moves(8) /\ moves(9) /\ moves(10)
      /\ moves(11) /\ moves(12) /\ moves(13)
  BY <1>1, <1>3
<1>5. /\ Estimate(1) \in Nat /\ Estimate(6) \in Nat /\ Estimate(7) \in Nat /\ Estimate(8) \in Nat
      /\ Estimate(9) \in Nat /\ Estimate(10) \in Nat /\ Estimate(11) \in Nat
      /\ Estimate(12) \in Nat /\ Estimate(13) \in Nat
  BY <1>2
<1>6. /\ c(6) + c(7) + c(8) + c(9) = 1 /\ {c(6), c(7), c(8), c(9)} \subseteq {0, 1}
      /\ o(6) + o(7) + o(8) + o(9) = o(1) /\ {o(6), o(7), o(8), o(9)} \subseteq {0, 1}
      /\ c(1) = 1 /\ o(1) \in {0, 1}
  <2>1. status # NoStatus /\ NoStatus \notin {"PENDING", "DELIVERING", "SENT", "FAILED"}
    BY NotificationPlaces DEF NoStatus
  <2>2. /\ c(6) + c(7) + c(8) + c(9) = 1 /\ {c(6), c(7), c(8), c(9)} \subseteq {0, 1}
        /\ c(1) = 1
    BY <2>1, NotificationCounted
  <2>3. /\ o(6) + o(7) + o(8) + o(9) = o(1) /\ {o(6), o(7), o(8), o(9)} \subseteq {0, 1}
        /\ o(1) \in {0, 1}
    BY <2>1, NotificationCounted
  <2>. QED BY <2>2, <2>3
<1>7. /\ c(10) + c(11) + c(12) + c(13) = 1 /\ {c(10), c(11), c(12), c(13)} \subseteq {0, 1}
      /\ o(10) <= c(10) /\ o(11) <= c(11) /\ o(12) <= c(12) /\ o(13) <= c(13)
      /\ {o(10), o(11), o(12), o(13)} \subseteq {0, 1}
  <2>1. status # NoStatus
    BY NotificationPlaces DEF NoStatus
  <2>. QED BY <2>1, NotificationCounted
<1>. HIDE DEF c, o, k
<1>8. Differ(Estimate(1), Estimate(6) + Estimate(7) + Estimate(8) + Estimate(9))'
  <2>1. Differ(Estimate(1), Estimate(6) + Estimate(7) + Estimate(8) + Estimate(9))
    BY DEF NotificationsBalanced
  <2>. QED BY <1>1, <1>4, <1>5, <1>6, <2>1 DEF Differ
<1>9. Differ(Estimate(1), Estimate(10) + Estimate(11) + Estimate(12) + Estimate(13))'
  <2>1. Differ(Estimate(1), Estimate(10) + Estimate(11) + Estimate(12) + Estimate(13))
    BY DEF NotificationsBalanced
  <2>. QED BY <1>1, <1>4, <1>5, <1>6, <1>7, <2>1 DEF Differ
<1>. QED BY <1>8, <1>9 DEF NotificationsBalanced

LEMMA CountStays == CountInv /\ [CountNext]_countVars => CountInv'
<1>. SUFFICES ASSUME CountInv, [CountNext]_countVars PROVE CountInv'
  OBVIOUS
<1>1. CountTypes
  BY DEF CountInv
<1>2. CASE Count
  <2>1. subject' = subject /\ changes' = changes
    BY <1>2 DEF Count
  <2>2. CountTypes' /\ \A i \in 1 .. Len(Figures) : Estimate(i)' = Estimate(i)
    BY <1>1, <1>2, CountKeeps
  <2>3. ASSUME subject = "alerts" PROVE AlertsBalanced'
    <3>1. Len(Figures) = 15 /\ AlertsBalanced
      BY <2>3, AlertPlaces DEF CountInv
    <3>2. /\ Estimate(1)' = Estimate(1) /\ Estimate(2)' = Estimate(2)
          /\ Estimate(3)' = Estimate(3) /\ Estimate(7)' = Estimate(7)
          /\ Estimate(8)' = Estimate(8) /\ Estimate(9)' = Estimate(9)
          /\ Estimate(10)' = Estimate(10) /\ Estimate(11)' = Estimate(11)
          /\ Estimate(12)' = Estimate(12) /\ Estimate(13)' = Estimate(13)
          /\ Estimate(14)' = Estimate(14) /\ Estimate(15)' = Estimate(15)
      BY <2>2, <3>1
    <3>. QED BY <2>1, <3>1, <3>2 DEF AlertsBalanced, Differ
  <2>4. ASSUME subject = "notifications" PROVE NotificationsBalanced'
    <3>1. Len(Figures) = 13 /\ NotificationsBalanced
      BY <2>4, NotificationPlaces DEF CountInv
    <3>2. /\ Estimate(1)' = Estimate(1) /\ Estimate(6)' = Estimate(6)
          /\ Estimate(7)' = Estimate(7) /\ Estimate(8)' = Estimate(8)
          /\ Estimate(9)' = Estimate(9) /\ Estimate(10)' = Estimate(10)
          /\ Estimate(11)' = Estimate(11) /\ Estimate(12)' = Estimate(12)
          /\ Estimate(13)' = Estimate(13)
      BY <2>2, <3>1
    <3>. QED BY <2>1, <3>1, <3>2 DEF NotificationsBalanced, Differ
  <2>. QED BY <2>1, <2>2, <2>3, <2>4 DEF CountInv
<1>3. CASE Change
  <2>1. subject' = subject
    BY <1>3 DEF Change
  <2>2. CountTypes'
    BY <1>1, <1>3, ChangeMoves
  <2>3. subject = "alerts" => AlertsBalanced'
    BY <1>1, <1>3, AlertsMove DEF CountInv
  <2>4. subject = "notifications" => NotificationsBalanced'
    BY <1>1, <1>3, NotificationsMove DEF CountInv
  <2>. QED BY <2>1, <2>2, <2>3, <2>4 DEF CountInv
<1>4. CASE UNCHANGED countVars
  <2>1. subject' = subject /\ listed' = listed /\ figures' = figures /\ changes' = changes
    BY <1>4 DEF countVars
  <2>2. Figures' = Figures /\ Groups' = Groups
    BY <2>1, SameFigures
  <2>3. \A i : Estimate(i)' = Estimate(i)
    BY <2>1, <2>2 DEF Estimate, Matched
  <2>4. CountTypes'
    BY <1>1, <2>1, <2>2 DEF CountTypes, AllOf
  <2>5. AlertsBalanced => AlertsBalanced'
    BY <2>1, <2>3 DEF AlertsBalanced, Differ
  <2>6. NotificationsBalanced => NotificationsBalanced'
    BY <2>1, <2>3 DEF NotificationsBalanced, Differ
  <2>. QED BY <2>1, <2>4, <2>5, <2>6 DEF CountInv
<1>. QED BY <1>2, <1>3, <1>4 DEF CountNext

LEMMA CountAgrees == CountInv => SummaryAgrees
<1>. SUFFICES ASSUME CountInv, Len(figures) = Len(Figures) PROVE SummaryAgrees
  BY DEF SummaryAgrees
<1>1. CASE subject = "alerts"
  <2>1. \A i \in 1 .. 15 : Estimate(i) = figures[i]
    BY <1>1, AlertPlaces DEF Estimate
  <2>2. /\ Estimate(1) = figures[1] /\ Estimate(2) = figures[2] /\ Estimate(3) = figures[3]
        /\ Estimate(7) = figures[7] /\ Estimate(8) = figures[8] /\ Estimate(9) = figures[9]
        /\ Estimate(10) = figures[10] /\ Estimate(11) = figures[11]
        /\ Estimate(12) = figures[12] /\ Estimate(13) = figures[13]
        /\ Estimate(14) = figures[14] /\ Estimate(15) = figures[15]
    BY <2>1
  <2>3. AlertsBalanced
    BY <1>1 DEF CountInv
  <2>4. /\ Statuses[subject] = <<"OPEN", "ACKNOWLEDGED", "RESOLVED", "SUPPRESSED">>
        /\ GroupOrder[subject] = <<"INFO", "WARNING", "CRITICAL", "EMERGENCY">>
    BY <1>1 DEF Statuses, GroupOrder
  <2>5. /\ Added("status", Statuses[subject])
               = figures[12] + figures[13] + figures[14] + figures[15]
        /\ Added("group", GroupOrder[subject])
               = figures[8] + figures[9] + figures[10] + figures[11]
    BY <1>1, <2>4, AlertValues DEF Added
  <2>6. /\ Value("summary", "total") = figures[1] /\ Value("summary", "open_total") = figures[2]
        /\ Value("summary", "critical_open") = figures[3]
        /\ Value("summary", "unacknowledged_critical") = figures[7]
        /\ Value("status", "OPEN") = figures[12] /\ Value("status", "ACKNOWLEDGED") = figures[13]
        /\ Value("status", "RESOLVED") = figures[14]
        /\ Value("status", "SUPPRESSED") = figures[15]
    BY <1>1, AlertValues
  <2>. QED BY <2>2, <2>3, <2>5, <2>6 DEF AlertsBalanced, SummaryAgrees
<1>2. CASE subject = "notifications"
  <2>1. \A i \in 1 .. 13 : Estimate(i) = figures[i]
    BY <1>2, NotificationPlaces DEF Estimate
  <2>2. /\ Estimate(1) = figures[1] /\ Estimate(6) = figures[6] /\ Estimate(7) = figures[7]
        /\ Estimate(8) = figures[8] /\ Estimate(9) = figures[9] /\ Estimate(10) = figures[10]
        /\ Estimate(11) = figures[11] /\ Estimate(12) = figures[12]
        /\ Estimate(13) = figures[13]
    BY <2>1
  <2>3. NotificationsBalanced
    BY <1>2 DEF CountInv
  <2>4. /\ Statuses[subject] = <<"PENDING", "DELIVERING", "SENT", "FAILED">>
        /\ GroupOrder[subject] = <<"EMAIL", "SMS", "WEB", "WEBHOOK">>
    BY <1>2 DEF Statuses, GroupOrder
  <2>5. /\ Added("status", Statuses[subject])
               = figures[6] + figures[7] + figures[8] + figures[9]
        /\ Added("group", GroupOrder[subject])
               = figures[10] + figures[11] + figures[12] + figures[13]
        /\ Value("summary", "total") = figures[1]
    BY <1>2, <2>4, NotificationValues DEF Added
  <2>. QED BY <1>2, <2>2, <2>3, <2>5 DEF NotificationsBalanced, SummaryAgrees
<1>. QED BY <1>1, <1>2 DEF CountInv, CountTypes

\* _build_alert_summary_report and _build_notification_delivery_report: the figures of
\* a summary agree, but for as many rows as changed while they were counted.
THEOREM FiguresAgree ==
    ASSUME ContentsAssumption PROVE CountSpec => []SummaryAgrees
<1>1. CountInit => CountInv
  BY CountBegins
<1>. QED BY <1>1, CountStays, CountAgrees, PTL DEF CountSpec
=============================================================================
