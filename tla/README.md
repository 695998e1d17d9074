# A TLA+ development of the DCIM backend

The repository is a data-centre monitoring backend: Django and Django REST
framework over PostgreSQL, Celery workers and beat over Redis, collectors that
poll devices over SNMP and Modbus, and a receiver for SNMP traps. What can go
wrong in it is mostly about *several processes writing the same rows*: Celery
workers of six queues, beat, the API, and operators' management commands share
the database at READ COMMITTED, with row locks in some places and plain
read-modify-write in others. This directory models those protocols, checks them
with TLC and proves the central facts with TLAPS.

## The system's parts

| Component | State it keeps | Operations | Hard behaviour | What makes it correct |
|---|---|---|---|---|
| Notification delivery (`apps/notifications`) | `Notification.status`, `updated_at`, Celery messages | create and publish on commit, claim, send, save, retry, stale requeue, operator requeue/retry, mark read | crash between claim and save, sends slower than the stale cutoff, blind saves, lost publishes | one sender per row, SENT is final and true, duplicates only when a record is lost, nothing stranded |
| Alert engine (`apps/alerts/services/engine.py`, `views.py`) | `AlertEvent.status`, `AlertConditionState`, suppression windows, `AlertLog` | evaluate a reading, open/update/resolve, acknowledge, manual resolve, suppress, trap alerts | evaluations of one rule in parallel, API calls on rows read earlier, duration state | one active alert per rule and device, RESOLVED is final, the duration is respected |
| Alert notifications (`services/notifications.py`) | `Notification.dedupe_key` | recipients, dedupe, publish after commit | two creators of one key, a unique violation inside an open transaction, runs rolled back | everybody is told of every fact, nobody twice |
| Escalation (`services/escalation.py`) | `AlertEvent.metadata` | due check, record, notify | metadata read, changed and written back as a whole; the check stops at the first triggered policy | a policy that is recorded was announced |
| Rule-match cache (`services/cache.py`) | cached rule ids, a version per organization | get, fill, bump on commit | a fill racing an invalidation, a version lost or initialised twice, Redis down | a rule announced before a lookup began is in its answer |
| Polling scheduler (`collectors/scheduler`) | `next_poll_at` | find due polls, queue them, save the next time | death between queue and save, a poll that saved it meanwhile, operators' commands | nothing that is enabled stops being polled |
| Modbus collector and locks | cache locks with expiry, `status`, `consecutive_failures` | lock, poll, two updates, unlock | expiry during a poll, release by name, time limits, deaths between the updates | one poll per device; one per gateway while no lock expires; status and counter agree |
| SNMP collector | the same counters, no lock | poll, mark success with the readings | parallel polls of one device | a device that answers again is ONLINE again |
| Normalisation, telemetry writer | `LatestTelemetry` columns and quality | parse, scale, round, store | signed registers, scaling of booleans, texts, secrets under a new key | a number arrives in its metric's column as it was measured, or is BAD |
| Trap receiver, PAC alarms | traps, exact alerts, `occurrence_count` | process, confirm, open, update, resolve | traps lost, doubled, overtaken; two tasks at once | every trap is counted; alerts end up as the equipment is |
| Report jobs | `ReportJob.status`, the file | generate, retry, cancel, edit, worker run; select rows, count, render | cancel against a running worker, double generate, deletes of files; totals counted while rows change | a cancelled job is not completed, a download finds its file; a report holds the rows it was asked for and nobody else's |
| Report schedules | `next_run_at`, `last_run_at` | claim due, deliver, run now, edit | unlocked saves of rows read earlier | no time between two windows is lost and none claimed twice, but by a save of stale values |
| Deployment seeds (`scripts/`, `seed_*` commands) | OID mappings, trap mappings, alert rules | update or create, again after each release | operators' edits in between, two runs at once, missing device models | what is seeded is read as the table says |
| Access control | roles, resource grants | scope of a user | - | not modelled |
| Audit, inventory CRUD, dashboards | rows | insert, CRUD, read-only queries | none | not modelled |

Components call each other in one direction: collectors and traps write telemetry
and call the alert engine, which looks up its rules through the cache; the engine
and escalation create notifications inside their transaction; the commit publishes
a Celery task; workers deliver. Schedules create report jobs. Seeds write the
tables the collectors and the engine read. The API acts on alerts, rules,
notifications and reports at any moment.

| Modules | Checked in runs | Proofs |
|---|---|---|
| `NotificationDelivery`, `DeliveryPromise` (its abstract specification) | `delivery_prompt`, `delivery_hung_pool`, `alert_path` | `MCAlertPath_proofs` |
| `AlertRules` | `polling` | `AlertRules_proofs`, `MCPolling_proofs` |
| `AlertEngine` | `alerts_mixed`, `alerts_duplicate`, `alerts_late_ack`, `alerts_duration` | `AlertEngine_proofs` |
| `RuleMatchCache`, `RuleLookup` (its abstract specification) | `alert_path` | `MCAlertPath_proofs` |
| `TrapAlerts` | `alert_path` | `TrapAlerts_proofs`, `MCAlertPath_proofs` |
| `AlertNotices` | `alert_path` | `MCAlertPath_proofs` |
| `Polling` | `polling`, `polling_never_offline` | `MCPolling_proofs` |
| `Readings` | `polling` | `AlertRules_proofs`, `MCPolling_proofs` |
| `Seeds` | `polling` | `Seeds_proofs`, `MCPolling_proofs` |
| `ReportJob` | `reports_job`, `reports_edit` | `MCReportJob_proofs` |
| `ReportSchedule` | `reports_job`, `reports_schedule` | `MCReportJob_proofs` |
| `ReportContents` | `reports_job` | `ReportContents_proofs`, `MCReportJob_proofs` |

Three MC modules run more than one component: `MCAlertPath` the delivery, the rule
cache, traps and notices, `MCReportJob` jobs, schedules and contents, `MCPolling`
polls, readings with the rules that judge them, and seeds. A variable (`part`, or an input that is set) says which
one a behaviour is about; the others do not move in it, so that a run explores the
sum of the state spaces, not their product. This is how the code composes them,
too: they share no row except through the steps modelled as inputs (a trap task
finds a rule or not, a notice has a delivery queued, a delivery builds a job).
A module that is hosted this way states its assumption on its constants as a
definition (`ScheduleAssumption`), and the MC module assumes it of its instance
(`PartsAssumption`, `PlannedAssumption`, `ContentsAssumption`), so that TLC
evaluates it.

The proof modules have the same three layers. What a component promises by itself
is proved about its own specification, for all values of its constants. An MC
module's specification moves one part at a time, so each of its behaviours is one
of every part's specification (`PathOfParts`, `ReportsOfParts`), and the theorems
about the parts become theorems about the specification that the runs check
(`PathConverges`, `ReportsCoverWindows`, `ReportsAreRight` and so on). Where a
part's proofs are a module of their own, that module is instantiated beside the
part with the same parameters; the lemmas named `Same...` say that two instances of
one module with the same parameters say the same.

## NotificationDelivery

`NotificationDelivery.tla` models `apps/notifications/services/delivery.py`,
`tasks.py`, the two management commands and the read endpoints.

State. `status[n]` is the row's status (`"NONE"` before it is committed);
`stale` is the set of rows whose `updated_at` is ten minutes old or more, kept
for DELIVERING rows only because every save refreshes it; `committed` holds the
rows whose `on_commit` callback has not run; `tasks[n][r]` counts queued
messages of row `n` with `retries = r`; `worker[w]` is what a slot of
`notification-worker` is doing; `operator` is the command being run. `sends`,
`lost`, `attempts`, `mishap` are history variables that no guard reads.

Actions. A message is acknowledged when it is taken (`Take`), then the task runs
in steps that other processes may come between: `Claim` or `ClaimRefused` (one
transaction under the row lock), `DeliverOk` or `DeliverFails` (the provider; it
may have accepted a message and still raise), `SaveSent`, `SaveSentFails`,
`SaveFailed` (the except branch writes FAILED whatever the row says), `Retry` or
`GiveUp`. The requeue reads stale rows without a lock (`TakeRequeue`,
`OperatorRequeue`) and re-checks them under the lock (`RequeueRows`). `Crash` may
end a slot anywhere; `DispatchLost` loses a publish after the commit. Time is
`BecomeStale`: it may age a row that no worker holds, and a row held inside the
send of a channel in `SlowChannels`.

`SlowChannels` is the assumption that matters. SMS (`SMS_TIMEOUT_SECONDS`) and
webhooks carry a request timeout of seconds; `send_mail` has none, because
`EMAIL_TIMEOUT` is not set. The properties about `Prompt` rows hold for channels
whose sends, and the saves around them, end before the cutoff of ten minutes,
with the commands run at their default ages. An e-mail that hangs past the cutoff is
given to a second worker, which sends it too, and either may overwrite what the
other saves; the run `alert_path` checks what holds even then.

`DeliveryPromise.tla` is what this promises of a prompt row, without queues, retries,
commands and clocks: one worker at a time tries it, and only while it says DELIVERING;
SENT follows an acceptance by the provider and is final; any other acceptance is
forgotten by the worker that saw it, whether it then fails the row or dies; a requeue
frees only rows that nobody tries. `DeliveryPromised` maps the row's status, the
slots that hold it and `sends[n] > lost[n]` to it.

Left out: `deliver_pending_notifications` and `enqueue_delivery`, which nothing
calls; the options `--limit` (an instance has fewer rows than any limit);
deletion of rows (only a cascade from an organization deletes them); message
texts and the SMS wire format.

Runs (`MCNotificationDelivery.tla`; two slots as in `docker-compose.yml`):

| Run | Instance | Question |
|---|---|---|
| `delivery_prompt` | one SMS row, 2 retries, 1 command, fair | exclusion, accounting of duplicates, refinement of `DeliveryPromise` (SENT is final); does every row leave DELIVERING and settle |
| `alert_path` (`part = "delivery"`) | one EMAIL row, 1 retry, 2 commands | what still holds when a send outlasts the cutoff: SENT is true, nobody is abandoned |
| `delivery_hung_pool` | two EMAIL rows, fair | violation: hung sends occupy the slots the requeue task needs |

Bounds. `MaxRetries` is 3 in the code; 1 or 2 already gives a first attempt, a
retry and an exhausted budget, and the proofs hold for any value. `MaxOps` bounds
the operator's commands; one is enough to put a second task of a row next to a
retry or to requeue behind beat's back. Crashes need no bound: each consumes a
task or a requeue run.

Fairness. A live slot goes on with its task (`SlotProgress`, weak), except that a
send without a timeout need not end. The Redis list is first in, first out, so a
message is passed over only while no slot is free: strong fairness of `Take` and
`TakeRequeue`. Slots may die again and again, but not in every run of the requeue
task. Beat ticks, time passes, the callback runs or is lost.

### What is proved

In `MCAlertPath_proofs.tla`, for any rows, workers, channels and budgets,
from `ConstantsAssumption` alone:

* `TypeCorrect`: `Spec => []TypeOK`.
* `ClaimExcludes`: `Spec => []ExclusiveClaim`. `ExclusiveClaim` is not inductive
  (a held row might be PENDING and be claimed again); `ClaimInv` adds `HeldFresh`:
  a held prompt row is DELIVERING and not stale. The claim then refuses it, and
  both requeues skip it. `ReleaseStep` covers the steps that only let go of a
  row, `RequeueStep` the two requeues.
* `SentFinal`: `Spec => SentIsFinal`, from `ClaimInv`: only a holder writes blindly.
  (No run lists it: `DeliveryPromised`, which the run checks, implies it, as no action of
  `DeliveryPromise` leaves SENT.)
* `DuplicatesExplained`: `Spec => []SendsAccounted`, row by row (`NextBalanced`).
* `DeliveryKeepsPromise`: `Spec => DeliveryPromised`, the refinement of
  `DeliveryPromise`. Its invariant is `ClaimInv`, `SendsAccounted` (by which the
  abstract `accepted` is `Accounted`) and `Born`: whatever a callback, a message, a
  slot or a command refers to has been created, so that no claim begins on a row
  that does not exist. `SlotPromises` maps each step of a slot, `PromiseRequeues` both
  requeues; a step that changes no row the promise sees is a stutter
  (`PromiseStutters`).
* `SentDelivered`: `Spec => []SentWasDelivered`, on every channel. A SENT row was
  accepted by the provider, and each of its attempts is one that began as a message
  (`CountedStep`, `NextTriesCounted`).
* `NoneAbandoned`: `Spec => []NotAbandoned`, on every channel. The argument is a
  covering one: for each row that is still to be sent, each step that takes away the
  one who would see to it (a task that is refused, a send that fails, a requeue that
  re-checks) leaves another (`TendedStays`, `TendedByOthers`) or is the crash, the
  lost publish or the last retry that the property names.

Only model-checked: the liveness properties, which are out of the prover's reach.

## AlertEngine: the alerts of one rule, device and metric

`AlertEngine.tla` models `evaluate_latest` (`apps/alerts/services/engine.py`)
for one key, with the collectors that call it and the REST endpoints that act on
the same rows.

| In the model | In the code |
|---|---|
| `status`, `Active` | `AlertEvent.status`; `_alert_scope_q` with `ACTIVE_ALERT_STATUSES` |
| `holder`, `condHolder`, `readingHolder` | PostgreSQL row locks of the alert, the condition state and the latest reading |
| `condState` | the `AlertConditionState` row: absent, younger than `duration_seconds`, older |
| `ev[e]` | the locals of one `evaluate_latest`: the reading, the snapshot of candidates, the locked alert, what the transaction is going to write |
| `user[u]` | an `acknowledge` or `resolve` request between `get_object` and `save` |
| `window`, `bad` | `_has_suppression`; the equipment itself |
| `opener`, `interrupted` | history: who opened an active alert (nobody, if a late save made it active again), whether an evaluation found the condition false since the condition row's `first_seen_at` |

An evaluation is `Sample`, the write of the reading (`SaveInTransaction` for an
SNMP poll, whose single outer transaction keeps the reading's row; `SaveReading`
and `FetchReading` for the others), `Select` (the snapshot), `LockAlert` /
`SkipAlert` / `FindNoAlert` (the locks and PostgreSQL's second look at the row),
one of the decisions of `_ensure_alert_for_true_condition` and
`_resolve_if_needed`, and `Commit`, when its writes become visible and its locks
end. `Die` is a worker killed or timed out in between; the database rolls back.
The model takes the isolation level (READ COMMITTED, the default no setting
changes) and autocommit (`ATOMIC_REQUESTS` is not set) from how the code uses
the database.

What holds:

- `OneActivePerLane` -- all SNMP polls together, and every other evaluator by
  itself, have at most one active alert that they opened. So the number of
  duplicates is bounded by the collectors that evaluate without the reading's
  lock, however often they run. It is proved for any number of evaluators,
  alerts and requests.
- `EngineRespectsTerminal` -- the lock with its second look works: the engine
  never writes an alert that ended after it was selected. It is proved, and so is
  what it rests on: an alert that an evaluation holds is active (`LockExcludes`).
- `QuietEventually`, `RaisesEventually` -- what ended is cleared, what lasts is
  raised, in spite of duplicates, late samples and late API saves.

What does not (the runs that expect a violation):

- `SingleActive`: two evaluations outside the SNMP transaction both open.
- `AcknowledgesOpen`: a late acknowledgement revives an ended alert. It takes
  the engine's next evaluation of a normal reading to end it again.
- `DurationRespected`: resolving an alert leaves `first_seen_at` in place; a
  condition that comes back on the next poll opens at once.

| Run | Instance | States | Question |
|---|---|---|---|
| `alerts_mixed` | one SNMP poll, one confirmation, one user, rule with a duration, 2 flips, 1 call, 6 alerts, fair | 0.22 M | safety and liveness across both kinds of evaluators and the API |
| `alerts_duplicate`, `alerts_late_ack`, `alerts_duration` | one or two evaluators | < 5 K | the three divergences |

Bounds: `MaxFlips` (changes of the equipment or of the windows), `MaxCalls`,
`MaxDeaths` bound the surroundings; two flips are enough for an alarm that
comes and goes, or an alarm and a window. `MaxAlerts`
is large enough that no evaluation is ever stopped for want of an id: the runs
check for deadlock, and a smaller value makes TLC report one.

Fairness (`FairSpec`): beat schedules the polls, so an SNMP poll samples again
and again; a confirmation needs a trap and is promised nothing. A process that
has its sample goes on, and a waiter for a row lock gets it in the end
(PostgreSQL queues waiters), hence SF. Users are not fair: a request may hold
its stale object for ever.

Left out: the comparison and the choice of rules; values, messages,
occurrence counts, comments and logs; notifications (`AlertNotices`); the
rule-less alerts of traps and PAC confirmations (`TrapAlerts`); the lookup of the
rules (`RuleMatchCache`); the SUPPRESSED rows, of which every evaluation inside a
window writes another (`engine.py:620`) and which nothing reads back;
evaluations of other metrics in the same SNMP transaction, which only lengthen
it (a deadlock between polls that lock several rows in different orders is
therefore outside the model); first insertion of the reading's row.

### What is proved

`AlertEngine_proofs.tla` proves, for every number of evaluators, users, alerts
and every budget, `AlertTypes`, `LaneExclusion`, `LockExcludes` and
`TerminalRespected` (safety only; `FairSpec` implies `Spec`). They rest on
`EngineAssumption` alone. The invariant `IInv` adds to the three safety
properties what makes them inductive:

- `LocalOK`: an evaluator with an alert in its locals holds that row's lock,
  except one that is about to insert the row; an SNMP poll between its write of
  the reading and its commit holds the reading's row.
- `LooksRight`: whoever may still open an alert has every active alert of its
  lane among its candidates, and has run out of candidates before it opens. A
  commit in the same lane cannot add one behind its back: both would hold the
  reading's row.
- `DistinctNew`, `OpenerActive`: two inserts never take one id, and only
  active alerts have an opener, which is why an alert that a late
  acknowledgement revives is outside the claim.

Every step of an evaluator before its commit is an instance of `LocalStep`,
every step of a user or of the surroundings one of `OthersStep`; `Commit` and
`Die` have lemmas of their own. The two liveness properties are model-checked
only.
## RuleMatchCache and RuleLookup: the rules of a reading

`RuleMatchCache.tla` models `get_matching_rules` (`engine.py`), `cache.py`, and
the invalidation that `AlertRule.save` and `delete` leave to `on_commit`. There is
one reading, hence one key per namespace. A namespace is a version (uuid4, a
fresh number in the model) or the constant `"cache-unavailable"` that a failed
version lookup answers.

`RuleLookup.tla` is what that promises, with no cache in it: a lookup answers
rules that match *now*, and misses none of those that matched when it began and
had been announced by then. `LookupsComplete` says that the cache implements it:
the fill that races an invalidation goes to the old version's key; two processes
that initialise the version, a lost Redis, expiry and failures cost time, not
rules. The refinement is checked by the run `alert_path` and proved of it in
`MCAlertPath_proofs.tla` (`CacheRefines`): every step maps to a step of
`RuleLookup` or to a stutter, and the invariant behind it says that whatever a
namespace holds, or somebody is going to put there, contains the rules that a
lookup with this namespace must not miss.

What the promise leaves out, because the code does: a lookup whose version fails
uses the fallback namespace, which no invalidation reaches (it may be stale for
the 60 s of its expiry); the `get` and `set` of the list are not guarded, so that
Redis failing there ends the evaluation of the reading (`ListFails`); bulk writes
(`QuerySet.update`) do not invalidate at all and are not modelled, there are none
of `AlertRule` in the program.

## TrapAlerts: traps and the alerts without a rule

`TrapAlerts.tla` models `collectors/snmp_trap_receiver` and the rule-less part
of `engine.py` for one device and one key: `process_snmp_trap_task`,
`create_or_update_trap_alert` (a UPS), `process_pac_trap_alarm_confirmation` and
the exact alerts (a PAC). Traps come by UDP and a queue and are lost, doubled or
overtaken; the confirmation of a PAC's trap samples the alarm, writes the reading
and evaluates it, in a task of its own.

- `TrapsCounted`: `occurrence_count` is the number of traps processed for the
  alert. Proved (`EveryTrapCounted`): the row is locked from the reading of the
  count to its writing.
- `DoublesExplained`: the docstring promises one active alert and the code does
  not keep two tasks from creating one each; but then the second looked before
  the first was there. There is one more way: a request to acknowledge has read an
  alert as OPEN (`ReadToAcknowledge`, `views.py:99`), the alert is resolved, a trap
  opens another, and the request saves over the resolved one (`Acknowledge`,
  `engine.py:448`), which is active again. Proved (`DoubledAlertsExplained`), from an
  invariant about each task's snapshot: what was there when it looked and is no
  longer on its list is over, unless it has been revived (`revived`). A PAC gets no
  second OPEN alert that way, since the late save writes ACKNOWLEDGED.
- `TrapsConverge`: when all traps are dealt with, a PAC's alerts say what the
  equipment does, with the exceptions that the property names. They are what the
  code does not make up for: a lost RESTORED leaves the exact alert open (no poll
  evaluates exact alerts), a failed confirmation is not retried, two OPEN exact
  alerts lose only the newest to a restoration, a sample applied after a younger
  one was taken wins. Proved (`AlertsConverge`). The invariant `ConvInv` says who will
  still put things right: while no exception applies, either the latest reading saw
  the equipment as it is or a trap, a confirmation or a task that will sample again is
  on its way (`Due`); and either the alerts say what that reading saw, or a task is
  under way that will come across the alert (`Meets`). It holds only together with
  the fact that at most one exact alert is open.

Also to be seen in the model, and not forbidden by a property: confirmations look
for OPEN exact alerts only, so that an acknowledged one is never resolved by them;
an exact alert is opened although a rule exists when the rule had nothing to say
about the row that another task wrote.

## AlertNotices: who is told

`AlertNotices.tla` models `notifications.py` and `escalation.py` for one alert.
A request to acknowledge is late
here, too: it may make a resolved alert ACKNOWLEDGED again, while `resolvedAt` stays
set and the resolution remains a fact to be announced.
A notifier announces a fact (opened, resolved, escalated by a policy) to each
recipient: look for the dedupe key, create the row, queue its delivery after the
commit. Two of them may announce the same fact: two requests resolve at once, or
two runs of the escalation task read the metadata before either has recorded its
policy (the metadata is written back as a whole).

- `EveryoneTold`: unless a notifier broke off half-way, every recipient of a
  recorded fact has had a delivery queued or is on somebody's list. It is not
  obvious: at `notifications.py:178` the handler of the unique violation queries
  inside the transaction that has just failed, which raises, and the loser of
  the race drops the rest of its list. Proved (`AllTold`) from the
  invariant `ToldInv`: of two notifiers of one fact the one that created the
  latest row is *sure* to finish; the loser may go because that one is still
  there.
- `NobodyToldTwice`: at most one delivery is queued per key. Proved (`ToldOnce`):
  only the creator of a row queues it (`Owned`).

The task `check_alert_escalations_task` is in no beat schedule of the repository;
the model runs it at any moment. `run_alert_escalation_check` stops at the first
policy that is triggered, recorded or not, so that a recorded one may starve those
after it: `CheckEscalation` allows any order and promises no policy its turn
(`AlertRules` says which get one).

| Run | Instance | States | Question |
|---|---|---|---|
| `alert_path` | delivery as above; 2 evaluators, 1 writer, 1 rule, 3 versions, 1 fault; 2 slots, 3 alerts, 3 traps, 1 mishap; 2 recipients, 2 policies, 2 notifiers, 3 runs, 1 break | 1.25 M | what is said above of all four |

Bounds: two of each actor make each race; three versions are one that is lost,
one that is initialised twice and one invalidation; three traps are an alarm,
its end and a double; three runs with two notifiers let a third notifier start
while two overlap. The run switches the deadlock check off: a part whose bounds
are used up stops, and should.

## Polling: scheduler, locks and collectors

`Polling.tla` models `collectors/scheduler/tasks.py`, the Modbus and SNMP tasks
and services, and `locks.py`. Time is relative: `wait[d]` counts down to
`next_poll_at`, locks count down to their expiry, a poll has an age. The scheduler
is one process (`docker-compose.yml`: concurrency 1), the collectors have two
each. A Modbus poll adds the device's key, then the gateway's, and deletes both by
name; an SNMP poll takes no lock. `Raises` and `HardTimeLimit` are Celery's soft
and hard limits.

- `OnePollPerDevice`: no two polls of one Modbus device, although the lock expires
  and is deleted without a look at its owner. It rests on the settings
  `HardLimit < DeviceLockTimeout` (60 s, 120 s), which is the assumption. Proved.
- `GatewayExclusive`: polls share a gateway only after one has outlived the
  gateway's lock (which is shorter than the hard limit). Proved.
- `StatusAgrees`: a Modbus device's status and its count of failures agree except
  where a poll stopped between the two updates. Proved. (An SNMP device is OFFLINE
  by its `last_seen_at`, too, and may be marked by two polls at once.)
- `OnlineAgain`: devices that answer again for good become ONLINE for good,
  whatever deaths and failures left behind. Devices that share a gateway are
  excepted: the one that is always polled second finds the gateway busy, is
  SKIPPED, and waits for its next interval.
- `DownIsNoticed` is violated (`polling_never_offline`): a read that waits for a
  dead device until the hard limit is killed without any mark, and a soft limit
  that strikes inside a read is counted as that reading's failure and swallowed.

| Run | Instance | States | Question |
|---|---|---|---|
| `polling` | in turn: two Modbus devices of one gateway; one with faults and flips beside one without a poller; an SNMP device; the inputs of `Readings` and `AlertRules`, the scripts of `Seeds` | 0.15 M | all of the above |
| `polling_never_offline` | one SNMP device, no other failure | < 1 K | the divergence |

Bounds: a tick is 20 s. Gateway lock 1, soft limit 2, hard limit 3, interval 3,
device lock 6: the order of the real values. One task queued per device at a time,
one fault, one flip: enough for a death between any two statements, with a retry
or an operator's enqueue behind it. `next_poll_at` NULL is never due in the code;
such configurations are outside the model. `CHECK_DEADLOCK FALSE`, since the
inputs of `Readings` and `AlertRules` end where they start.

Fairness: time passes (WF `Tick`), beat posts the scheduler's task (WF
`Schedule`), a queued task is taken although workers are busy again and again (SF
`Start`, queues are first in, first out), a worker goes on (WF `Work`), but
nothing obliges a dead device to fail a read.

Proved in `MCPolling_proofs.tla`, for any devices, gateways, workers and timeouts in
that order: the three invariants above, from one inductive invariant about who
owns which key and how much of its time is left.

## Readings: from a raw value to a column

`Readings.tla` is pure: which mapping reads a metric (`Deduped`), registers
(`Decoded`), secrets (`AuthData`, `Encrypted`), parsing, scaling and rounding on
both collectors' paths, the column and the quality. `ReadingsRight` is checked for
each input of `MCPolling` as an initial state of the run `polling`: numbers are
hundredths, registers count to 16 instead of 65536 (all values of every width are
tried), lists of up to three mappings, all combinations of three secrets.

Its reference definitions are `Measured` (what an exact computation gives),
`Encoded` (what a device writes into its registers) and the secrets as they were
set. What they show besides: a Modbus mapping of an integer type cuts the fraction
off before a FLOAT metric sees it, a word and byte order in a mapping is never
read, under a new key SNMPv1/v2c refuses while v3 goes on without its keys.

A `CASE` of these definitions used to have arms that overlap (a text mapping with a
number, a text in a numeric metric). TLC takes the first arm that is true, as the
code does; in TLA+ it may be any, so that the definition said less than the code.
The arms are exclusive now.

Proved in `AlertRules_proofs.tla`, whatever the numbers are: `ReadingsAreStored` for
every raw value, scale and offset; `RegistersAreRead` for registers that count to
any even number (`RegisterAssumption`), from what `\div` and `%` leave
(`DividedOnce`, `TwoWords`); `MappingsAreChosen` for lists of any length;
`SecretsAreKept` for any secrets and two different keys. In `MCPolling_proofs.tla`
`ReadingsAreRight` carries these and the theorems about rules over to what the run
checks: its inputs (`Values`, `Registers`, `RulePairs`, ...) are shown to be inputs
of the theorems.

What a fold computes of every list is shown by induction. The prover cannot apply
the induction theorems of the library, whose parameter is a predicate, but a set of
numbers will do: `Counting` says that a set which contains 0 and the successor of
each of its members contains every natural number (its least exception would follow
a member: `WFMin` of `WellFoundedInduction`), and what is to be shown of n is made
the definition of that set. `FoldExists` shows so that the function by which
`FoldLeft` is defined exists, and `MappingsAreChosen` what it holds after each
mapping.

Left out: nan and infinity, the bits of a float32, unmapped text formats.

## AlertRules: how a reading is judged

`AlertRules.tla` is pure, too, and extends `Readings`: the rules that apply to a
reading and their order, conditions, suppression windows, escalation policies, and
what `clean` accepts of each. Its properties are part of `ReadingsRight`, so that
every measured value meets every condition of the instance.

- `ConditionAsMeasured`: a condition holds of what was stored exactly when it holds
  of what was measured, but for measures nearer to the threshold than the types lose.
  What is no number, or no value, satisfies every NEQ rule and no other: a device
  that answers "n/a" opens the alerts of NEQ rules.
- `RulesFound`: the rules that apply name nothing but what the device is, the more
  specific first. A rule that names the device itself follows it when it moves, even
  if it names the former data center; a suppression window that names both does not.
- `WindowsApart`: accepted windows of one scope overlap in the instant at which they
  meet at most, and leave no gap there.
- `TiersReached`: while an alert is left alone, `run_alert_escalation_check` (run
  once a minute here) records a policy exactly if it is triggered before all that the query lists
  earlier. A tier of 30 minutes that comes after one of 10 is never escalated, since
  the search stops at the first triggered one, recorded or not; no query states the
  order.
- `ClockRestarts`: the minutes of an acknowledged alert start anew.

Proved in `AlertRules_proofs.tla`: `ConditionsAreAsMeasured` for every reading and
threshold; `RulesAreFound` for any finite set of rules, where the rules of the device
were accepted while it was elsewhere (that they can be sorted by `Before` is an
induction over how many they are, `RulesCanBeSorted`); `WindowsAreApart` for any two
windows of which one was stored when the other was accepted; `TiersAreReached` and
`ClocksRestart` for any number of policies, minutes and waits. For the theorems
`Matching` is defined by what a stable sort promises, a list of the rules in which
none comes before one that it should follow, and not by a sort; TLC evaluates the
same definition. The code's `created_at` decides between rules of one rank; of rules
that were created at once any may come first.

Bounds of the run: two rules, two windows, three policies at a time; three data centers of two
organizations, of which the device has moved between any two; the check is followed
for five minutes, policies wait up to three. The search for a duplicate rule is in
`Seeds` (its race is the point there); targets and channels of policies are left out.

## Seeds: what deployments write

`Seeds.tla` models what the seven scripts and the `seed_*` commands do to the rows
of one metric (or two traps, or one alarm), between releases that change the
table, operators who add, toggle and delete rows, and other runs. It ends in
`Readings`: `SeededMetricsRead` follows a seeded mapping to the stored value.

- `SeededMetricsRead`: after a script has run, the metric is read as its table
  says, scaled once, GOOD and in the right column.
- `TrapsUnderstood`: a trap of the table means what the table says.
- `RulesApart`: no two active rules for one scope and condition, unless one was
  checked while another was being saved (`AlertRule.clean` runs before the save,
  and no constraint looks again); and a seeded alarm has its rule.

The properties name the exceptions they need, which are the observations: ATS,
UPS, NetBotz and `seed_dcim` leave the row of a former OID active (the PAC script
says of itself that OID changes must update the existing mapping, and does);
reruns activate what operators deactivated; PAC, top-10 and PDU traps fall back to
a model with a name alike, for which the properties promise nothing; a run of
`seed_alert_rules` before the device type PAC exists makes a rule for all devices,
and a second one later. The types `timeticks`, `gauge32` and `ipaddress` are not
numeric to `snmp_normalization.py:11`, so that their scale is not applied: the
PDU's `device_uptime` (scale 0.01) is stored a hundred times too large, as GOOD.
`ReadRight` says what is stored there (`meant`).

All three are proved (`SeedsDoTheirWork`), for any OIDs and savers and without the
bound on edits and releases. What makes them inductive: `OwnRows`, that a row which no
operator added names the script's vendor and one of its models, so that the search of
the next run finds it; `OneChecked`, in `RulesInv`, that as long as no two checks of a
rule overlapped, at most one process holds a rule that it has checked and not saved,
and that one is still unlike every row; `MappingsSeeded` and `TrapsSeeded`, what a run
leaves, the second also between a run's two traps.

Bounds: two OIDs, two processes saving rules, two edits or releases. Two edits are
a release and one operator's change, in either order, around any number of runs.

## ReportJob: one report job, its workers and its file

`ReportJob.tla` models `generate_report_job` (`apps/reports/services/generator.py`),
the requests of `ReportJobViewSet` (`views.py`), the edit of
`_ReportJobBaseSerializer.update`, `ReportJob.clean`, and the file storage, for
one job.

| In the model | In the code |
|---|---|
| `row` | the `ReportJob` row: `status`, `parameters`, whether `started_at` and `completed_at` are set, `file`; status `Gone` when it is deleted |
| `rowHolder` | the row lock of the second transaction (`generator.py:1084`), the only one held across steps |
| `store`, `files` | the files in the storage, and how many were ever stored |
| `tasks` | `generate_report_job_task` messages |
| `worker[w]` | where a worker is in `generate_report_job`, the file it has deleted (`dropped`) and the one it has stored |
| `user[u]` | a request between `get_object` and `save`, with the instance it read |
| `Valid` | the part of `ReportJob.clean` about status and times; every `save` raises unless it holds of the *object in memory* |

A generation is `Claim`, then the build (`BuildFails` if it raises), then the
second transaction, which is three steps because the storage does not roll back:
`DropFile` (lock the row, delete the old file), `StoreFile` (store the new one, or
`StoreFails`: the row is rolled back to the name of the deleted file) and `Finish`
(save and commit, or raise and roll back the row alone). `FindCancelled` and `FindDeleted`
are its early ends, `RecordFailure` the `except` branch. A request is
`GetObject`, `DeleteFile` if the object it read names a file, and its save:
`Enqueue` for generate and retry, `Cancel`, `Edit`. `save(update_fields=...)`
writes the listed fields of the old object over whatever the row has become;
`Edit` writes all of them, and Django inserts the row again if it was deleted.

Read from how the code uses its services: Celery acknowledges a task when it is
taken, so a killed worker (`Die`) loses it; `ATOMIC_REQUESTS` is not set, so
`transaction.on_commit` in `_enqueue_generation` runs at once, after the save; a
publish that raises is a lost one.

What holds:

- `RowLegal` -- the row always satisfies `clean`, although what is validated is
  never the row that results. It holds because `update_fields` always covers
  status, `started_at` and `completed_at` together where a request writes a
  status. Proved.
- `DownloadWorks` -- as long as nobody edits the job, a completed job's file is in
  the storage, however many stale generations and cancellations delete files and
  whenever the storage fails; or it was deleted by a worker that has yet to store
  the next one, or to record `FAILED` after it could not, or that died before it did
  either (`widowed`). What holds it together is the `except` branch: the mutant that
  does not record the failure leaves a `COMPLETED` job without its file. Proved.
- `CancelStops` -- no worker starts or completes a cancelled job. Proved. A
  worker whose build *fails* does turn `CANCELLED` into `FAILED`: its `except`
  branch does not look, and the property allows it.
- `GenerationEnds` -- a queued or running generation leads to a final status,
  unless a worker died, a publish was lost or the job was edited.

What does not, or is excluded above because it does not:

- `EditsSpareProcessing` (the run that expects a violation): an edit that read
  the job as `PENDING` saves its whole row over the worker's claim.
- After a worker's death the job stays `PROCESSING`, which generate, retry,
  cancel and edits of the parameters all refuse; only a delete helps.
- A worker that dies after it has deleted the old file leaves a completed job whose
  download fails; a lost connection to the database, which ends its `except` branch,
  too, does the same and is not modelled apart.
- An edit saves the file name it read. If a generation or another request
  deleted that file meanwhile, a completed job offers a file that is gone.
- A message that finds the job `FAILED` cannot claim it: `completed_at` is still
  set, so the save raises. It does not matter to `GenerationEnds`, since retry
  resets the job before it queues.

| Run | Instance | States | Question |
|---|---|---|---|
| `reports_job` | 2 workers, 2 requests at a time, 4 in all, 1 edit, 1 death, 1 lost publish, 2 parameter values, fair (`part = "job"`; with schedules and contents 0.58 M) | 0.39 M | all of the above |
| `reports_edit` | 1 worker, 2 users, 2 requests, 1 edit | < 1 K | the divergence |

Bounds: `MaxCalls`, `MaxEdits`, `MaxDeaths`, `MaxLost`. Four requests are enough
for two overlapping generations, a cancellation between them and a retry. Both
runs switch the deadlock check off: when the requests are used up and the queue
is empty the system has stopped, and should.

Fairness: each worker goes on with what it has begun and takes queued tasks
(weak fairness of `Generate(w)`). No action of a request is fair: a client may
never come back, and an API process may stop between two statements.

Left out: what reports contain (`ReportContents`) and how they are rendered; audit entries (their
failures are swallowed by `_safe_write_audit`); access checks; the order of
`started_at` and `completed_at`; two files that get one name (names carry the
time to the second); edits of the template under a running generation;
schedules (`ReportSchedule`).

### What is proved

`MCReportJob_proofs.tla` proves, for any workers, users, parameters and budgets,
`JobTypes`, `RowStaysLegal`, `DownloadsWork` and `CancelStopsWorkers`, from
`JobAssumption` alone. `IInv` adds to the type invariant and `RowLegal`:

- `Numbered`: nothing refers to a file beyond the count, and a request that is
  going to queue a generation read the job as `PENDING` or `FAILED`.
- `Locked`: a worker has deleted or stored a file exactly when it holds the row; the
  row is then not cancelled and names an older file than the one that is stored.
- `Safe`, while nobody has edited: what a request is going to delete is neither
  offered by a completed job nor just stored by a worker, and a file that a completed
  job misses is known to a worker or widowed.
  Without this, `DownloadWorks` is not inductive: the danger is in the stale
  objects, not in the row.

`GenerationEnds` is model-checked only.

## ReportSchedule: claims, windows and deliveries

`ReportSchedule.tla` models `schedules.py`, `tasks.py` and the endpoints that run
or edit a schedule. `Claim` is `claim_due_report_schedules` in one transaction
under row locks; `Publish` its messages; `Take`, `Deliver`, `Save` are
`execute_report_schedule` in the worker; `RunNow`, `Edit`, `SaveEdit` the
requests. The saves of a delivery and of a request write back a row they read
without a lock: an edit of the delivery time can be undone by a delivery that read
the row before it, a claim's `last_run_at` can move back.

- `WindowsCovered`: no time is lost between two windows to overtaking claims,
  deliveries, requests at once and edits. Each of them writes a `last_run_at` that it
  read or that ends a window of its own. There is one exception, and it does lose
  time: an edit saves every field, so one that read the schedule before its first run
  puts NULL back over `last_run_at`. The next window then begins a day before itself,
  wherever the last one ended (`reach`), and what lies between is in no report: a
  schedule that is switched off for a week by such an edit, for one. `unset` says of
  which schedules NULL is either the first value or was written by an edit, `skipped`
  what their next window left out; a NULL from anywhere else would violate the
  property. Before `last_run_at` has had a value every window begins a day before
  itself, also after a run at once whose save failed.
  Proved (`NothingBetween`). The invariant `Ends` says that all that lies before any
  of those ends is reported, given up, skipped, or in a window under way; it has to
  speak of the stale copies, which is why `WindowsCovered` alone is not inductive.
- `DoubledByRewind`: a time is claimed twice only after a save moved
  `last_run_at` back. Proved (`ClaimedOnce`).
- `NothingLeft` is violated (`reports_schedule`). The beat entry says that due
  schedules are enqueued every minute. `calculate_next_run_at` puts the local
  delivery time on the date in UTC: for a delivery time before 06:00 that is claimed
  before 06:00 local, the computed next run lies before the `last_run_at` being set.
  `clean` refuses that row, and the exception rolls back the claims of all due
  schedules (`ClaimRolledBack`), each minute until 06:00.

Both theorems hold for any schedules, workers, requests and times, under
`ScheduleAssumption` (workers are not requests; delivery times are in the day), and,
as `ReportsCoverWindows` and `ReportsDoubleByRewind`, of the composed specification.
The run checks them for one schedule, one worker, two requests, the ticks 4 to 9 (more
than a day, in ticks of six hours: Dhaka is UTC+6, one tick), two delivery times, one
fault: every daily schedule is due once or twice in it, a request or an edit can come
between any two steps of a delivery, and the ticks suffice for the gap that a NULL
written back leaves (five ticks after the first window the next one begins a tick too
late).
Daily schedules only; weekly and longer ones differ in the step of `NextRun`.

## ReportContents: which rows a report has

`ReportContents.tla` models `generator.py` from the parameters to the rows: dates,
scope, metrics, what each report reads, refuses and keeps, its limits in days, the
seeded templates (`seed_data.py`, `constants.py`), the jobs of schedules, the
figures of the two summaries, which are counted one query after another.

- `StaysInside`: whatever its parameters, a report shows no row of another
  organization, nor of another data center than the job has or asks for.
- `Promised`: a report with its seeded template has the rows that every filter the
  template lists selects and no other; it is refused exactly when a required filter
  is missing, one is unsound, or its dates are wrong or too far apart. A device is
  sound by its own organization (`generator.py:233`) and, where a data center is given,
  by that: nothing makes the organization of a device that of its data center, and
  `tests/test_reports.py:494` stores one where they differ. An `ip_address` that is no
  address fails the job, since the column has that type (`audit/models.py:34`).
  The promise is of the template's lists and limits, not of its prose: "Active device
  inventory" (`seed_data.py:55`) lists the inactive devices, too, unless `is_active`
  is given.
- `WindowsMeet`: two reports whose windows meet show every row that the whole window
  shows, and twice only those of the instant they share (both ends are inclusive).
- `ScheduledReported`: a schedule of any type that can be saved gets its daily and
  weekly reports; longer ones are refused only for reaching back too far.
- `SummaryAgrees`: the figures of a summary add up as far as no row came or
  changed while they were counted.

All but the last are checked as `ReportsRight` on each of the jobs of `MCReportJob`
as an initial state: two organizations, three data centers, five devices of which one
has moved and one stands in a data center of the other organization, every filter alone and the pairs that depend on each other, three
template configurations. `MaxListed` and `MaxChanges` are one: further rows and
changes only add to the sums and the difference.

All five are proved in `ReportContents_proofs.tla` over any organizations, data
centers, devices and rows, for any job (`IsJob`: a date filter is an instant, a day
or not a date; everything else is arbitrary), from `ContentsAssumption`, which says
that foreign keys exist and that times are integers:

- `NothingFromElsewhere`, `NothingBetweenReports`, `SchedulesReport` and
  `TemplatesKeepPromises` are facts about what parameters select; they are proved
  report type by report type, from lemmas about dates, scopes and metrics.
- `FiguresAgree` is an invariant of the counting. That the finished summary adds up
  is not inductive; `CountInv` takes, for a figure that is still to be counted,
  what it would be *now* (`Estimate`), and says of these that each section differs
  from the total by no more than the changes so far. Counting a figure does not move
  its estimate, and one change moves neither side by more than one.

`ReportsAreRight` says the same of the jobs and the rows that the run checks.

Observations: the job of a schedule has no template, hence the default limits of
90 and 31 days; QUARTERLY windows of 91 or 92 days and MONTHLY windows of
telemetry a little over 31 days are always refused, and the window is lost.
`notification_delivery` checks a device but ignores the data center asked for,
`audit_export` ignores data centers; `room_environment` ignores the maximal range
and, without metrics, looks for two codes that the aliases renamed, so that the
report is empty before its dates are even parsed. A schedule of format PDF or
CSV and PDF delivers CSV.

Not modelled: columns, order of rows and the PDF renderer.
## Plan

Done, in the order it was built: delivery; the engine; report jobs; polling with its
locks; readings, rules and seeds; the rule-match cache; trap alerts; notices and escalation;
schedules; the contents of reports; the proofs of all these modules.

Left, the most useful first:

1. `AlertEngine` with the rules of `AlertRules` composed in: rules edited, switched
   off or deleted while their alerts are open (which nothing then resolves but an
   operator), and devices that move.
2. Weekly and longer schedules in `ReportSchedule`; two schedules and two report
   workers in one run (about forty times the present states).

## Only model-checked

Liveness (`GenerationEnds`, `OnlineAgain`, `QuietEventually`, `RaisesEventually` and
the liveness of the delivery) holds for the instances of the runs: the prover has no ENABLED and no
fairness beyond what its temporal backend can use.

Every safety invariant of the passing runs is a theorem, too. What a theorem about
recursion needs is an induction (`Counting` in `AlertRules_proofs`); the library's
own induction theorems cannot be applied.

## Not modelled

- Access control and authentication: which roles may call which endpoint, and the
  scopes of list queries. The models start after a request has been authorised; they
  do model every state such a request can change.
- Recipients of notices: a notice has a small set of possible users in
  `AlertNotices`; the scope queries that choose them are left out.
- Audit log: rows are only added, in the transaction of what they describe, and read
  by nothing but the audit report (its rows are in `ReportContents`).
- Inventory (organizations, data centers, rooms, racks, devices, accounts,
  maintenance): saves of one row by one request, with field validation. What others
  depend on (a device deleted, moved, switched off or in maintenance) is an action of
  the modules that read it.
- Dashboards and health: queries without state.
- Wire formats: Modbus and SNMP frames, the SMS gateway and SMTP are external; the
  models keep their outcomes (answer, no answer, refusal, late answer).
- `deliver_pending_notifications` and `enqueue_delivery` have no caller.
- Report files: columns, order and PDF layout. A report worker that dies leaves its
  job in PROCESSING (hazard at `generator.py:1067`): the code has no recovery, so
  there is no property that the model could be asked for.
