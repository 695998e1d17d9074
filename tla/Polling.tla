------------------------------ MODULE Polling ------------------------------
(***************************************************************************)
(* Polling of devices: the scheduler (collectors/scheduler/tasks.py), the  *)
(* tasks and workers of the SNMP and Modbus collectors (services.py,       *)
(* tasks.py), and the cache locks of the Modbus collector                  *)
(* (collectors/common/locks.py).                                           *)
(*                                                                         *)
(* Time is discrete and relative: timers of polling configurations and     *)
(* locks count down, polls have an age.  A Modbus poll takes the device's  *)
(* lock, then the gateway's; locks are keys with an expiry that are        *)
(* deleted without a look at who set them.  An SNMP poll takes no lock and *)
(* marks its success in the transaction that stores the readings.          *)
(*                                                                         *)
(* Left out: the readings (module Readings) and their evaluation (module   *)
(* AlertEngine), the ingest log, telemetry, edits of configurations.       *)
(***************************************************************************)
EXTENDS Integers, Sequences, FiniteSets, SequencesExt

CONSTANTS
    Devices,        \* devices with a polling configuration
    ModbusDevices,  \* those polled over Modbus TCP,
    Unsupported,    \* those of a protocol that has no poller; the rest: SNMP
    Gateways,       \* host and port that Modbus devices are reached at
    GatewayOf,      \* the gateway of each Modbus device
    ModbusWorkers, SnmpWorkers,     \* the worker processes
    Nobody,         \* no device
    Limit,          \* POLLING_SCHEDULER_LIMIT
    Interval,       \* interval_seconds of the profile (at most 300 s)
    Jitter,         \* the largest jitter
    SoftLimit, HardLimit,           \* time limits of a poll task
    DeviceLockTimeout, GatewayLockTimeout,
    MaxQueue,       \* bound: tasks queued for one device
    Unreliable,     \* bound: the devices around which things go wrong
    MaxFaults,      \* bound: deaths and failing services
    MaxFlips        \* bound: how often devices stop or start to answer

Workers == ModbusWorkers \cup SnmpWorkers

ASSUME PollingAssumption ==
    /\ ModbusDevices \subseteq Devices
    /\ Unsupported \subseteq Devices \ ModbusDevices
    /\ GatewayOf \in [ModbusDevices -> Gateways]
    /\ ModbusWorkers \cap SnmpWorkers = {}
    /\ Nobody \notin Devices
    /\ {Limit, Interval, HardLimit, DeviceLockTimeout, GatewayLockTimeout} \subseteq Nat \ {0}
    /\ {Jitter, SoftLimit, MaxQueue, MaxFaults, MaxFlips} \subseteq Nat
    \* 45 s, 60 s, 120 s: a poll is killed before its device's lock expires
    /\ SoftLimit < HardLimit
    /\ HardLimit < DeviceLockTimeout

SnmpDevices == Devices \ (ModbusDevices \cup Unsupported)
Threshold == 3          \* consecutive failures that make a device OFFLINE
Statuses == {"UNKNOWN", "ONLINE", "DEGRADED", "OFFLINE"}

VARIABLES
    enabled,        \* the devices whose configuration is enabled
    wait,           \* time until next_poll_at
    overdue,        \* the enabled devices with next_poll_at <= now, oldest first
    batch, queued,  \* the configurations a run of the scheduler has still to
                    \* handle, and whether the first of them is in the queue
    queue,          \* poll tasks in the queues, per device
    worker,         \* the poll each worker is at: its device and age, the failures it
                    \* has read, and whether it took the gateway's lock
    deviceLock, gatewayLock,        \* time until the key expires; 0: no key
    status, failures,               \* Device.status, consecutive_failures
                                    \* (up to Threshold)
    up,             \* the devices that answer
    torn,           \* devices with the first of a poll's two updates, not the second
    overran,        \* gateways whose lock expired during a poll
    faults, flips   \* what is used of the bounds

scheduling == <<wait, overdue>>
scheduler == <<batch, queued>>
locks == <<deviceLock, gatewayLock>>
device == <<status, failures, torn>>
environment == <<enabled, up, flips>>
vars == <<scheduling, scheduler, queue, worker, locks, device, overran, faults,
          environment>>

Idle == [pc |-> "idle", dev |-> Nobody, age |-> 0, seen |-> 0, gateway |-> FALSE]

Init ==
    /\ enabled \in SUBSET Devices
    /\ wait = [d \in Devices |-> 0]
    /\ overdue \in SetToSeqs(enabled)
    /\ batch = <<>> /\ queued = FALSE
    /\ queue = [d \in Devices |-> 0]
    /\ worker = [w \in Workers |-> Idle]
    /\ deviceLock = [d \in ModbusDevices |-> 0]
    /\ gatewayLock = [g \in Gateways |-> 0]
    /\ status = [d \in Devices |-> "UNKNOWN"]
    /\ failures = [d \in Devices |-> 0]
    /\ up \in SUBSET enabled
    /\ torn = {} /\ overran = {}
    /\ faults = 0 /\ flips \in 0 .. MaxFlips

\* next_poll_at of d becomes t from now.
SetNextPoll(d, t) ==
    /\ wait' = [wait EXCEPT ![d] = t]
    /\ overdue' = IF t > 0 THEN Remove(overdue, d)
                  ELSE IF Contains(overdue, d) THEN overdue ELSE Append(overdue, d)

Fault(d) == d \in Unreliable /\ faults < MaxFaults /\ faults' = faults + 1

-----------------------------------------------------------------------------
(* The scheduler: one process, fed by beat and by operators.               *)

Due(S) == SelectSeq(overdue, LAMBDA d : d \in S)
FirstOf(seq) == SubSeq(seq, 1, IF Len(seq) < Limit THEN Len(seq) ELSE Limit)

\* enqueue_due_polls reads the configurations that are due.
FetchDue ==
    /\ batch = <<>> /\ overdue # <<>>
    /\ batch' = FirstOf(overdue)
    /\ UNCHANGED <<scheduling, queued, queue, worker, locks, device, overran, faults,
                   environment>>

\* One configuration: its task is queued, or it is passed over for good.
EnqueueOne ==
    /\ batch # <<>> /\ ~queued
    /\ LET d == Head(batch)
       IN  IF d \in Unsupported
           THEN batch' = Tail(batch) /\ UNCHANGED <<queue, queued>>
           ELSE /\ queue[d] < MaxQueue
                /\ queue' = [queue EXCEPT ![d] = @ + 1]
                /\ queued' = TRUE
                /\ UNCHANGED batch
    /\ UNCHANGED <<scheduling, worker, locks, device, overran, faults, environment>>

\* (Mutated form of what follows.)  A time that is saved falls out of the due.
SaveNextPollNever ==
    /\ queued
    /\ overdue' = Remove(overdue, Head(batch))
    /\ batch' = Tail(batch) /\ queued' = FALSE
    /\ UNCHANGED <<wait, queue, worker, locks, device, overran, faults, environment>>

\* ... and its next_poll_at saved, over what a poll may have written since.
SaveNextPoll ==
    /\ queued
    /\ \E jitter \in 0 .. Jitter : SetNextPoll(Head(batch), Interval + jitter)
    /\ batch' = Tail(batch) /\ queued' = FALSE
    /\ UNCHANGED <<queue, worker, locks, device, overran, faults, environment>>

\* The process is killed, or the database fails it, between two steps.
SchedulerDies ==
    /\ batch # <<>> /\ Fault(Head(batch))
    /\ batch' = <<>> /\ queued' = FALSE
    /\ UNCHANGED <<scheduling, queue, worker, locks, device, overran, environment>>

\* enqueue_due_snmp_polls and enqueue_due_modbus_polls, run by an operator,
\* queue what is due and leave next_poll_at alone.
OperatorEnqueue(S) ==
    /\ batch = <<>>
    /\ LET due == ToSet(FirstOf(Due(S)))
       IN  /\ \E d \in due : Fault(d)
           /\ \A d \in due : queue[d] < MaxQueue
           /\ queue' = [d \in Devices |-> IF d \in due THEN queue[d] + 1 ELSE queue[d]]
    /\ UNCHANGED <<scheduling, scheduler, worker, locks, device, overran, environment>>

-----------------------------------------------------------------------------
(* Polls.                                                                  *)

At(w, pc) == worker[w].pc = pc
Goto(w, pc) == worker' = [worker EXCEPT ![w].pc = pc]
Dev(w) == worker[w].dev
Gateway(w) == GatewayOf[Dev(w)]
Loading(d) == [pc |-> "loading", dev |-> d, age |-> 0, seen |-> 0, gateway |-> FALSE]
Begin(w, d) == worker' = [worker EXCEPT ![w] = Loading(d)]

\* Of the idle workers, who are all alike, the one that takes the next task.
Taker(W) == CHOOSE w \in W : At(w, "idle")

\* A task is taken from the queue, and acknowledged.
StartSnmp(w, d) ==
    /\ d \in SnmpDevices /\ queue[d] > 0
    /\ w \in SnmpWorkers /\ At(w, "idle") /\ w = Taker(SnmpWorkers)
    /\ queue' = [queue EXCEPT ![d] = @ - 1]
    /\ Begin(w, d)
    /\ UNCHANGED <<scheduling, scheduler, locks, device, overran, faults, environment>>

\* (Mutated form of what follows.)  The lock is read, then written.
StartModbusUnlocked(w, d) ==
    /\ d \in ModbusDevices /\ queue[d] > 0
    /\ w \in ModbusWorkers /\ At(w, "idle") /\ w = Taker(ModbusWorkers)
    /\ queue' = [queue EXCEPT ![d] = @ - 1]
    /\ Begin(w, d)
    /\ deviceLock' = [deviceLock EXCEPT ![d] = DeviceLockTimeout]
    /\ UNCHANGED <<scheduling, scheduler, gatewayLock, device, overran, faults,
                   environment>>

\* A Modbus poll adds the device's key, or is SKIPPED.
StartModbus(w, d) ==
    /\ d \in ModbusDevices /\ queue[d] > 0
    /\ w \in ModbusWorkers /\ At(w, "idle") /\ w = Taker(ModbusWorkers)
    /\ queue' = [queue EXCEPT ![d] = @ - 1]
    /\ IF deviceLock[d] = 0
       THEN /\ Begin(w, d)
            /\ deviceLock' = [deviceLock EXCEPT ![d] = DeviceLockTimeout]
       ELSE UNCHANGED <<worker, deviceLock>>
    /\ UNCHANGED <<scheduling, scheduler, gatewayLock, device, overran, faults,
                   environment>>

\* Loading the device raises: the task is retried, a Modbus lock stays.
LoadFails(w) ==
    /\ At(w, "loading") /\ Fault(Dev(w))
    /\ queue[Dev(w)] < MaxQueue
    /\ queue' = [queue EXCEPT ![Dev(w)] = @ + 1]
    /\ worker' = [worker EXCEPT ![w] = Idle]
    /\ UNCHANGED <<scheduling, scheduler, locks, device, overran, environment>>

\* The configuration is incomplete, or its queries fail.
ConfigurationFails(w) ==
    /\ At(w, "loading") /\ Fault(Dev(w))
    /\ worker' = [worker EXCEPT ![w].pc = "failing", ![w].seen = failures[Dev(w)]]
    /\ UNCHANGED <<scheduling, scheduler, queue, locks, device, overran, environment>>

LoadSnmp(w) ==
    /\ w \in SnmpWorkers /\ At(w, "loading")
    /\ worker' = [worker EXCEPT ![w].pc = "reading", ![w].seen = failures[Dev(w)]]
    /\ UNCHANGED <<scheduling, scheduler, queue, locks, device, overran, faults,
                   environment>>

\* (Mutated form of what follows.)  The gateway's key is set, not added.
LoadModbusAnyway(w) ==
    /\ w \in ModbusWorkers /\ At(w, "loading")
    /\ worker' = [worker EXCEPT ![w].pc = "reading", ![w].seen = failures[Dev(w)],
                                ![w].gateway = TRUE]
    /\ gatewayLock' = [gatewayLock EXCEPT ![Gateway(w)] = GatewayLockTimeout]
    /\ UNCHANGED <<scheduling, scheduler, queue, deviceLock, device, overran, faults,
                   environment>>

\* A Modbus poll needs its gateway as well, or is SKIPPED: nothing is marked.
LoadModbus(w) ==
    /\ w \in ModbusWorkers /\ At(w, "loading")
    /\ IF gatewayLock[Gateway(w)] = 0
       THEN /\ worker' = [worker EXCEPT ![w].pc = "reading", ![w].seen = failures[Dev(w)],
                                        ![w].gateway = TRUE]
            /\ gatewayLock' = [gatewayLock EXCEPT ![Gateway(w)] = GatewayLockTimeout]
            /\ UNCHANGED deviceLock
       ELSE /\ worker' = [worker EXCEPT ![w] = Idle]
            /\ deviceLock' = [deviceLock EXCEPT ![Dev(w)] = 0]
            /\ UNCHANGED gatewayLock
    /\ UNCHANGED <<scheduling, scheduler, queue, device, overran, faults, environment>>

\* next_poll_at of a poll that succeeded: an interval after it started.
AfterStart(w) == IF worker[w].age < Interval THEN Interval - worker[w].age ELSE 0

\* At least one reading came back.  SNMP: commit, with the mark of success.
ReadSnmp(w) ==
    /\ w \in SnmpWorkers /\ At(w, "reading") /\ Dev(w) \in up
    /\ status' = [status EXCEPT ![Dev(w)] = "ONLINE"]
    /\ failures' = [failures EXCEPT ![Dev(w)] = 0]
    /\ SetNextPoll(Dev(w), AfterStart(w))
    /\ worker' = [worker EXCEPT ![w] = Idle]
    /\ UNCHANGED <<scheduler, queue, locks, torn, overran, faults, environment>>

ReadModbus(w) ==
    /\ w \in ModbusWorkers /\ At(w, "reading") /\ Dev(w) \in up
    /\ Goto(w, "succeeding")
    /\ UNCHANGED <<scheduling, scheduler, queue, locks, device, overran, faults,
                   environment>>

\* Every reading failed, or the connection did.
ReadFails(w) ==
    /\ At(w, "reading") /\ Dev(w) \notin up
    /\ Goto(w, "failing")
    /\ UNCHANGED <<scheduling, scheduler, queue, locks, device, overran, faults,
                   environment>>

\* What follows the readings raises, or the soft time limit strikes between two
\* of them or later.  (A reading that it interrupts is counted as failed, and the
\* poll goes on.)
Raises(w) ==
    /\ worker[w].pc \in {"reading", "succeeding", "online"}
    /\ \/ worker[w].age = SoftLimit /\ UNCHANGED faults
       \/ Dev(w) \in up /\ Fault(Dev(w))
    /\ Goto(w, "failing")
    /\ UNCHANGED <<scheduling, scheduler, queue, locks, device, overran, environment>>

\* _mark_success of a Modbus poll, first and second update.
MarkOnline(w) ==
    /\ At(w, "succeeding")
    /\ status' = [status EXCEPT ![Dev(w)] = "ONLINE"]
    /\ torn' = torn \cup {Dev(w)}
    /\ Goto(w, "online")
    /\ UNCHANGED <<scheduling, scheduler, queue, locks, failures, overran, faults,
                   environment>>

\* (Mutated form of what follows.)  The counter is left alone.
ResetFailuresNever(w) ==
    /\ At(w, "online")
    /\ SetNextPoll(Dev(w), AfterStart(w))
    /\ torn' = torn \ {Dev(w)}
    /\ Goto(w, "releasing")
    /\ UNCHANGED <<scheduler, queue, locks, status, failures, overran, faults,
                   environment>>

ResetFailures(w) ==
    /\ At(w, "online")
    /\ failures' = [failures EXCEPT ![Dev(w)] = 0]
    /\ SetNextPoll(Dev(w), AfterStart(w))
    /\ torn' = torn \ {Dev(w)}
    /\ Goto(w, "releasing")
    /\ UNCHANGED <<scheduler, queue, locks, status, overran, faults, environment>>

\* The failures that _mark_failure is about to write, from those it read.
FailureCount(w) == IF worker[w].seen < Threshold THEN worker[w].seen + 1 ELSE Threshold

\* _mark_failure, first update.  An SNMP device is OFFLINE, too, when it was
\* last seen long ago or never.
MarkDown(w) ==
    /\ At(w, "failing")
    /\ \E stale \in BOOLEAN :
          /\ stale => Dev(w) \in SnmpDevices
          /\ Dev(w) \in SnmpDevices /\ status[Dev(w)] = "UNKNOWN" => stale
          /\ status' = [status EXCEPT ![Dev(w)] =
                           IF FailureCount(w) < Threshold /\ ~stale
                           THEN "DEGRADED" ELSE "OFFLINE"]
    /\ torn' = torn \cup {Dev(w)}
    /\ Goto(w, "down")
    /\ UNCHANGED <<scheduling, scheduler, queue, locks, failures, overran, faults,
                   environment>>

\* ... and second.
CountFailure(w) ==
    /\ At(w, "down")
    /\ failures' = [failures EXCEPT ![Dev(w)] = FailureCount(w)]
    /\ SetNextPoll(Dev(w), Interval)
    /\ torn' = torn \ {Dev(w)}
    /\ IF w \in ModbusWorkers THEN Goto(w, "releasing")
       ELSE worker' = [worker EXCEPT ![w] = Idle]
    /\ UNCHANGED <<scheduler, queue, locks, status, overran, faults, environment>>

\* The finally clause.
Release(w) ==
    /\ At(w, "releasing")
    /\ gatewayLock' = IF worker[w].gateway THEN [gatewayLock EXCEPT ![Gateway(w)] = 0]
                      ELSE gatewayLock
    /\ deviceLock' = [deviceLock EXCEPT ![Dev(w)] = 0]
    /\ worker' = [worker EXCEPT ![w] = Idle]
    /\ UNCHANGED <<scheduling, scheduler, queue, device, overran, faults, environment>>

\* The worker is killed: nothing is released, and nothing marked any more.
Killed(w) ==
    /\ worker' = [worker EXCEPT ![w] = Idle]
    /\ UNCHANGED <<scheduling, scheduler, queue, locks, device, overran, environment>>

HardTimeLimit(w) ==
    /\ ~At(w, "idle") /\ worker[w].age = HardLimit
    /\ Killed(w)
    /\ UNCHANGED faults

Die(w) == ~At(w, "idle") /\ Fault(Dev(w)) /\ Killed(w)

-----------------------------------------------------------------------------
(* Time and equipment.                                                     *)

Less(n) == IF n > 0 THEN n - 1 ELSE 0

OnGateway(w, g) == worker[w].gateway /\ Gateway(w) = g

\* Time passes, for a poll while it reads: its statements take less than a tick.
\* It does not outlive its hard time limit, and one of a device that answers ends
\* before the soft one.
Tick ==
    /\ \A w \in Workers : ~At(w, "idle") =>
          /\ At(w, "reading")
          /\ worker[w].age < (IF Dev(w) \in up THEN SoftLimit - 1 ELSE HardLimit)
    /\ wait' = [d \in Devices |-> Less(wait[d])]
    /\ \E order \in SetToSeqs({d \in enabled : wait[d] = 1}) : overdue' = overdue \o order
    /\ deviceLock' = [d \in ModbusDevices |-> Less(deviceLock[d])]
    /\ gatewayLock' = [g \in Gateways |-> Less(gatewayLock[g])]
    /\ worker' = [w \in Workers |-> IF At(w, "idle") THEN Idle
                                    ELSE [worker[w] EXCEPT !.age = @ + 1]]
    /\ overran' = overran \cup {g \in Gateways : gatewayLock[g] = 1 /\
                                   \E w \in ModbusWorkers : OnGateway(w, g)}
    /\ UNCHANGED <<scheduler, queue, device, faults, environment>>

Flip(d) ==
    /\ d \in enabled \cap Unreliable /\ flips < MaxFlips
    /\ flips' = flips + 1
    /\ up' = IF d \in up THEN up \ {d} ELSE up \cup {d}
    /\ UNCHANGED <<scheduling, scheduler, queue, worker, locks, device, overran, faults,
                   enabled>>

-----------------------------------------------------------------------------
Start(d) == \E w \in Workers : StartSnmp(w, d) \/ StartModbus(w, d)

\* What a worker does by itself once it has a task.
Work(w) ==
    \/ LoadSnmp(w) \/ LoadModbus(w)
    \/ ReadSnmp(w) \/ ReadModbus(w)
    \/ MarkOnline(w) \/ ResetFailures(w)
    \/ MarkDown(w) \/ CountFailure(w)
    \/ Release(w)
    \/ HardTimeLimit(w)

Schedule == FetchDue \/ EnqueueOne \/ SaveNextPoll

Next ==
    \/ Schedule \/ SchedulerDies
    \/ OperatorEnqueue(ModbusDevices) \/ OperatorEnqueue(SnmpDevices)
    \/ \E d \in Devices : Start(d) \/ Flip(d)
    \/ \E w \in Workers :
          \/ Work(w)
          \/ LoadFails(w) \/ ConfigurationFails(w)
          \/ ReadFails(w) \/ Raises(w) \/ Die(w)
    \/ Tick

Spec == Init /\ [][Next]_vars

(* Beat posts the scheduler's task every five seconds; queues are first in *)
(* first out, so that a task is taken in the end; a worker that is not     *)
(* stuck in a read goes on; time passes.  Nothing obliges a device that    *)
(* does not answer to fail a read soon: a read may last.                   *)
Fairness ==
    /\ WF_vars(Tick) /\ WF_vars(Schedule)
    /\ \A d \in Devices : SF_vars(Start(d))
    /\ \A w \in Workers : WF_vars(Work(w))

FairSpec == Spec /\ Fairness

-----------------------------------------------------------------------------
(* Properties.                                                             *)

Pcs == {"idle", "loading", "reading", "succeeding", "online", "failing", "down",
        "releasing"}

\* The type of the state; what is overdue is what has no time left to wait.
TypeOK ==
    /\ enabled \subseteq Devices /\ up \subseteq Devices
    /\ wait \in [Devices -> Nat]
    /\ overdue \in Seq(enabled) /\ batch \in Seq(enabled)
    /\ queued \in BOOLEAN /\ (queued => batch # <<>>)
    /\ queue \in [Devices -> 0 .. MaxQueue]
    /\ worker \in [Workers -> [pc : Pcs, dev : Devices \cup {Nobody}, age : 0 .. HardLimit,
                               seen : 0 .. Threshold, gateway : BOOLEAN]]
    /\ deviceLock \in [ModbusDevices -> 0 .. DeviceLockTimeout]
    /\ gatewayLock \in [Gateways -> 0 .. GatewayLockTimeout]
    /\ status \in [Devices -> Statuses]
    /\ failures \in [Devices -> 0 .. Threshold]
    /\ torn \subseteq Devices /\ overran \subseteq Gateways
    /\ faults \in 0 .. MaxFaults /\ flips \in 0 .. MaxFlips

\* No two workers poll one Modbus device, whatever is killed, retried or queued
\* twice: a lock outlives the poll it belongs to and is released once.
OnePollPerDevice ==
    \A v, w \in ModbusWorkers :
        ~At(v, "idle") /\ ~At(w, "idle") /\ Dev(v) = Dev(w) => v = w

\* Two polls share a gateway only after a poll has outlived the gateway's lock,
\* whose holder it then robs its successors of.
GatewayExclusive ==
    \A v, w \in ModbusWorkers, g \in Gateways :
        g \notin overran /\ OnGateway(v, g) /\ OnGateway(w, g) => v = w

\* The status of a Modbus device agrees with its count of failures whenever a
\* poll has done both its updates, or neither.
StatusAgrees ==
    \A d \in ModbusDevices \ torn :
        CASE status[d] = "OFFLINE" -> failures[d] = Threshold
          [] status[d] = "DEGRADED" -> failures[d] \in 1 .. Threshold - 1
          [] OTHER -> failures[d] = 0

\* The enabled devices that a poller knows and whose gateway, if they need one,
\* serves no other.
Loners == {d \in enabled \ Unsupported :
              \A e \in (enabled \cap ModbusDevices) \ {d} :
                  d \in ModbusDevices => GatewayOf[e] # GatewayOf[d]}

\* Once they all answer for good, and nothing fails any more, they are ONLINE for
\* good: whatever a death or a failure left behind (a key in the cache, a task
\* that is gone, half of an update) expires, falls due again or is overwritten.
OnlineAgain == <>[](Loners \subseteq up) => <>[](\A d \in Loners : status[d] = "ONLINE")

\* A device that does not answer from some time on does not stay ONLINE: the
\* worker's soft time limit fails a poll that takes too long
\* ("SNMP poll exceeded worker soft time limit").
DownIsNoticed ==
    \A d \in Devices \ Unsupported :
        <>[](d \notin up) => []<>(status[d] # "ONLINE")
=============================================================================
