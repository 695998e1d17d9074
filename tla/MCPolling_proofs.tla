--------------------------- MODULE MCPolling_proofs ---------------------------
(***************************************************************************)
(* Proofs about Polling, for every set of devices, gateways and workers,   *)
(* every limit and every number of deaths and failures, and about the      *)
(* seeds (module Seeds) that MCPolling composes with it.                   *)
(***************************************************************************)
EXTENDS MCPolling, TLAPS

-----------------------------------------------------------------------------
(* The inductive invariant.                                                *)

WorkerRecords ==
    [pc : Pcs, dev : Devices \cup {Nobody}, age : 0 .. HardLimit,
     seen : 0 .. Threshold, gateway : BOOLEAN]

\* Types of what the proofs are about; the scheduler's sequences are not.
Types ==
    /\ worker \in [Workers -> WorkerRecords]
    /\ deviceLock \in [ModbusDevices -> Nat]
    /\ gatewayLock \in [Gateways -> Nat]
    /\ status \in [Devices -> Statuses]
    /\ failures \in [Devices -> 0 .. Threshold]

\* A worker that polls has a device of its kind; only Modbus polls take
\* gateways, and only when they have loaded their device.
Busy(w) == worker[w].pc # "idle"

Polls ==
    /\ \A w \in ModbusWorkers : Busy(w) => worker[w].dev \in ModbusDevices
    /\ \A w \in SnmpWorkers : Busy(w) => worker[w].dev \in SnmpDevices
    /\ \A w \in Workers : worker[w].gateway => Busy(w) /\ w \in ModbusWorkers

\* The lock of a device outlives the poll that took it, because the poll does not
\* reach the age at which the lock expires.
Locked ==
    \A w \in ModbusWorkers :
        Busy(w) => deviceLock[worker[w].dev] + worker[w].age >= DeviceLockTimeout

\* The lock of a gateway may expire during a poll, which overran then.
GatewayLocked ==
    \A w \in ModbusWorkers, gw \in Gateways :
        gw \notin overran /\ OnGateway(w, gw) => gatewayLock[gw] > 0

\* Between its two updates, a Modbus poll has written the status that its second
\* one is going to agree with.
HalfMarked ==
    \A w \in ModbusWorkers :
        /\ worker[w].pc = "online" => status[worker[w].dev] = "ONLINE"
        /\ worker[w].pc = "down" =>
              status[worker[w].dev] =
                  IF FailureCount(w) < Threshold THEN "DEGRADED" ELSE "OFFLINE"

IInv ==
    /\ Types /\ Polls
    /\ OnePollPerDevice /\ Locked
    /\ GatewayExclusive /\ GatewayLocked
    /\ StatusAgrees /\ HalfMarked

-----------------------------------------------------------------------------
(* Types.                                                                  *)

LEMMA Limits ==
    /\ HardLimit \in Nat /\ SoftLimit \in Nat
    /\ DeviceLockTimeout \in Nat \ {0} /\ GatewayLockTimeout \in Nat \ {0}
    /\ SoftLimit < HardLimit /\ HardLimit < DeviceLockTimeout
  BY PollingAssumption

LEMMA IdleType == Idle \in WorkerRecords
  BY Limits DEF Idle, WorkerRecords, Pcs, Threshold

-----------------------------------------------------------------------------
(* The steps of a poll.                                                    *)

LEMMA LoadSnmpStep ==
    ASSUME IInv, NEW w \in Workers, LoadSnmp(w)
    PROVE  IInv'
  <1> USE PollingAssumption DEF IInv, Workers, SnmpDevices, Threshold, Busy
  <1>1. worker[w] \in WorkerRecords /\ worker[w].dev \in Devices
    BY DEF LoadSnmp, At, Types, Polls
  <1>2. Types'
    BY <1>1 DEF LoadSnmp, At, Dev, scheduling, scheduler, locks, device,
       environment, Types, WorkerRecords, Pcs, Statuses, Idle,
       FailureCount
  <1>3. Polls'
    BY <1>2 DEF LoadSnmp, At, Dev, scheduling, scheduler, locks, device,
       environment, Types, WorkerRecords, Pcs, Polls, Idle
  <1>4. OnePollPerDevice' /\ Locked'
    BY <1>2, <1>3 DEF LoadSnmp, At, Dev, scheduling, scheduler, locks,
       device, environment, Types, WorkerRecords, Polls, OnePollPerDevice,
       Locked, Idle
  <1>5. GatewayExclusive' /\ GatewayLocked'
    BY <1>2, <1>3 DEF LoadSnmp, At, Dev, scheduling, scheduler, locks,
       device, environment, Types, WorkerRecords, Polls, GatewayExclusive,
       GatewayLocked, OnGateway, Gateway, Idle
  <1>6. StatusAgrees' /\ HalfMarked'
    BY <1>2, <1>3 DEF LoadSnmp, At, Dev, scheduling, scheduler, locks,
       device, environment, Types, WorkerRecords, Polls, OnePollPerDevice,
       StatusAgrees, HalfMarked, FailureCount, Idle, Statuses
  <1>7. QED
    BY <1>2, <1>3, <1>4, <1>5, <1>6

LEMMA LoadModbusStep ==
    ASSUME IInv, NEW w \in Workers, LoadModbus(w)
    PROVE  IInv'
  <1> USE PollingAssumption DEF IInv, Workers, SnmpDevices, Threshold, Busy
  <1>1. worker[w] \in WorkerRecords /\ worker[w].dev \in Devices
    BY DEF LoadModbus, At, Types, Polls
  <1>2. Types'
    <2>1. worker' \in [Workers -> WorkerRecords]
      <3>1. CASE gatewayLock[Gateway(w)] = 0
        <4>1. failures[Dev(w)] \in 0 .. Threshold
          BY <1>1 DEF Types, Dev
        <4>2. [worker[w] EXCEPT !.pc = "reading", !.seen = failures[Dev(w)],
                                !.gateway = TRUE] \in WorkerRecords
          BY <1>1, <4>1 DEF WorkerRecords, Pcs
        <4>3. worker' = [worker EXCEPT ![w] =
                  [worker[w] EXCEPT !.pc = "reading", !.seen = failures[Dev(w)],
                                    !.gateway = TRUE]]
          BY <1>1, <3>1 DEF LoadModbus, Types, WorkerRecords
        <4>4. QED
          BY <4>2, <4>3 DEF Types
      <3>2. CASE gatewayLock[Gateway(w)] # 0
        BY <3>2, IdleType DEF LoadModbus, Types
      <3>3. QED
        BY <3>1, <3>2
    <2>2. /\ deviceLock' \in [ModbusDevices -> Nat]
          /\ gatewayLock' \in [Gateways -> Nat]
      BY <1>1 DEF LoadModbus, At, Dev, scheduling, scheduler, locks, device,
         environment, Types
    <2>3. /\ status' \in [Devices -> Statuses]
          /\ failures' \in [Devices -> 0 .. Threshold]
      BY <1>1 DEF LoadModbus, At, Dev, scheduling, scheduler, locks, device,
         environment, Types, WorkerRecords, FailureCount
    <2>4. QED
      BY <2>1, <2>2, <2>3 DEF Types
  <1>3. Polls'
    BY <1>2 DEF LoadModbus, At, Dev, scheduling, scheduler, locks, device,
       environment, Types, WorkerRecords, Pcs, Polls, Idle
  <1>4. OnePollPerDevice' /\ Locked'
    BY <1>2, <1>3 DEF LoadModbus, At, Dev, scheduling, scheduler, locks,
       device, environment, Types, WorkerRecords, Polls, OnePollPerDevice,
       Locked, Idle
  <1>5. GatewayExclusive' /\ GatewayLocked'
    BY <1>2, <1>3 DEF LoadModbus, At, Dev, scheduling, scheduler, locks,
       device, environment, Types, WorkerRecords, Polls, GatewayExclusive,
       GatewayLocked, OnGateway, Gateway, Idle
  <1>6. StatusAgrees' /\ HalfMarked'
    BY <1>2, <1>3 DEF LoadModbus, At, Dev, scheduling, scheduler, locks,
       device, environment, Types, WorkerRecords, Polls, OnePollPerDevice,
       StatusAgrees, HalfMarked, FailureCount, Idle, Statuses
  <1>7. QED
    BY <1>2, <1>3, <1>4, <1>5, <1>6

LEMMA ReadSnmpStep ==
    ASSUME IInv, NEW w \in Workers, ReadSnmp(w)
    PROVE  IInv'
  <1> USE PollingAssumption DEF IInv, Workers, SnmpDevices, Threshold, Busy
  <1>1. worker[w] \in WorkerRecords /\ worker[w].dev \in Devices
    BY DEF ReadSnmp, At, Types, Polls
  <1>2. Types'
    BY <1>1 DEF ReadSnmp, SetNextPoll, At, Dev, scheduling, scheduler,
       locks, device, environment, Types, WorkerRecords, Pcs, Statuses,
       Idle, FailureCount
  <1>3. Polls'
    BY <1>2 DEF ReadSnmp, SetNextPoll, At, Dev, scheduling, scheduler,
       locks, device, environment, Types, WorkerRecords, Pcs, Polls, Idle
  <1>4. OnePollPerDevice' /\ Locked'
    BY <1>2, <1>3 DEF ReadSnmp, SetNextPoll, At, Dev, scheduling,
       scheduler, locks, device, environment, Types, WorkerRecords, Polls,
       OnePollPerDevice, Locked, Idle
  <1>5. GatewayExclusive' /\ GatewayLocked'
    BY <1>2, <1>3 DEF ReadSnmp, SetNextPoll, At, Dev, scheduling,
       scheduler, locks, device, environment, Types, WorkerRecords, Polls,
       GatewayExclusive, GatewayLocked, OnGateway, Gateway, Idle
  <1>6. StatusAgrees' /\ HalfMarked'
    BY <1>2, <1>3 DEF ReadSnmp, SetNextPoll, At, Dev, scheduling,
       scheduler, locks, device, environment, Types, WorkerRecords, Polls,
       OnePollPerDevice, StatusAgrees, HalfMarked, FailureCount, Idle,
       Statuses
  <1>7. QED
    BY <1>2, <1>3, <1>4, <1>5, <1>6

LEMMA ReadModbusStep ==
    ASSUME IInv, NEW w \in Workers, ReadModbus(w)
    PROVE  IInv'
  <1> USE PollingAssumption DEF IInv, Workers, SnmpDevices, Threshold, Busy
  <1>1. worker[w] \in WorkerRecords /\ worker[w].dev \in Devices
    BY DEF ReadModbus, At, Types, Polls
  <1>2. Types'
    BY <1>1 DEF ReadModbus, Goto, At, Dev, scheduling, scheduler, locks,
       device, environment, Types, WorkerRecords, Pcs, Statuses, Idle,
       FailureCount
  <1>3. Polls'
    BY <1>2 DEF ReadModbus, Goto, At, Dev, scheduling, scheduler, locks,
       device, environment, Types, WorkerRecords, Pcs, Polls, Idle
  <1>4. OnePollPerDevice' /\ Locked'
    BY <1>2, <1>3 DEF ReadModbus, Goto, At, Dev, scheduling, scheduler,
       locks, device, environment, Types, WorkerRecords, Polls,
       OnePollPerDevice, Locked, Idle
  <1>5. GatewayExclusive' /\ GatewayLocked'
    BY <1>2, <1>3 DEF ReadModbus, Goto, At, Dev, scheduling, scheduler,
       locks, device, environment, Types, WorkerRecords, Polls,
       GatewayExclusive, GatewayLocked, OnGateway, Gateway, Idle
  <1>6. StatusAgrees' /\ HalfMarked'
    BY <1>2, <1>3 DEF ReadModbus, Goto, At, Dev, scheduling, scheduler,
       locks, device, environment, Types, WorkerRecords, Polls,
       OnePollPerDevice, StatusAgrees, HalfMarked, FailureCount, Idle,
       Statuses
  <1>7. QED
    BY <1>2, <1>3, <1>4, <1>5, <1>6

LEMMA MarkOnlineStep ==
    ASSUME IInv, NEW w \in Workers, MarkOnline(w)
    PROVE  IInv'
  <1> USE PollingAssumption DEF IInv, Workers, SnmpDevices, Threshold, Busy
  <1>1. worker[w] \in WorkerRecords /\ worker[w].dev \in Devices
    BY DEF MarkOnline, At, Types, Polls
  <1>2. Types'
    BY <1>1 DEF MarkOnline, Goto, At, Dev, scheduling, scheduler, locks,
       device, environment, Types, WorkerRecords, Pcs, Statuses, Idle,
       FailureCount
  <1>3. Polls'
    BY <1>2 DEF MarkOnline, Goto, At, Dev, scheduling, scheduler, locks,
       device, environment, Types, WorkerRecords, Pcs, Polls, Idle
  <1>4. OnePollPerDevice' /\ Locked'
    BY <1>2, <1>3 DEF MarkOnline, Goto, At, Dev, scheduling, scheduler,
       locks, device, environment, Types, WorkerRecords, Polls,
       OnePollPerDevice, Locked, Idle
  <1>5. GatewayExclusive' /\ GatewayLocked'
    BY <1>2, <1>3 DEF MarkOnline, Goto, At, Dev, scheduling, scheduler,
       locks, device, environment, Types, WorkerRecords, Polls,
       GatewayExclusive, GatewayLocked, OnGateway, Gateway, Idle
  <1>6. StatusAgrees' /\ HalfMarked'
    BY <1>2, <1>3 DEF MarkOnline, Goto, At, Dev, scheduling, scheduler,
       locks, device, environment, Types, WorkerRecords, Polls,
       OnePollPerDevice, StatusAgrees, HalfMarked, FailureCount, Idle,
       Statuses
  <1>7. QED
    BY <1>2, <1>3, <1>4, <1>5, <1>6

LEMMA ResetFailuresStep ==
    ASSUME IInv, NEW w \in Workers, ResetFailures(w)
    PROVE  IInv'
  <1> USE PollingAssumption DEF IInv, Workers, SnmpDevices, Threshold, Busy
  <1>1. worker[w] \in WorkerRecords /\ worker[w].dev \in Devices
    BY DEF ResetFailures, At, Types, Polls
  <1>2. Types'
    BY <1>1 DEF ResetFailures, Goto, At, Dev, scheduling, scheduler,
       locks, device, environment, Types, WorkerRecords, Pcs, Statuses,
       Idle, FailureCount
  <1>3. Polls'
    BY <1>2 DEF ResetFailures, Goto, At, Dev, scheduling, scheduler,
       locks, device, environment, Types, WorkerRecords, Pcs, Polls, Idle
  <1>4. OnePollPerDevice' /\ Locked'
    BY <1>2, <1>3 DEF ResetFailures, Goto, At, Dev, scheduling, scheduler,
       locks, device, environment, Types, WorkerRecords, Polls,
       OnePollPerDevice, Locked, Idle
  <1>5. GatewayExclusive' /\ GatewayLocked'
    BY <1>2, <1>3 DEF ResetFailures, Goto, At, Dev, scheduling, scheduler,
       locks, device, environment, Types, WorkerRecords, Polls,
       GatewayExclusive, GatewayLocked, OnGateway, Gateway, Idle
  <1>6. StatusAgrees' /\ HalfMarked'
    BY <1>2, <1>3 DEF ResetFailures, Goto, At, Dev, scheduling, scheduler,
       locks, device, environment, Types, WorkerRecords, Polls,
       OnePollPerDevice, StatusAgrees, HalfMarked, FailureCount, Idle,
       Statuses
  <1>7. QED
    BY <1>2, <1>3, <1>4, <1>5, <1>6

LEMMA MarkDownStep ==
    ASSUME IInv, NEW w \in Workers, MarkDown(w)
    PROVE  IInv'
  <1> USE PollingAssumption DEF IInv, Workers, SnmpDevices, Threshold, Busy
  <1>1. worker[w] \in WorkerRecords /\ worker[w].dev \in Devices
    BY DEF MarkDown, At, Types, Polls
  <1>2. Types'
    BY <1>1 DEF MarkDown, Goto, At, Dev, scheduling, scheduler, locks,
       device, environment, Types, WorkerRecords, Pcs, Statuses, Idle,
       FailureCount
  <1>3. Polls'
    BY <1>2 DEF MarkDown, Goto, At, Dev, scheduling, scheduler, locks,
       device, environment, Types, WorkerRecords, Pcs, Polls, Idle
  <1>4. OnePollPerDevice' /\ Locked'
    BY <1>2, <1>3 DEF MarkDown, Goto, At, Dev, scheduling, scheduler,
       locks, device, environment, Types, WorkerRecords, Polls,
       OnePollPerDevice, Locked, Idle
  <1>5. GatewayExclusive' /\ GatewayLocked'
    BY <1>2, <1>3 DEF MarkDown, Goto, At, Dev, scheduling, scheduler,
       locks, device, environment, Types, WorkerRecords, Polls,
       GatewayExclusive, GatewayLocked, OnGateway, Gateway, Idle
  <1>6. StatusAgrees' /\ HalfMarked'
    BY <1>2, <1>3 DEF MarkDown, Goto, At, Dev, scheduling, scheduler,
       locks, device, environment, Types, WorkerRecords, Polls,
       OnePollPerDevice, StatusAgrees, HalfMarked, FailureCount, Idle,
       Statuses
  <1>7. QED
    BY <1>2, <1>3, <1>4, <1>5, <1>6

LEMMA CountFailureStep ==
    ASSUME IInv, NEW w \in Workers, CountFailure(w)
    PROVE  IInv'
  <1> USE PollingAssumption DEF IInv, Workers, SnmpDevices, Threshold, Busy
  <1>1. worker[w] \in WorkerRecords /\ worker[w].dev \in Devices
    BY DEF CountFailure, At, Types, Polls
  <1>2. Types'
    <2>1. worker' \in [Workers -> WorkerRecords]
      <3>1. CASE w \in ModbusWorkers
        BY <1>1, <3>1 DEF CountFailure, Goto, Types, WorkerRecords, Pcs
      <3>2. CASE w \notin ModbusWorkers
        BY <1>1, <3>2, IdleType DEF CountFailure, Types
      <3>3. QED
        BY <3>1, <3>2
    <2>2. /\ deviceLock' \in [ModbusDevices -> Nat]
          /\ gatewayLock' \in [Gateways -> Nat]
      BY <1>1 DEF CountFailure, Goto, At, Dev, scheduling, scheduler, locks,
         device, environment, Types
    <2>3. /\ status' \in [Devices -> Statuses]
          /\ failures' \in [Devices -> 0 .. Threshold]
      BY <1>1 DEF CountFailure, Goto, At, Dev, scheduling, scheduler, locks,
         device, environment, Types, WorkerRecords, FailureCount
    <2>4. QED
      BY <2>1, <2>2, <2>3 DEF Types
  <1>3. Polls'
    BY <1>2 DEF CountFailure, Goto, At, Dev, scheduling, scheduler, locks,
       device, environment, Types, WorkerRecords, Pcs, Polls, Idle
  <1>4. OnePollPerDevice' /\ Locked'
    BY <1>2, <1>3 DEF CountFailure, Goto, At, Dev, scheduling, scheduler,
       locks, device, environment, Types, WorkerRecords, Polls,
       OnePollPerDevice, Locked, Idle
  <1>5. GatewayExclusive' /\ GatewayLocked'
    BY <1>2, <1>3 DEF CountFailure, Goto, At, Dev, scheduling, scheduler,
       locks, device, environment, Types, WorkerRecords, Polls,
       GatewayExclusive, GatewayLocked, OnGateway, Gateway, Idle
  <1>6. StatusAgrees' /\ HalfMarked'
    BY <1>2, <1>3 DEF CountFailure, Goto, At, Dev, scheduling, scheduler,
       locks, device, environment, Types, WorkerRecords, Polls,
       OnePollPerDevice, StatusAgrees, HalfMarked, FailureCount, Idle,
       Statuses
  <1>7. QED
    BY <1>2, <1>3, <1>4, <1>5, <1>6

LEMMA ReleaseStep ==
    ASSUME IInv, NEW w \in Workers, Release(w)
    PROVE  IInv'
  <1> USE PollingAssumption DEF IInv, Workers, SnmpDevices, Threshold, Busy
  <1>1. worker[w] \in WorkerRecords /\ worker[w].dev \in Devices
    BY DEF Release, At, Types, Polls
  <1>2. Types'
    <2>1. worker' \in [Workers -> WorkerRecords]
      BY <1>1 DEF Release, At, Dev, Types, WorkerRecords, Pcs, Idle
    <2>2. /\ deviceLock' \in [ModbusDevices -> Nat]
          /\ gatewayLock' \in [Gateways -> Nat]
      BY <1>1 DEF Release, At, Dev, scheduling, scheduler, locks, device,
         environment, Types
    <2>3. /\ status' \in [Devices -> Statuses]
          /\ failures' \in [Devices -> 0 .. Threshold]
      BY <1>1 DEF Release, At, Dev, scheduling, scheduler, locks, device,
         environment, Types, WorkerRecords, FailureCount
    <2>4. QED
      BY <2>1, <2>2, <2>3 DEF Types
  <1>3. Polls'
    BY <1>2 DEF Release, At, Dev, scheduling, scheduler, locks, device,
       environment, Types, WorkerRecords, Pcs, Polls, Idle
  <1>4. OnePollPerDevice' /\ Locked'
    BY <1>2, <1>3 DEF Release, At, Dev, scheduling, scheduler, locks,
       device, environment, Types, WorkerRecords, Polls, OnePollPerDevice,
       Locked, Idle
  <1>5. GatewayExclusive' /\ GatewayLocked'
    BY <1>2, <1>3 DEF Release, At, Dev, scheduling, scheduler, locks,
       device, environment, Types, WorkerRecords, Polls, GatewayExclusive,
       GatewayLocked, OnGateway, Gateway, Idle
  <1>6. StatusAgrees' /\ HalfMarked'
    BY <1>2, <1>3 DEF Release, At, Dev, scheduling, scheduler, locks,
       device, environment, Types, WorkerRecords, Polls, OnePollPerDevice,
       StatusAgrees, HalfMarked, FailureCount, Idle, Statuses
  <1>7. QED
    BY <1>2, <1>3, <1>4, <1>5, <1>6

LEMMA LoadFailsStep ==
    ASSUME IInv, NEW w \in Workers, LoadFails(w)
    PROVE  IInv'
  <1> USE PollingAssumption DEF IInv, Workers, SnmpDevices, Threshold, Busy
  <1>1. worker[w] \in WorkerRecords /\ worker[w].dev \in Devices
    BY DEF LoadFails, At, Types, Polls
  <1>2. Types'
    BY <1>1 DEF LoadFails, Fault, At, Dev, scheduling, scheduler, locks,
       device, environment, Types, WorkerRecords, Pcs, Statuses, Idle,
       FailureCount
  <1>3. Polls'
    BY <1>2 DEF LoadFails, Fault, At, Dev, scheduling, scheduler, locks,
       device, environment, Types, WorkerRecords, Pcs, Polls, Idle
  <1>4. OnePollPerDevice' /\ Locked'
    BY <1>2, <1>3 DEF LoadFails, Fault, At, Dev, scheduling, scheduler,
       locks, device, environment, Types, WorkerRecords, Polls,
       OnePollPerDevice, Locked, Idle
  <1>5. GatewayExclusive' /\ GatewayLocked'
    BY <1>2, <1>3 DEF LoadFails, Fault, At, Dev, scheduling, scheduler,
       locks, device, environment, Types, WorkerRecords, Polls,
       GatewayExclusive, GatewayLocked, OnGateway, Gateway, Idle
  <1>6. StatusAgrees' /\ HalfMarked'
    BY <1>2, <1>3 DEF LoadFails, Fault, At, Dev, scheduling, scheduler,
       locks, device, environment, Types, WorkerRecords, Polls,
       OnePollPerDevice, StatusAgrees, HalfMarked, FailureCount, Idle,
       Statuses
  <1>7. QED
    BY <1>2, <1>3, <1>4, <1>5, <1>6

LEMMA ConfigurationFailsStep ==
    ASSUME IInv, NEW w \in Workers, ConfigurationFails(w)
    PROVE  IInv'
  <1> USE PollingAssumption DEF IInv, Workers, SnmpDevices, Threshold, Busy
  <1>1. worker[w] \in WorkerRecords /\ worker[w].dev \in Devices
    BY DEF ConfigurationFails, At, Types, Polls
  <1>2. Types'
    BY <1>1 DEF ConfigurationFails, Fault, At, Dev, scheduling, scheduler,
       locks, device, environment, Types, WorkerRecords, Pcs, Statuses,
       Idle, FailureCount
  <1>3. Polls'
    BY <1>2 DEF ConfigurationFails, Fault, At, Dev, scheduling, scheduler,
       locks, device, environment, Types, WorkerRecords, Pcs, Polls, Idle
  <1>4. OnePollPerDevice' /\ Locked'
    BY <1>2, <1>3 DEF ConfigurationFails, Fault, At, Dev, scheduling,
       scheduler, locks, device, environment, Types, WorkerRecords, Polls,
       OnePollPerDevice, Locked, Idle
  <1>5. GatewayExclusive' /\ GatewayLocked'
    BY <1>2, <1>3 DEF ConfigurationFails, Fault, At, Dev, scheduling,
       scheduler, locks, device, environment, Types, WorkerRecords, Polls,
       GatewayExclusive, GatewayLocked, OnGateway, Gateway, Idle
  <1>6. StatusAgrees' /\ HalfMarked'
    BY <1>2, <1>3 DEF ConfigurationFails, Fault, At, Dev, scheduling,
       scheduler, locks, device, environment, Types, WorkerRecords, Polls,
       OnePollPerDevice, StatusAgrees, HalfMarked, FailureCount, Idle,
       Statuses
  <1>7. QED
    BY <1>2, <1>3, <1>4, <1>5, <1>6

LEMMA ReadFailsStep ==
    ASSUME IInv, NEW w \in Workers, ReadFails(w)
    PROVE  IInv'
  <1> USE PollingAssumption DEF IInv, Workers, SnmpDevices, Threshold, Busy
  <1>1. worker[w] \in WorkerRecords /\ worker[w].dev \in Devices
    BY DEF ReadFails, At, Types, Polls
  <1>2. Types'
    BY <1>1 DEF ReadFails, Goto, At, Dev, scheduling, scheduler, locks,
       device, environment, Types, WorkerRecords, Pcs, Statuses, Idle,
       FailureCount
  <1>3. Polls'
    BY <1>2 DEF ReadFails, Goto, At, Dev, scheduling, scheduler, locks,
       device, environment, Types, WorkerRecords, Pcs, Polls, Idle
  <1>4. OnePollPerDevice' /\ Locked'
    BY <1>2, <1>3 DEF ReadFails, Goto, At, Dev, scheduling, scheduler,
       locks, device, environment, Types, WorkerRecords, Polls,
       OnePollPerDevice, Locked, Idle
  <1>5. GatewayExclusive' /\ GatewayLocked'
    BY <1>2, <1>3 DEF ReadFails, Goto, At, Dev, scheduling, scheduler,
       locks, device, environment, Types, WorkerRecords, Polls,
       GatewayExclusive, GatewayLocked, OnGateway, Gateway, Idle
  <1>6. StatusAgrees' /\ HalfMarked'
    BY <1>2, <1>3 DEF ReadFails, Goto, At, Dev, scheduling, scheduler,
       locks, device, environment, Types, WorkerRecords, Polls,
       OnePollPerDevice, StatusAgrees, HalfMarked, FailureCount, Idle,
       Statuses
  <1>7. QED
    BY <1>2, <1>3, <1>4, <1>5, <1>6

LEMMA RaisesStep ==
    ASSUME IInv, NEW w \in Workers, Raises(w)
    PROVE  IInv'
  <1> USE PollingAssumption DEF IInv, Workers, SnmpDevices, Threshold, Busy
  <1>1. worker[w] \in WorkerRecords /\ worker[w].dev \in Devices
    BY DEF Raises, At, Types, Polls
  <1>2. Types'
    BY <1>1 DEF Raises, Goto, Fault, At, Dev, scheduling, scheduler,
       locks, device, environment, Types, WorkerRecords, Pcs, Statuses,
       Idle, FailureCount
  <1>3. Polls'
    BY <1>2 DEF Raises, Goto, Fault, At, Dev, scheduling, scheduler,
       locks, device, environment, Types, WorkerRecords, Pcs, Polls, Idle
  <1>4. OnePollPerDevice' /\ Locked'
    BY <1>2, <1>3 DEF Raises, Goto, Fault, At, Dev, scheduling, scheduler,
       locks, device, environment, Types, WorkerRecords, Polls,
       OnePollPerDevice, Locked, Idle
  <1>5. GatewayExclusive' /\ GatewayLocked'
    BY <1>2, <1>3 DEF Raises, Goto, Fault, At, Dev, scheduling, scheduler,
       locks, device, environment, Types, WorkerRecords, Polls,
       GatewayExclusive, GatewayLocked, OnGateway, Gateway, Idle
  <1>6. StatusAgrees' /\ HalfMarked'
    BY <1>2, <1>3 DEF Raises, Goto, Fault, At, Dev, scheduling, scheduler,
       locks, device, environment, Types, WorkerRecords, Polls,
       OnePollPerDevice, StatusAgrees, HalfMarked, FailureCount, Idle,
       Statuses
  <1>7. QED
    BY <1>2, <1>3, <1>4, <1>5, <1>6

LEMMA DieStep ==
    ASSUME IInv, NEW w \in Workers, Die(w)
    PROVE  IInv'
  <1> USE PollingAssumption DEF IInv, Workers, SnmpDevices, Threshold, Busy
  <1>1. worker[w] \in WorkerRecords /\ worker[w].dev \in Devices
    BY DEF Die, At, Types, Polls
  <1>2. Types'
    BY <1>1 DEF Die, Fault, Killed, At, Dev, scheduling, scheduler, locks,
       device, environment, Types, WorkerRecords, Pcs, Statuses, Idle,
       FailureCount
  <1>3. Polls'
    BY <1>2 DEF Die, Fault, Killed, At, Dev, scheduling, scheduler, locks,
       device, environment, Types, WorkerRecords, Pcs, Polls, Idle
  <1>4. OnePollPerDevice' /\ Locked'
    BY <1>2, <1>3 DEF Die, Fault, Killed, At, Dev, scheduling, scheduler,
       locks, device, environment, Types, WorkerRecords, Polls,
       OnePollPerDevice, Locked, Idle
  <1>5. GatewayExclusive' /\ GatewayLocked'
    BY <1>2, <1>3 DEF Die, Fault, Killed, At, Dev, scheduling, scheduler,
       locks, device, environment, Types, WorkerRecords, Polls,
       GatewayExclusive, GatewayLocked, OnGateway, Gateway, Idle
  <1>6. StatusAgrees' /\ HalfMarked'
    BY <1>2, <1>3 DEF Die, Fault, Killed, At, Dev, scheduling, scheduler,
       locks, device, environment, Types, WorkerRecords, Polls,
       OnePollPerDevice, StatusAgrees, HalfMarked, FailureCount, Idle,
       Statuses
  <1>7. QED
    BY <1>2, <1>3, <1>4, <1>5, <1>6

LEMMA HardTimeLimitStep ==
    ASSUME IInv, NEW w \in Workers, HardTimeLimit(w)
    PROVE  IInv'
  <1> USE PollingAssumption DEF IInv, Workers, SnmpDevices, Threshold, Busy
  <1>1. worker[w] \in WorkerRecords /\ worker[w].dev \in Devices
    BY DEF HardTimeLimit, At, Types, Polls
  <1>2. Types'
    BY <1>1 DEF HardTimeLimit, Killed, At, Dev, scheduling, scheduler,
       locks, device, environment, Types, WorkerRecords, Pcs, Statuses,
       Idle, FailureCount
  <1>3. Polls'
    BY <1>2 DEF HardTimeLimit, Killed, At, Dev, scheduling, scheduler,
       locks, device, environment, Types, WorkerRecords, Pcs, Polls, Idle
  <1>4. OnePollPerDevice' /\ Locked'
    BY <1>2, <1>3 DEF HardTimeLimit, Killed, At, Dev, scheduling,
       scheduler, locks, device, environment, Types, WorkerRecords, Polls,
       OnePollPerDevice, Locked, Idle
  <1>5. GatewayExclusive' /\ GatewayLocked'
    BY <1>2, <1>3 DEF HardTimeLimit, Killed, At, Dev, scheduling,
       scheduler, locks, device, environment, Types, WorkerRecords, Polls,
       GatewayExclusive, GatewayLocked, OnGateway, Gateway, Idle
  <1>6. StatusAgrees' /\ HalfMarked'
    BY <1>2, <1>3 DEF HardTimeLimit, Killed, At, Dev, scheduling,
       scheduler, locks, device, environment, Types, WorkerRecords, Polls,
       OnePollPerDevice, StatusAgrees, HalfMarked, FailureCount, Idle,
       Statuses
  <1>7. QED
    BY <1>2, <1>3, <1>4, <1>5, <1>6

LEMMA BeginFacts ==
    ASSUME Types, NEW w \in Workers, NEW d \in Devices, Begin(w, d)
    PROVE  /\ worker' \in [Workers -> WorkerRecords]
           /\ \A v \in Workers \ {w} : worker'[v] = worker[v]
           /\ worker'[w].pc = "loading" /\ worker'[w].dev = d
           /\ worker'[w].age = 0 /\ ~worker'[w].gateway
  <1>1. Loading(d) \in WorkerRecords
    BY Limits DEF Loading, WorkerRecords, Pcs, Threshold
  <1>2. worker' = [worker EXCEPT ![w] = Loading(d)]
    BY DEF Begin
  <1>3. QED
    BY <1>1, <1>2 DEF Types, Loading

LEMMA StartSnmpStep ==
    ASSUME IInv, NEW w \in Workers, NEW d \in Devices, StartSnmp(w, d)
    PROVE  IInv'
  <1> USE PollingAssumption DEF IInv, Workers, SnmpDevices, Busy
  <1>1. /\ w \in SnmpWorkers /\ w \notin ModbusWorkers /\ d \in SnmpDevices
        /\ Begin(w, d)
        /\ UNCHANGED <<locks, device, overran>>
    BY DEF StartSnmp
  <1>2. \A v \in ModbusWorkers : worker'[v] = worker[v]
    BY <1>1, BeginFacts
  <1>3. Types'
    BY <1>1, BeginFacts DEF locks, device, Types
  <1>4. Polls'
    BY <1>1, BeginFacts DEF Polls
  <1>5. OnePollPerDevice' /\ Locked'
    BY <1>1, <1>2 DEF At, Dev, locks, OnePollPerDevice, Locked
  <1>6. GatewayExclusive' /\ GatewayLocked'
    BY <1>1, <1>2 DEF Dev, locks, GatewayExclusive, GatewayLocked, OnGateway, Gateway
  <1>7. StatusAgrees' /\ HalfMarked'
    BY <1>1, <1>2 DEF device, StatusAgrees, HalfMarked, FailureCount
  <1>8. QED
    BY <1>3, <1>4, <1>5, <1>6, <1>7

\* A poll that begins finds no lock: none of the device is under way, or its lock
\* would still be there.
LEMMA StartModbusStep ==
    ASSUME IInv, NEW w \in Workers, NEW d \in Devices, StartModbus(w, d)
    PROVE  IInv'
  <1> USE PollingAssumption DEF IInv, Workers, SnmpDevices, Busy
  <1>1. CASE deviceLock[d] # 0
    <2>1. UNCHANGED <<worker, locks, device, overran>>
      BY <1>1 DEF StartModbus, locks, device
    <2>2. QED
      BY <2>1 DEF locks, device, Types, Polls, OnePollPerDevice, Locked,
         GatewayExclusive, GatewayLocked, OnGateway, Gateway, Dev, At, StatusAgrees,
         HalfMarked, FailureCount
  <1>2. CASE deviceLock[d] = 0
    <2>1. /\ w \in ModbusWorkers /\ d \in ModbusDevices
          /\ Begin(w, d)
          /\ deviceLock' = [deviceLock EXCEPT ![d] = DeviceLockTimeout]
          /\ UNCHANGED <<gatewayLock, device, overran>>
      BY <1>2 DEF StartModbus
    <2>2. \A v \in ModbusWorkers : Busy(v) => worker[v].dev # d
      <3>1. \A v \in ModbusWorkers : worker[v].age \in 0 .. HardLimit
        BY DEF Types, WorkerRecords
      <3>2. QED
        BY <1>2, <3>1, Limits DEF Locked
    <2>3. Types'
      BY <2>1, BeginFacts, Limits DEF device, Types
    <2>4. Polls'
      BY <2>1, BeginFacts DEF Polls
    <2>5. OnePollPerDevice'
      BY <2>1, <2>2, BeginFacts DEF At, Dev, OnePollPerDevice
    <2>6. Locked'
      <3> SUFFICES ASSUME NEW v \in ModbusWorkers, Busy(v)'
                   PROVE  deviceLock'[worker'[v].dev] + worker'[v].age
                              >= DeviceLockTimeout
        BY DEF Locked
      <3>1. CASE v = w
        BY <2>1, <3>1, BeginFacts, Limits DEF Types
      <3>2. CASE v # w
        BY <2>1, <2>2, <3>2, BeginFacts DEF Types, Polls, Locked
      <3>3. QED
        BY <3>1, <3>2
    <2>7. GatewayExclusive' /\ GatewayLocked'
      BY <2>1, BeginFacts DEF Dev, GatewayExclusive, GatewayLocked, OnGateway, Gateway
    <2>8. StatusAgrees' /\ HalfMarked'
      BY <2>1, BeginFacts DEF device, StatusAgrees, HalfMarked, FailureCount
    <2>9. QED
      BY <2>3, <2>4, <2>5, <2>6, <2>7, <2>8
  <1>3. QED
    BY <1>1, <1>2

-----------------------------------------------------------------------------
(* Time, and the steps that touch no poll.                                 *)

\* A lock that the invariant needs has not expired before the tick; if a gateway's
\* expires now, the poll that is on it has overrun.
LEMMA TickStep ==
    ASSUME IInv, Tick
    PROVE  IInv'
  <1> USE PollingAssumption DEF IInv, Workers, SnmpDevices, Threshold, Busy
  <1>1. \A w \in Workers : Busy(w) => worker[w].age + 1 <= HardLimit
    <2>1. \A w \in Workers : worker[w].age \in 0 .. HardLimit
      BY DEF Types, WorkerRecords
    <2>2. \A w \in Workers : Busy(w) =>
             worker[w].age < SoftLimit - 1 \/ worker[w].age < HardLimit
      BY DEF Tick, At
    <2>3. QED
      BY <2>1, <2>2, Limits
  <1>2. \A w \in Workers :
           worker'[w] = IF Busy(w) THEN [worker[w] EXCEPT !.age = @ + 1] ELSE Idle
    BY DEF Tick, At
  <1>3. Types'
    <2>1. ASSUME NEW w \in Workers PROVE worker'[w] \in WorkerRecords
      <3>1. worker[w] \in WorkerRecords
        BY DEF Types
      <3>2. CASE Busy(w)
        <4>1. worker[w].age + 1 \in 0 .. HardLimit
          BY <1>1, <3>1, <3>2, Limits DEF WorkerRecords
        <4>2. worker'[w] = [worker[w] EXCEPT !.age = worker[w].age + 1]
          BY <1>2, <3>2
        <4>3. QED
          BY <3>1, <4>1, <4>2 DEF WorkerRecords
      <3>3. CASE ~Busy(w)
        BY <1>2, <3>3, IdleType
      <3>4. QED
        BY <3>2, <3>3
    <2>2. worker' \in [Workers -> WorkerRecords]
      BY <2>1 DEF Tick
    <2>3. /\ deviceLock' \in [ModbusDevices -> Nat]
          /\ gatewayLock' \in [Gateways -> Nat]
      BY DEF Tick, Less, Types
    <2>4. QED
      BY <2>2, <2>3 DEF Tick, device, Types
  <1>4. \A w \in Workers :
           /\ worker'[w].pc = worker[w].pc
           /\ Busy(w) => /\ worker'[w].dev = worker[w].dev
                         /\ worker'[w].age = worker[w].age + 1
                         /\ worker'[w].seen = worker[w].seen
                         /\ worker'[w].gateway = worker[w].gateway
           /\ ~Busy(w) => ~worker'[w].gateway
    <2> SUFFICES ASSUME NEW w \in Workers
                 PROVE  /\ worker'[w].pc = worker[w].pc
                        /\ Busy(w) => /\ worker'[w].dev = worker[w].dev
                                      /\ worker'[w].age = worker[w].age + 1
                                      /\ worker'[w].seen = worker[w].seen
                                      /\ worker'[w].gateway = worker[w].gateway
                        /\ ~Busy(w) => ~worker'[w].gateway
      OBVIOUS
    <2>1. worker[w] \in WorkerRecords
      BY DEF Types
    <2>2. CASE Busy(w)
      <3>1. worker'[w] = [worker[w] EXCEPT !.age = worker[w].age + 1]
        BY <1>2, <2>2
      <3>2. QED
        BY <2>1, <2>2, <3>1 DEF WorkerRecords
    <2>3. CASE ~Busy(w)
      <3>1. worker'[w] = Idle
        BY <1>2, <2>3
      <3>2. worker'[w].pc = "idle" /\ worker'[w].gateway = FALSE
        BY <3>1 DEF Idle
      <3>3. QED
        BY <2>3, <3>2
    <2>4. QED
      BY <2>2, <2>3
  <1>5. Polls'
    BY <1>4 DEF Polls
  <1>6. OnePollPerDevice'
    BY <1>4 DEF OnePollPerDevice, At, Dev
  <1>7. Locked'
    <2> SUFFICES ASSUME NEW w \in ModbusWorkers, Busy(w)'
                 PROVE  (deviceLock[worker[w].dev] + worker[w].age >= DeviceLockTimeout)'
      BY DEF Locked
    <2>1. /\ worker[w].dev \in ModbusDevices
          /\ deviceLock[worker[w].dev] \in Nat
          /\ worker[w].age \in Nat
          /\ deviceLock[worker[w].dev] + worker[w].age >= DeviceLockTimeout
      BY <1>4 DEF Types, WorkerRecords, Polls, Locked
    <2>2. deviceLock[worker[w].dev] > 0
      BY <1>1, <1>4, <2>1, Limits
    <2>3. deviceLock'[worker[w].dev] = deviceLock[worker[w].dev] - 1
      BY <2>1, <2>2 DEF Tick, Less
    <2>4. QED
      BY <1>4, <2>1, <2>3, Limits
  <1>8. \A w \in ModbusWorkers, gw \in Gateways : OnGateway(w, gw)' => OnGateway(w, gw)
    BY <1>4 DEF OnGateway, Gateway, Dev
  <1>9. GatewayExclusive'
    BY <1>8 DEF GatewayExclusive, Tick
  <1>10. GatewayLocked'
    <2> SUFFICES ASSUME NEW w \in ModbusWorkers, NEW gw \in Gateways,
                        gw \notin overran', OnGateway(w, gw)'
                 PROVE  gatewayLock'[gw] > 0
      BY DEF GatewayLocked
    <2>1. gw \notin overran /\ OnGateway(w, gw)
      BY <1>8 DEF Tick
    <2>2. gatewayLock[gw] \in Nat /\ gatewayLock[gw] > 0 /\ gatewayLock[gw] # 1
      BY <2>1 DEF GatewayLocked, Types, Tick
    <2>3. QED
      BY <2>2 DEF Tick, Less
  <1>11. StatusAgrees' /\ HalfMarked'
    <2>1. UNCHANGED <<status, failures, torn>>
      BY DEF Tick, device
    <2>2. \A w \in ModbusWorkers : Busy(w) => FailureCount(w)' = FailureCount(w)
      BY <1>4 DEF FailureCount
    <2>3. StatusAgrees'
      BY <2>1 DEF StatusAgrees
    <2>4. HalfMarked'
      BY <1>4, <2>1, <2>2 DEF HalfMarked
    <2>5. QED
      BY <2>3, <2>4
  <1>12. QED
    BY <1>3, <1>5, <1>6, <1>7, <1>9, <1>10, <1>11

LEMMA QuietStep ==
    ASSUME IInv, UNCHANGED <<worker, locks, device, overran>>
    PROVE  IInv'
  BY DEF IInv, Busy, locks, device, Types, Polls, OnePollPerDevice, Locked,
     GatewayExclusive, GatewayLocked, OnGateway, Gateway, Dev, At, StatusAgrees,
     HalfMarked, FailureCount

-----------------------------------------------------------------------------
(* The invariant.                                                          *)

LEMMA InitIInv == Init => IInv
  <1> SUFFICES ASSUME Init PROVE IInv
    OBVIOUS
  <1> USE DEF Init, Busy
  <1>1. Types
    BY IdleType DEF Types, Statuses, Threshold
  <1>2. Polls /\ OnePollPerDevice /\ Locked
    BY DEF Polls, OnePollPerDevice, Locked, At, Idle, Workers
  <1>3. GatewayExclusive /\ GatewayLocked
    BY DEF GatewayExclusive, GatewayLocked, OnGateway, Idle, Workers
  <1>4. StatusAgrees /\ HalfMarked
    BY PollingAssumption DEF StatusAgrees, HalfMarked, Idle, Workers
  <1>5. QED
    BY <1>1, <1>2, <1>3, <1>4 DEF IInv

LEMMA NextIInv == IInv /\ [Next]_vars => IInv'
  <1> SUFFICES ASSUME IInv, [Next]_vars PROVE IInv'
    OBVIOUS
  <1>1. CASE Schedule \/ SchedulerDies
    BY <1>1, QuietStep DEF Schedule, FetchDue, EnqueueOne, SaveNextPoll, SchedulerDies,
       locks, device
  <1>2. CASE OperatorEnqueue(ModbusDevices) \/ OperatorEnqueue(SnmpDevices)
    BY <1>2, QuietStep DEF OperatorEnqueue, locks, device
  <1>3. ASSUME NEW d \in Devices, Start(d) PROVE IInv'
    BY <1>3, StartSnmpStep, StartModbusStep DEF Start
  <1>4. ASSUME NEW d \in Devices, Flip(d) PROVE IInv'
    BY <1>4, QuietStep DEF Flip, locks, device
  <1>5. ASSUME NEW w \in Workers, Work(w) PROVE IInv'
    BY <1>5, LoadSnmpStep, LoadModbusStep, ReadSnmpStep, ReadModbusStep, MarkOnlineStep,
       ResetFailuresStep, MarkDownStep, CountFailureStep, ReleaseStep, HardTimeLimitStep
       DEF Work
  <1>6. ASSUME NEW w \in Workers,
               \/ LoadFails(w) \/ ConfigurationFails(w)
               \/ ReadFails(w) \/ Raises(w) \/ Die(w)
        PROVE  IInv'
    BY <1>6, LoadFailsStep, ConfigurationFailsStep, ReadFailsStep, RaisesStep, DieStep
  <1>7. CASE Tick
    BY <1>7, TickStep
  <1>8. CASE UNCHANGED vars
    BY <1>8, QuietStep DEF vars, locks, device
  <1>9. QED
    BY <1>1, <1>2, <1>3, <1>4, <1>5, <1>6, <1>7, <1>8 DEF Next

LEMMA Invariance == Spec => []IInv
  BY InitIInv, NextIInv, PTL DEF Spec

-----------------------------------------------------------------------------
(* Theorems.                                                               *)

\* acquire_device_poll_lock keeps a second poll of a Modbus device out, although
\* the lock expires and is released by name: a poll is killed before the expiry.
THEOREM OnePollTheorem == Spec => []OnePollPerDevice
  <1>1. IInv => OnePollPerDevice
    BY DEF IInv
  <1>2. QED
    BY <1>1, Invariance, PTL

\* acquire_modbus_gateway_lock keeps polls of one gateway apart for as long as no
\* poll has outlived the lock of that gateway.
THEOREM GatewayTheorem == Spec => []GatewayExclusive
  <1>1. IInv => GatewayExclusive
    BY DEF IInv
  <1>2. QED
    BY <1>1, Invariance, PTL

\* _mark_success and _mark_failure keep the status of a Modbus device and its
\* consecutive_failures in agreement, except where a poll died between the two.
THEOREM StatusTheorem == Spec => []StatusAgrees
  <1>1. IInv => StatusAgrees
    BY DEF IInv
  <1>2. QED
    BY <1>1, Invariance, PTL

-----------------------------------------------------------------------------
(* The seeds that MCPolling composes with polling.  They are proved about      *)
(* where they are specified; here the theorem is carried over to the           *)
(* specification that the run checks.                                          *)

SeedProofs == INSTANCE Seeds_proofs WITH
                  Oids <- {"o1", "o2"}, Savers <- {"p", "q"}, MaxEdits <- 2

(* Two instances of one module with the same parameters say the same.         *)
LEMMA SameSeeds == SeedProofs!Spec <=> Seeding!Spec
  BY DEF SeedProofs!Cardinality, Seeding!Cardinality, SeedProofs!Matching, SeedProofs!Fresh,
         SeedProofs!Upserted, SeedProofs!Kept, SeedProofs!Item, SeedProofs!ATSItems,
         SeedProofs!UPSItems, SeedProofs!PACItems, SeedProofs!NetBotzMetrics,
         SeedProofs!NetBotzItems, SeedProofs!PDUItems, SeedProofs!DCIMItems, SeedProofs!Unplaced,
         SeedProofs!ATSTarget, SeedProofs!NetBotzTarget, SeedProofs!UPSTarget,
         SeedProofs!PACTarget, SeedProofs!UPSTrapTarget, SeedProofs!PDUTarget,
         SeedProofs!PDUTrapTarget, SeedProofs!PACTrapTarget, SeedProofs!DCIMTarget,
         SeedProofs!Upper, SeedProofs!MetricDataTypes, SeedProofs!UPSChoice,
         SeedProofs!PACChoice, SeedProofs!ATSChoice, SeedProofs!ATSMetric, SeedProofs!UPSMetric,
         SeedProofs!PACMetric, SeedProofs!NetBotzMetric, SeedProofs!PDUMetric, SeedProofs!ATSKey,
         SeedProofs!UPSKey, SeedProofs!NetBotzKey, SeedProofs!DCIMKey, SeedProofs!PACKeyWithOid,
         SeedProofs!PACKey, SeedProofs!PDUKey, SeedProofs!OidScripts, SeedProofs!PDUTrapKey,
         SeedProofs!UPSTrapKey, SeedProofs!PACTrapKey, SeedProofs!TrapScripts, SeedProofs!Target,
         SeedProofs!SavedType, SeedProofs!vars, SeedProofs!Codes, SeedProofs!Tables,
         SeedProofs!Init, SeedProofs!Edit, SeedProofs!Release, SeedProofs!AddModel,
         SeedProofs!AddRow, SeedProofs!Toggle, SeedProofs!Delete, SeedProofs!Vendor,
         SeedProofs!MappingRow, SeedProofs!SeedMappings, SeedProofs!SeedBaseline,
         SeedProofs!TrapRow, SeedProofs!SeedTraps, SeedProofs!SeedPacTrap,
         SeedProofs!StopHalfway, SeedProofs!RuleRow, SeedProofs!Scope, SeedProofs!Unique,
         SeedProofs!Check, SeedProofs!SeedByName, SeedProofs!SeedByCondition,
         SeedProofs!EditRule, SeedProofs!SaveRule, SeedProofs!Next, SeedProofs!Spec,
         Seeding!Matching, Seeding!Fresh, Seeding!Upserted, Seeding!Kept, Seeding!Item,
         Seeding!ATSItems, Seeding!UPSItems, Seeding!PACItems, Seeding!NetBotzMetrics,
         Seeding!NetBotzItems, Seeding!PDUItems, Seeding!DCIMItems, Seeding!Unplaced,
         Seeding!ATSTarget, Seeding!NetBotzTarget, Seeding!UPSTarget, Seeding!PACTarget,
         Seeding!UPSTrapTarget, Seeding!PDUTarget, Seeding!PDUTrapTarget, Seeding!PACTrapTarget,
         Seeding!DCIMTarget, Seeding!Upper, Seeding!MetricDataTypes, Seeding!UPSChoice,
         Seeding!PACChoice, Seeding!ATSChoice, Seeding!ATSMetric, Seeding!UPSMetric,
         Seeding!PACMetric, Seeding!NetBotzMetric, Seeding!PDUMetric, Seeding!ATSKey,
         Seeding!UPSKey, Seeding!NetBotzKey, Seeding!DCIMKey, Seeding!PACKeyWithOid,
         Seeding!PACKey, Seeding!PDUKey, Seeding!OidScripts, Seeding!PDUTrapKey,
         Seeding!UPSTrapKey, Seeding!PACTrapKey, Seeding!TrapScripts, Seeding!Target,
         Seeding!SavedType, Seeding!vars, Seeding!Codes, Seeding!Tables, Seeding!Init,
         Seeding!Edit, Seeding!Release, Seeding!AddModel, Seeding!AddRow, Seeding!Toggle,
         Seeding!Delete, Seeding!Vendor, Seeding!MappingRow, Seeding!SeedMappings,
         Seeding!SeedBaseline, Seeding!TrapRow, Seeding!SeedTraps, Seeding!SeedPacTrap,
         Seeding!StopHalfway, Seeding!RuleRow, Seeding!Scope, Seeding!Unique, Seeding!Check,
         Seeding!SeedByName, Seeding!SeedByCondition, Seeding!EditRule, Seeding!SaveRule,
         Seeding!Next, Seeding!Spec

LEMMA SameOutcomes ==
    /\ \A n : SeedProofs!R!Num(n) = Seeding!R!Num(n)
    /\ \A i : SeedProofs!R!Outcome(i) = Seeding!R!Outcome(i)
    /\ \A type, stored : SeedProofs!R!Quality(type, stored) = Seeding!R!Quality(type, stored)
  <1>1. \A n : SeedProofs!R!Num(n) = Seeding!R!Num(n)
    BY DEF SeedProofs!R!Num, Seeding!R!Num
  <1>2. \A protocol, raw, m :
            SeedProofs!R!Final(protocol, raw, m) = Seeding!R!Final(protocol, raw, m)
    BY DEF SeedProofs!R!Num, SeedProofs!R!Bool, SeedProofs!R!Text, SeedProofs!R!None,
           SeedProofs!R!Unit, SeedProofs!R!Abs, SeedProofs!R!Sign, SeedProofs!R!Truncated,
           SeedProofs!R!Scaled, SeedProofs!R!Truth, SeedProofs!R!Parsed, SeedProofs!R!Applied,
           SeedProofs!R!Normalized, SeedProofs!R!Final, Seeding!R!Num, Seeding!R!Bool,
           Seeding!R!Text, Seeding!R!None, Seeding!R!Unit, Seeding!R!Abs, Seeding!R!Sign,
           Seeding!R!Truncated, Seeding!R!Scaled, Seeding!R!Truth, Seeding!R!Parsed,
           Seeding!R!Applied, Seeding!R!Normalized, Seeding!R!Final
  <1>3. \A type, v : SeedProofs!R!Stored(type, v) = Seeding!R!Stored(type, v)
    BY DEF SeedProofs!R!Num, SeedProofs!R!Bool, SeedProofs!R!Text, SeedProofs!R!None,
           SeedProofs!R!Unit, SeedProofs!R!Abs, SeedProofs!R!Sign, SeedProofs!R!HalfUp,
           SeedProofs!R!Truth, SeedProofs!R!AsNumber, SeedProofs!R!GoesToText,
           SeedProofs!R!ColumnOf, SeedProofs!R!Stored, Seeding!R!Num, Seeding!R!Bool,
           Seeding!R!Text, Seeding!R!None, Seeding!R!Unit, Seeding!R!Abs, Seeding!R!Sign,
           Seeding!R!HalfUp, Seeding!R!Truth, Seeding!R!AsNumber, Seeding!R!GoesToText,
           Seeding!R!ColumnOf, Seeding!R!Stored
  <1>4. \A i : SeedProofs!R!Outcome(i) = Seeding!R!Outcome(i)
    BY <1>2, <1>3 DEF SeedProofs!R!Outcome, Seeding!R!Outcome
  <1>5. \A type, stored : SeedProofs!R!Quality(type, stored) = Seeding!R!Quality(type, stored)
    BY DEF SeedProofs!R!Quality, SeedProofs!R!ColumnOf, Seeding!R!Quality, Seeding!R!ColumnOf
  <1>. QED BY <1>1, <1>4, <1>5

LEMMA SameSeeding == SeedProofs!SeedingRight <=> Seeding!SeedingRight
  <1>1. \A r, raw : SeedProofs!ReadRight(r, raw) <=> Seeding!ReadRight(r, raw)
    BY SameOutcomes
       DEF SeedProofs!ReadRight, SeedProofs!ReadAs, SeedProofs!Upper, Seeding!ReadRight,
           Seeding!ReadAs, Seeding!Upper
  <1>2. SeedProofs!SeededMetricsRead <=> Seeding!SeededMetricsRead
    <2>1. DOMAIN SeedProofs!OidScripts = DOMAIN Seeding!OidScripts
      BY DEF SeedProofs!OidScripts, Seeding!OidScripts
    <2>. QED BY <1>1, <2>1
                DEF SeedProofs!SeededMetricsRead, SeedProofs!Choosable, SeedProofs!OldOidsKept,
                    Seeding!SeededMetricsRead, Seeding!Choosable, Seeding!OldOidsKept
  <1>3. SeedProofs!TrapsUnderstood <=> Seeding!TrapsUnderstood
    <2>1. DOMAIN SeedProofs!TrapScripts = DOMAIN Seeding!TrapScripts
      BY DEF SeedProofs!TrapScripts, Seeding!TrapScripts
    <2>. QED BY <2>1
                DEF SeedProofs!TrapsUnderstood, SeedProofs!Codes, Seeding!TrapsUnderstood,
                    Seeding!Codes
  <1>4. SeedProofs!RulesApart <=> Seeding!RulesApart
    BY DEF SeedProofs!RulesApart, SeedProofs!Scope, Seeding!RulesApart, Seeding!Scope
  <1>. QED BY <1>2, <1>3, <1>4 DEF SeedProofs!SeedingRight, Seeding!SeedingRight

(* What MCPolling adds beside polling leaves polling as it is.               *)
LEMMA PollingIsPart == MCSpec => Spec
  <1>1. MCInit \/ TryReading \/ NothingPolled => Init
    BY DEF MCInit, TryReading, NothingPolled
  <1>2. [MCNext]_<<vars, reading, seedVars>> => [Next]_vars
    BY DEF MCNext
  <1>. QED BY <1>1, <1>2, PTL DEF MCSpec, Spec

(* Without a script nothing is ever seeded; with one, whatever happens is a     *)
(* behaviour of the seeds.                                                     *)
LEMMA SeedsArePart == MCSpec => [](script = NoScript) \/ Seeding!Spec
  <1>1. SeedingAside => script = NoScript
    BY DEF SeedingAside
  <1>2. script = NoScript /\ [MCNext]_<<vars, reading, seedVars>> => (script = NoScript)'
    BY DEF MCNext, seedVars
  <1>3. Seeding!Init => script # NoScript
    BY DEF Seeding!Init, NoScript, Seeding!OidScripts, Seeding!TrapScripts
  <1>4. script # NoScript /\ [MCNext]_<<vars, reading, seedVars>> =>
            [Seeding!Next]_(Seeding!vars) /\ (script # NoScript)'
    <2>1. Seeding!Next => script' = script
      BY DEF Seeding!Next, Seeding!Release, Seeding!AddModel, Seeding!StopHalfway,
             Seeding!AddRow, Seeding!Toggle, Seeding!Delete, Seeding!SeedMappings,
             Seeding!SeedBaseline, Seeding!SeedTraps, Seeding!SeedPacTrap,
             Seeding!SeedByName, Seeding!SeedByCondition, Seeding!EditRule,
             Seeding!SaveRule
    <2>. QED BY <2>1 DEF MCNext, seedVars, Seeding!vars
  <1>. QED BY <1>1, <1>2, <1>3, <1>4, PTL DEF MCSpec, Seeding!Spec, TryReading

(* After each script, and whatever operators and releases did before it, the   *)
(* collector, the trap receiver and the alert engine read what its table says. *)
THEOREM ScriptsSeedRight == MCSpec => []SeedingRight
  <1>1. script = NoScript => SeedingRight
    BY DEF SeedingRight
  <1>2. Seeding!SeedingRight => SeedingRight
    BY DEF SeedingRight
  <1>3. Seeding!Spec => []Seeding!SeedingRight
    BY SeedProofs!SeedsDoTheirWork, SameSeeds, SameSeeding, PTL
  <1>. QED BY <1>1, <1>2, <1>3, SeedsArePart, PTL

-----------------------------------------------------------------------------
(* The readings and rules that MCPolling tries, likewise.                      *)

RuleProofs == INSTANCE AlertRules_proofs WITH
                  Word <- 16, CenterOrg <- [d1 |-> "a", d2 |-> "a", d3 |-> "b"]

(* Two instances of one module with the same parameters say the same.         *)
LEMMA SameNum == \A n : RuleProofs!Num(n) = J!Num(n)
  BY DEF RuleProofs!Num, J!Num

LEMMA SameBool == \A b : RuleProofs!Bool(b) = J!Bool(b)
  BY DEF RuleProofs!Bool, J!Bool

LEMMA SameText == \A t : RuleProofs!Text(t) = J!Text(t)
  BY DEF RuleProofs!Text, J!Text

LEMMA SameNone == RuleProofs!None = J!None
  BY DEF RuleProofs!None, J!None

LEMMA SameWords == RuleProofs!Words = J!Words
  BY DEF RuleProofs!Words, J!Words

LEMMA SameAbs == \A n : RuleProofs!Abs(n) = J!Abs(n)
  BY DEF RuleProofs!Abs, J!Abs

LEMMA SameSign == \A n : RuleProofs!Sign(n) = J!Sign(n)
  BY DEF RuleProofs!Sign, J!Sign

LEMMA SameTruncated == \A n : RuleProofs!Truncated(n) = J!Truncated(n)
  BY SameAbs, SameSign DEF RuleProofs!Unit, RuleProofs!Truncated, J!Unit, J!Truncated

LEMMA SameHalfUp == \A n : RuleProofs!HalfUp(n) = J!HalfUp(n)
  BY SameAbs, SameSign DEF RuleProofs!Unit, RuleProofs!HalfUp, J!Unit, J!HalfUp

LEMMA SameScaled == \A n, m : RuleProofs!Scaled(n, m) = J!Scaled(n, m)
  BY DEF RuleProofs!Unit, RuleProofs!Scaled, J!Unit, J!Scaled

LEMMA SameTruth == \A v : RuleProofs!Truth(v) = J!Truth(v)
  BY DEF RuleProofs!Truth, J!Truth

LEMMA SameAsNumber == \A v : RuleProofs!AsNumber(v) = J!AsNumber(v)
  BY DEF RuleProofs!Unit, RuleProofs!AsNumber, J!Unit, J!AsNumber

LEMMA SameFinal ==
    \A protocol, raw, m : RuleProofs!Final(protocol, raw, m) = J!Final(protocol, raw, m)
  BY SameNum, SameBool, SameText, SameNone, SameTruncated, SameScaled, SameTruth DEF
     RuleProofs!Unit, RuleProofs!Parsed, RuleProofs!Applied, RuleProofs!Normalized,
     RuleProofs!Final, J!Unit, J!Parsed, J!Applied, J!Normalized, J!Final

LEMMA SameStored == \A type, v : RuleProofs!Stored(type, v) = J!Stored(type, v)
  BY DEF RuleProofs!Num, RuleProofs!Bool, RuleProofs!None, RuleProofs!Unit, RuleProofs!Abs,
     RuleProofs!Sign, RuleProofs!HalfUp, RuleProofs!Truth, RuleProofs!AsNumber,
     RuleProofs!GoesToText, RuleProofs!Stored, J!Num, J!Bool, J!None, J!Unit, J!Abs, J!Sign,
     J!HalfUp, J!Truth, J!AsNumber, J!GoesToText, J!Stored

LEMMA SameQuality ==
    \A type, payload : RuleProofs!Quality(type, payload) = J!Quality(type, payload)
  BY DEF RuleProofs!ColumnOf, RuleProofs!Quality, J!ColumnOf, J!Quality

LEMMA SameColumnOf == \A type : RuleProofs!ColumnOf(type) = J!ColumnOf(type)
  BY DEF RuleProofs!ColumnOf, J!ColumnOf

LEMMA SameOutcome == \A i : RuleProofs!Outcome(i) = J!Outcome(i)
  BY SameFinal, SameStored DEF RuleProofs!Outcome, J!Outcome

LEMMA SameMeasured == \A i : RuleProofs!Measured(i) = J!Measured(i)
  BY SameScaled DEF RuleProofs!Unit, RuleProofs!Measured, J!Unit, J!Measured

LEMMA SameLost == \A i : RuleProofs!Lost(i) = J!Lost(i)
  BY DEF RuleProofs!Unit, RuleProofs!Lost, J!Unit, J!Lost

LEMMA SameStoredAsMeasured == \A i : RuleProofs!StoredAsMeasured(i) <=> J!StoredAsMeasured(i)
  BY SameAbs, SameQuality, SameOutcome, SameMeasured, SameLost DEF RuleProofs!StoredAsMeasured,
     J!StoredAsMeasured

LEMMA SameColumns == RuleProofs!Columns = J!Columns
  BY DEF RuleProofs!Columns, J!Columns

LEMMA SameToSet == \A list : RuleProofs!ToSet(list) = J!ToSet(list)
  BY DEF RuleProofs!ToSet, J!ToSet

LEMMA SameMin == \A list : RuleProofs!Min(list) = J!Min(list)
  BY DEF RuleProofs!Min, J!Min

LEMMA SameFirstSet == \A row : RuleProofs!FirstSet(row) = J!FirstSet(row)
  BY SameNone, SameColumns, SameMin DEF RuleProofs!FirstSet, J!FirstSet

LEMMA SameCompare ==
    \A operator, value, threshold : RuleProofs!Compare(operator, value, threshold)
        <=> J!Compare(operator, value, threshold)
  BY DEF RuleProofs!None, RuleProofs!Unit, RuleProofs!AsNumber, RuleProofs!Key,
     RuleProofs!Ordered, RuleProofs!Compare, J!None, J!Unit, J!AsNumber, J!Key, J!Ordered,
     J!Compare

LEMMA SameCondition ==
    \A rule, latest : RuleProofs!Condition(rule, latest) <=> J!Condition(rule, latest)
  BY SameFirstSet, SameCompare DEF RuleProofs!Condition, J!Condition

LEMMA SameMeets ==
    \A operator, difference : RuleProofs!Meets(operator, difference)
        <=> J!Meets(operator, difference)
  BY SameSign DEF RuleProofs!Signs, RuleProofs!Meets, J!Signs, J!Meets

LEMMA SameConditionAsMeasured ==
    \A i, rule : RuleProofs!ConditionAsMeasured(i, rule) <=> J!ConditionAsMeasured(i, rule)
  BY SameNone, SameAbs, SameAsNumber, SameOutcome, SameMeasured, SameLost, SameColumns,
     SameToSet, SameFirstSet, SameCondition, SameMeets DEF RuleProofs!Unit,
     RuleProofs!ConditionAsMeasured, J!Unit, J!ConditionAsMeasured

LEMMA SameRangeOf == \A type : RuleProofs!RangeOf(type) = J!RangeOf(type)
  BY DEF RuleProofs!RangeOf, J!RangeOf

LEMMA SameRegistersRead ==
    \A n, type : RuleProofs!RegistersRead(n, type) <=> J!RegistersRead(n, type)
  BY DEF RuleProofs!NoNumber, RuleProofs!Decoded, RuleProofs!Encoded, RuleProofs!RegistersRead,
     J!NoNumber, J!Decoded, J!Encoded, J!RegistersRead

LEMMA SameDeduped == \A mappings : RuleProofs!Deduped(mappings) = J!Deduped(mappings)
  BY DEF RuleProofs!Deduped, RuleProofs!Max, RuleProofs!FoldLeft, RuleProofs!MapThenFoldSet,
     J!Deduped, J!Max, J!FoldLeft, J!MapThenFoldSet

LEMMA SameMappingsChosen ==
    \A mappings : RuleProofs!MappingsChosen(mappings) <=> J!MappingsChosen(mappings)
  BY SameToSet, SameDeduped DEF RuleProofs!MappingsChosen, J!MappingsChosen

LEMMA SameAbsent == RuleProofs!Absent = J!Absent
  BY DEF RuleProofs!Absent, J!Absent

LEMMA SamePlain == \A text : RuleProofs!Plain(text) = J!Plain(text)
  BY DEF RuleProofs!Plain, J!Plain

LEMMA SameEncrypted ==
    \A secret, key : RuleProofs!Encrypted(secret, key) = J!Encrypted(secret, key)
  BY DEF RuleProofs!Encrypted, J!Encrypted

LEMMA SameDecrypted ==
    \A secret, key : RuleProofs!Decrypted(secret, key) = J!Decrypted(secret, key)
  BY SameAbsent, SamePlain DEF RuleProofs!Decrypted, J!Decrypted

LEMMA SameSaved == \A o, key : RuleProofs!Saved(o, key) = J!Saved(o, key)
  BY SameEncrypted DEF RuleProofs!Saved, J!Saved

LEMMA SameAuthData == \A c, key : RuleProofs!AuthData(c, key) = J!AuthData(c, key)
  BY SameAbsent, SameDecrypted DEF RuleProofs!AuthProtocols, RuleProofs!PrivProtocols,
     RuleProofs!AuthData, J!AuthProtocols, J!PrivProtocols, J!AuthData

LEMMA SameAccepts == \A o : RuleProofs!Accepts(o) <=> J!Accepts(o)
  BY SameAbsent DEF RuleProofs!Accepts, J!Accepts

LEMMA SameSecretsKept ==
    \A o, key, other : RuleProofs!SecretsKept(o, key, other) <=> J!SecretsKept(o, key, other)
  BY SameEncrypted, SameSaved, SameAuthData, SameAccepts DEF RuleProofs!SecretsKept,
     J!SecretsKept

LEMMA SameNull == RuleProofs!Null = J!Null
  BY DEF RuleProofs!Null, J!Null

LEMMA SameCovers == \A field, value : RuleProofs!Covers(field, value) <=> J!Covers(field, value)
  BY SameNull DEF RuleProofs!Covers, J!Covers

LEMMA SameCenterFits == \A row : RuleProofs!CenterFits(row) <=> J!CenterFits(row)
  BY SameNull DEF RuleProofs!CenterFits, J!CenterFits

LEMMA SameAcceptsRule ==
    \A rule, dev : RuleProofs!AcceptsRule(rule, dev) <=> J!AcceptsRule(rule, dev)
  BY DEF RuleProofs!None, RuleProofs!Null, RuleProofs!Covers, RuleProofs!CenterFits,
     RuleProofs!Columns, RuleProofs!AcceptsRule, RuleProofs!Cardinality, RuleProofs!ToSet, J!None,
     J!Null, J!Covers, J!CenterFits, J!Columns, J!AcceptsRule, J!Cardinality, J!ToSet

LEMMA SameApplies ==
    \A rule, dev, name : RuleProofs!Applies(rule, dev, name) <=> J!Applies(rule, dev, name)
  BY SameNull, SameCovers DEF RuleProofs!Applies, J!Applies

LEMMA SameBefore == \A a, b : RuleProofs!Before(a, b) <=> J!Before(a, b)
  BY SameNull DEF RuleProofs!Rank, RuleProofs!Before, J!Rank, J!Before

LEMMA SameMatching ==
    \A rules, dev, name : RuleProofs!Matching(rules, dev, name) = J!Matching(rules, dev, name)
  BY DEF RuleProofs!Null, RuleProofs!Covers, RuleProofs!Applies, RuleProofs!Rank,
     RuleProofs!Before, RuleProofs!Matching, RuleProofs!Cardinality, RuleProofs!ToSet, J!Null,
     J!Covers, J!Applies, J!Rank, J!Before, J!Matching, J!Cardinality, J!ToSet

LEMMA SameFields == \A rule : RuleProofs!Fields(rule) = J!Fields(rule)
  BY SameNull DEF RuleProofs!Fields, J!Fields

LEMMA SameRulesFound ==
    \A rules, dev, before, name : RuleProofs!RulesFound(rules, dev, before, name)
        <=> J!RulesFound(rules, dev, before, name)
  BY SameToSet, SameCovers, SameMatching, SameFields DEF RuleProofs!RulesFound, J!RulesFound

LEMMA SameSameScope == \A w, o : RuleProofs!SameScope(w, o) <=> J!SameScope(w, o)
  BY DEF RuleProofs!SameScope, J!SameScope

LEMMA SameAcceptsWindow ==
    \A w, dev, stored : RuleProofs!AcceptsWindow(w, dev, stored)
        <=> J!AcceptsWindow(w, dev, stored)
  BY SameNull, SameCovers, SameCenterFits, SameSameScope DEF RuleProofs!AcceptsWindow,
     J!AcceptsWindow

LEMMA SameSuppressed ==
    \A windows, dev, name, now : RuleProofs!Suppressed(windows, dev, name, now)
        <=> J!Suppressed(windows, dev, name, now)
  BY SameCovers DEF RuleProofs!Suppressed, J!Suppressed

LEMMA SameWindowsApart ==
    \A first, second, dev, name, now : RuleProofs!WindowsApart(first, second, dev, name, now)
        <=> J!WindowsApart(first, second, dev, name, now)
  BY DEF RuleProofs!Null, RuleProofs!Covers, RuleProofs!SameScope, RuleProofs!Suppressed,
     RuleProofs!WindowsApart, J!Null, J!Covers, J!SameScope, J!Suppressed, J!WindowsApart

LEMMA SameNever == RuleProofs!Never = J!Never
  BY DEF RuleProofs!Never, J!Never

LEMMA SameAcceptsPolicy ==
    \A p, stored : RuleProofs!AcceptsPolicy(p, stored) <=> J!AcceptsPolicy(p, stored)
  BY SameNull, SameCenterFits, SameNever DEF RuleProofs!AcceptsPolicy, J!AcceptsPolicy

LEMMA SamePolicyMatches ==
    \A p, alert : RuleProofs!PolicyMatches(p, alert) <=> J!PolicyMatches(p, alert)
  BY SameCovers DEF RuleProofs!PolicyMatches, J!PolicyMatches

LEMMA SameTriggerMet ==
    \A p, alert, minutes : RuleProofs!TriggerMet(p, alert, minutes)
        <=> J!TriggerMet(p, alert, minutes)
  BY SameNever DEF RuleProofs!TriggerMet, J!TriggerMet

LEMMA SameStopping ==
    \A policies, alert, minutes : RuleProofs!Stopping(policies, alert, minutes)
        = J!Stopping(policies, alert, minutes)
  BY DEF RuleProofs!Null, RuleProofs!Covers, RuleProofs!Never, RuleProofs!PolicyMatches,
     RuleProofs!TriggerMet, RuleProofs!Stopping, RuleProofs!Min, RuleProofs!SelectInSeq, J!Null,
     J!Covers, J!Never, J!PolicyMatches, J!TriggerMet, J!Stopping, J!Min, J!SelectInSeq

LEMMA SameEscalated ==
    \A policies, alert, minutes : RuleProofs!Escalated(policies, alert, minutes)
        = J!Escalated(policies, alert, minutes)
  BY SameStopping DEF RuleProofs!Escalated, J!Escalated

LEMMA SameMinutes == \A p : RuleProofs!Minutes(p) = J!Minutes(p)
  BY SameMin, SameNever DEF RuleProofs!Minutes, J!Minutes

LEMMA SameTiersReached ==
    \A policies, alert, minutes : RuleProofs!TiersReached(policies, alert, minutes)
        <=> J!TiersReached(policies, alert, minutes)
  BY SameCovers, SameNever, SameEscalated, SameMinutes DEF RuleProofs!TiersReached,
     J!TiersReached

LEMMA SameClockRestarts ==
    \A policies, alert, minutes : RuleProofs!ClockRestarts(policies, alert, minutes)
        <=> J!ClockRestarts(policies, alert, minutes)
  BY SameNever, SameEscalated DEF RuleProofs!ClockRestarts, J!ClockRestarts


(* The inputs that are tried are those that the theorems are about.            *)
LEMMA ValuesAreInputs == ASSUME NEW i \in Values PROVE RuleProofs!IsInput(i)
  <1>1. PICK p \in {"SNMP", "MODBUS"} :
            i \in [of : {"value"}, protocol : {p}, raw : Raws(p), m : Mappings,
                   metric : {"FLOAT", "INTEGER", "BOOLEAN", "TEXT"}]
    BY DEF Values
  <1>2. i.protocol = p /\ i.raw \in Raws(p) /\ i.m \in Mappings
        /\ i.metric \in {"FLOAT", "INTEGER", "BOOLEAN", "TEXT"}
    BY <1>1
  <1>3. /\ i.m.type \in {"number", "integer", "bool", "text"}
        /\ i.m.scale \in Int /\ i.m.offset \in Int
    BY <1>2 DEF Mappings
  <1>4. RuleProofs!IsRaw(p, i.raw)
    <2>1. \/ \E n \in {-250, -100, 0, 50, 100, 150, 250} : i.raw = J!Num(n)
          \/ p = "SNMP" /\ \E t \in J!Words : i.raw = J!Text(t)
          \/ p = "MODBUS" /\ \E b \in BOOLEAN : i.raw = J!Bool(b)
      BY <1>2 DEF Raws
    <2>2. \A n \in {-250, -100, 0, 50, 100, 150, 250} : n \in Int
      OBVIOUS
    <2>. QED BY <2>1, <2>2, SameNum, SameText, SameBool, SameWords DEF RuleProofs!IsRaw
  <1>. QED BY <1>2, <1>3, <1>4 DEF RuleProofs!IsInput

LEMMA ThresholdsAreSet ==
    ASSUME NEW rule \in Conditions
    PROVE  rule.operator \in RuleProofs!Operators /\ RuleProofs!IsThreshold(rule.threshold)
  <1>1. rule.operator \in RuleProofs!Operators
    BY DEF Conditions, RuleProofs!Operators
  <1>2. RuleProofs!ToSet(RuleProofs!Columns) = {"float", "integer", "boolean", "text"}
    BY RuleProofs!ColumnsAre
  <1>3. ASSUME NEW column \in {"float", "integer", "boolean", "text"}, NEW v
        PROVE  /\ SetTo(column, v)[column] = v
               /\ \A other \in RuleProofs!ToSet(RuleProofs!Columns) \ {column} :
                     SetTo(column, v)[other] = RuleProofs!None
    BY <1>2, SameNone DEF SetTo
  <1>4. \/ rule.threshold = SetTo("float", RuleProofs!Num(50))
        \/ rule.threshold = SetTo("integer", RuleProofs!Num(100))
        \/ rule.threshold = SetTo("integer", RuleProofs!Num(0))
        \/ rule.threshold = SetTo("boolean", RuleProofs!Bool(TRUE))
        \/ rule.threshold = SetTo("boolean", RuleProofs!Bool(FALSE))
        \/ rule.threshold = SetTo("text", RuleProofs!Text("on"))
    BY SameNum, SameBool, SameText DEF Conditions
  <1>5. \A n \in Int : RuleProofs!IsThreshold(SetTo("float", RuleProofs!Num(n)))
                       /\ RuleProofs!IsThreshold(SetTo("integer", RuleProofs!Num(n)))
    BY <1>2, <1>3 DEF RuleProofs!IsThreshold
  <1>6. \A b \in BOOLEAN : RuleProofs!IsThreshold(SetTo("boolean", RuleProofs!Bool(b)))
    BY <1>2, <1>3 DEF RuleProofs!IsThreshold
  <1>7. RuleProofs!IsThreshold(SetTo("text", RuleProofs!Text("on")))
    BY <1>2, <1>3 DEF RuleProofs!IsThreshold, RuleProofs!Words
  <1>8. RuleProofs!IsThreshold(rule.threshold)
    <2>1. 50 \in Int /\ 100 \in Int /\ 0 \in Int /\ TRUE \in BOOLEAN /\ FALSE \in BOOLEAN
      OBVIOUS
    <2>. QED BY <1>4, <1>5, <1>6, <1>7, <2>1, Zenon
  <1>. QED BY <1>1, <1>8

LEMMA ValuesRight ==
    ASSUME NEW i \in Values
    PROVE  J!StoredAsMeasured(i) /\ \A rule \in Conditions : J!ConditionAsMeasured(i, rule)
  <1>1. RuleProofs!StoredAsMeasured(i)
    BY ValuesAreInputs, RuleProofs!ReadingsAreStored
  <1>2. \A rule \in Conditions : RuleProofs!ConditionAsMeasured(i, rule)
    BY ValuesAreInputs, ThresholdsAreSet, RuleProofs!ConditionsAreAsMeasured
  <1>. QED BY <1>1, <1>2, SameStoredAsMeasured, SameConditionAsMeasured

LEMMA RegistersRight == ASSUME NEW i \in Registers PROVE J!RegistersRead(i.n, i.type)
  <1>1. i.n \in RuleProofs!RangeOf(i.type)
    BY SameRangeOf DEF Registers
  <1>2. RuleProofs!RegisterAssumption
    BY DEF RuleProofs!RegisterAssumption
  <1>3. RuleProofs!RegistersRead(i.n, i.type)
    BY <1>1, <1>2, RuleProofs!RegistersAreRead
  <1>. QED BY <1>3, SameRegistersRead

LEMMA ListsRight == ASSUME NEW i \in Lists PROVE J!MappingsChosen(i.list)
  <1>1. PICK n \in 0 .. 3 : i.list \in [1 .. n -> [metric : {"load", "status"},
                                                   specific : BOOLEAN, id : {1, 2}]]
    BY DEF Lists, SeqOf
  <1>2. n \in Nat /\ DOMAIN i.list = 1 .. n
    BY <1>1
  <1>3. RuleProofs!MappingsChosen(i.list)
    BY <1>2, RuleProofs!MappingsAreChosen
  <1>. QED BY <1>3, SameMappingsChosen

LEMMA OptionsRight == ASSUME NEW i \in Options PROVE J!SecretsKept(i, "key", "new key")
  <1>1. \A secret \in Secrets : RuleProofs!IsSecret(secret)
    BY SameAbsent, SamePlain DEF Secrets, RuleProofs!IsSecret
  <1>2. i.community \in Secrets /\ i.authKey \in Secrets /\ i.privKey \in Secrets
    BY DEF Options
  <1>3. RuleProofs!SecretsKept(i, "key", "new key")
    BY <1>1, <1>2, RuleProofs!SecretsAreKept
  <1>. QED BY <1>3, SameSecretsKept

LEMMA RulesRight ==
    ASSUME NEW home \in Places, NEW place \in Places, NEW rules \in RulePairs(home)
    PROVE  J!RulesFound(rules, place, home, "load")
  <1>1. PICK one \in SavedRules(home), two \in SavedRules(home), n \in {0, 2} :
            rules = {Created(one, 1), Created(two, n)}
    BY DEF RulePairs
  <1>2. RuleProofs!IsFiniteSet(rules)
    <2>. DEFINE seq == <<Created(one, 1), Created(two, n)>>
    <2>1. seq \in Seq(rules) /\ Len(seq) = 2 /\ seq[1] = Created(one, 1)
          /\ seq[2] = Created(two, n) /\ 1 \in 1 .. 2 /\ 2 \in 1 .. 2
      BY <1>1
    <2>. HIDE DEF seq
    <2>2. \A rule \in rules : \E k \in 1 .. Len(seq) : seq[k] = rule
      BY <1>1, <2>1
    <2>. QED BY <2>1, <2>2 DEF RuleProofs!IsFiniteSet
  <1>3. ASSUME NEW rule \in SavedRules(home), NEW time
        PROVE  /\ Created(rule, time).created = time
               /\ Created(rule, time).device = place.id =>
                     RuleProofs!AcceptsRule(Created(rule, time), home)
    <2>. DEFINE saved == Created(rule, time)
    <2>1. DOMAIN rule = {"org", "center", "type", "device", "metric", "active", "threshold"}
      BY DEF SavedRules, RuleScopes
    <2>2. /\ saved.created = time
          /\ saved.org = rule.org /\ saved.center = rule.center /\ saved.type = rule.type
          /\ saved.device = rule.device /\ saved.threshold = rule.threshold
      BY <2>1 DEF Created
    <2>3. RuleProofs!AcceptsRule(rule, [home EXCEPT !.id = rule.device])
      BY SameAcceptsRule DEF SavedRules
    <2>4. /\ [home EXCEPT !.id = rule.device].org = home.org
          /\ [home EXCEPT !.id = rule.device].center = home.center
          /\ [home EXCEPT !.id = rule.device].type = home.type
      BY DEF Places, DeviceAt
    <2>. HIDE DEF saved
    <2>5. RuleProofs!AcceptsRule(saved, home)
      BY <2>2, <2>3, <2>4 DEF RuleProofs!AcceptsRule, RuleProofs!CenterFits
    <2>. QED BY <2>2, <2>5 DEF saved
  <1>4. \A rule \in rules : rule.created \in Nat
    BY <1>1, <1>3
  <1>5. place.id # RuleProofs!Null
    BY DEF Places, DeviceAt, RuleProofs!Null
  <1>6. \A rule \in rules : rule.device = place.id => RuleProofs!AcceptsRule(rule, home)
    BY <1>1, <1>3
  <1>7. RuleProofs!RulesFound(rules, place, home, "load")
    BY <1>2, <1>4, <1>5, <1>6, RuleProofs!RulesAreFound
  <1>. QED BY <1>7, SameRulesFound

LEMMA WindowsRight ==
    ASSUME NEW one \in SavedWindows({}), NEW two \in SavedWindows({one}),
           NEW place, NEW now \in 0 .. 3
    PROVE  J!WindowsApart(one, two, place, "load", now)
  <1>1. \A stored : \A w \in SavedWindows(stored) :
            /\ w.from \in Int /\ w.to \in Int
            /\ RuleProofs!AcceptsWindow(w, DeviceAt("d1"), stored)
    BY SameAcceptsWindow DEF SavedWindows, Windows
  <1>2. now \in Int /\ one \in {one}
    OBVIOUS
  <1>3. RuleProofs!WindowsApart(one, two, place, "load", now)
    BY <1>1, <1>2, RuleProofs!WindowsAreApart
  <1>. QED BY <1>3, SameWindowsApart

LEMMA PoliciesRight ==
    ASSUME NEW first \in SavedPolicies({}), NEW p \in SavedPolicies({first}),
           NEW q \in SavedPolicies({first, p}), NEW minutes \in 0 .. 5,
           NEW alert, alert.acknowledged \in {J!Never, 2}
    PROVE  /\ J!TiersReached(<<first, p, q>>, alert, minutes)
           /\ J!ClockRestarts(<<first, p, q>>, alert, minutes)
  <1>. DEFINE policies == <<first, p, q>>
  <1>1. \A stored : \A one \in SavedPolicies(stored) : RuleProofs!IsPolicy(one)
    <2>. SUFFICES ASSUME NEW stored, NEW one \in SavedPolicies(stored)
                  PROVE  RuleProofs!IsPolicy(one)
      OBVIOUS
    <2>1. one \in Policies /\ RuleProofs!AcceptsPolicy(one, stored)
      BY SameAcceptsPolicy DEF SavedPolicies
    <2>2. one.unacknowledged \in Nat /\ one.unresolved \in Nat
      <3>1. one.unacknowledged \in {J!Never, 1, 2} /\ one.unresolved \in {J!Never, 1, 3}
        BY <2>1 DEF Policies
      <3>. QED BY <3>1 DEF J!Never
    <2>. QED BY <2>1, <2>2 DEF RuleProofs!IsPolicy
  <1>2. /\ policies \in Seq({first, p, q})
        /\ \A i \in DOMAIN policies : policies[i] \in {first, p, q}
    OBVIOUS
  <1>3. \A i \in DOMAIN policies : RuleProofs!IsPolicy(policies[i])
    BY <1>1, <1>2
  <1>4. alert.acknowledged \in Nat /\ minutes \in Nat
    BY DEF J!Never
  <1>. HIDE DEF policies
  <1>5. RuleProofs!TiersReached(policies, alert, minutes)
    BY <1>2, <1>3, <1>4, RuleProofs!TiersAreReached
  <1>6. RuleProofs!ClockRestarts(policies, alert, minutes)
    BY <1>2, <1>3, <1>4, RuleProofs!ClocksRestart
  <1>. QED BY <1>5, <1>6, SameTiersReached, SameClockRestarts DEF policies

(* Whatever is read is stored as it was measured, or marked as BAD, and judged  *)
(* so; registers, mappings and secrets mean what the operator meant; rules,     *)
(* windows and policies reach the devices and alerts that they name.            *)
THEOREM ReadingsAreRight == MCSpec => []ReadingsRight
  <1>1. reading = Polled => ReadingsRight
    BY DEF Polled, ReadingsRight
  <1>2. TryReading => ReadingsRight
    <2>. SUFFICES ASSUME reading \in Values \cup Registers \cup Lists \cup Options \cup Judgements
                  PROVE  ReadingsRight
      BY DEF TryReading
    <2>1. CASE reading \in Values
      <3>1. reading.of = "value"
        BY <2>1 DEF Values
      <3>. QED BY <2>1, <3>1, ValuesRight DEF ReadingsRight
    <2>2. CASE reading \in Registers
      <3>1. reading.of = "registers"
        BY <2>2 DEF Registers
      <3>. QED BY <2>2, <3>1, RegistersRight DEF ReadingsRight
    <2>3. CASE reading \in Lists
      <3>1. reading.of = "mappings"
        BY <2>3 DEF Lists
      <3>. QED BY <2>3, <3>1, ListsRight DEF ReadingsRight
    <2>4. CASE reading \in Options
      <3>1. reading.of = "secrets"
        BY <2>4 DEF Options
      <3>. QED BY <2>4, <3>1, OptionsRight DEF ReadingsRight
    <2>5. CASE reading \in [of : {"rules"}, home : Places, place : Places]
      <3>1. reading.of = "rules" /\ reading.home \in Places /\ reading.place \in Places
        BY <2>5
      <3>. QED BY <3>1, RulesRight DEF ReadingsRight
    <2>6. CASE reading \in [of : {"windows"}, place : Places, one : SavedWindows({})]
      <3>1. reading.of = "windows" /\ reading.one \in SavedWindows({})
        BY <2>6
      <3>. QED BY <3>1, WindowsRight DEF ReadingsRight
    <2>7. CASE reading \in [of : {"policies"}, acknowledged : {J!Never, 2},
                            first : SavedPolicies({})]
      <3>1. /\ reading.of = "policies" /\ reading.acknowledged \in {J!Never, 2}
            /\ reading.first \in SavedPolicies({})
        BY <2>7
      <3>. DEFINE alert == [org |-> "a", center |-> "d1", severity |-> "CRITICAL",
                            acknowledged |-> reading.acknowledged]
      <3>2. alert.acknowledged \in {J!Never, 2}
        BY <3>1
      <3>. HIDE DEF alert
      <3>3. \A p \in SavedPolicies({reading.first}) :
                \A q \in SavedPolicies({reading.first, p}), minutes \in 0 .. 5 :
                    /\ J!TiersReached(<<reading.first, p, q>>, alert, minutes)
                    /\ J!ClockRestarts(<<reading.first, p, q>>, alert, minutes)
        BY <3>1, <3>2, PoliciesRight
      <3>. QED BY <3>1, <3>3 DEF ReadingsRight, alert
    <2>. QED BY <2>1, <2>2, <2>3, <2>4, <2>5, <2>6, <2>7 DEF Judgements
  <1>3. ReadingsRight /\ [MCNext]_<<vars, reading, seedVars>> => ReadingsRight'
    <2>1. [MCNext]_<<vars, reading, seedVars>> => reading' = reading
      BY DEF MCNext
    <2>. QED BY <2>1 DEF ReadingsRight
  <1>. QED BY <1>1, <1>2, <1>3, PTL DEF MCSpec
=============================================================================
