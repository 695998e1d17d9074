------------------------- MODULE MCAlertPath_proofs -------------------------
(***************************************************************************)
(* Proofs about the path that MCAlertPath composes: the delivery of        *)
(* notifications, for every set of rows and workers and every retry        *)
(* budget; the notices of an alert; the cache of matching rules; and that  *)
(* these, and the traps (TrapAlerts_proofs), keep their promises in the    *)
(* path.                                                                   *)
(***************************************************************************)
EXTENDS MCAlertPath, FiniteSetTheorems, TLAPS

Carrying == PCs \ {"idle", "requeueing"}

(* A worker with a task in hand is a record built by Carry. *)
LEMMA CarryingWorker ==
    ASSUME TypeOK, NEW w \in Workers, worker[w].pc \in Carrying
    PROVE  /\ worker[w].n \in Notifs
           /\ worker[w].r \in Retries
           /\ worker[w] = Carry(worker[w].pc, worker[w].n, worker[w].r)
  BY DEF TypeOK, Jobs, Carry, Carrying, Idle, PCs

(* Moving such a worker on to another of those places keeps its task. *)
LEMMA CarryingStep ==
    ASSUME TypeOK, NEW w \in Workers, worker[w].pc \in Carrying, NEW p \in Carrying
    PROVE  /\ [worker EXCEPT ![w].pc = p] \in [Workers -> Jobs]
           /\ [worker EXCEPT ![w].pc = p][w] = Carry(p, worker[w].n, worker[w].r)
           /\ \A v \in Workers : v # w => [worker EXCEPT ![w].pc = p][v] = worker[v]
  <1>1. /\ worker[w].n \in Notifs
        /\ worker[w].r \in Retries
        /\ worker[w] = Carry(worker[w].pc, worker[w].n, worker[w].r)
    BY CarryingWorker
  <1>2. worker \in [Workers -> Jobs]
    BY DEF TypeOK
  <1>3. [worker[w] EXCEPT !.pc = p] = Carry(p, worker[w].n, worker[w].r)
    BY <1>1 DEF Carry
  <1>4. Carry(p, worker[w].n, worker[w].r) \in Jobs
    BY <1>1 DEF Carry, Jobs, Carrying
  <1>5. QED
    BY <1>2, <1>3, <1>4

(* A slot that drops its task is idle again. *)
LEMMA IdleStep ==
    ASSUME TypeOK, NEW w \in Workers
    PROVE  [worker EXCEPT ![w] = Idle] \in [Workers -> Jobs]
  BY DEF TypeOK, Jobs

(* Publishing a task within the retry budget keeps the queue well typed. *)
LEMMA PublishType ==
    ASSUME TypeOK, NEW n \in Notifs, NEW r \in Retries, Publish(n, r)
    PROVE  tasks' \in [Notifs -> [Retries -> Nat]]
  <1>1. tasks[n] \in [Retries -> Nat]
    BY DEF TypeOK
  <1>2. [tasks[n] EXCEPT ![r] = @ + 1] \in [Retries -> Nat]
    BY <1>1
  <1>3. QED
    BY <1>2 DEF TypeOK, Publish

LEMMA FirstTry == 0 \in Retries
  BY ConstantsAssumption DEF Retries

LEMMA InitTypeOK == Init => TypeOK
  <1> SUFFICES ASSUME Init PROVE TypeOK
    OBVIOUS
  <1>1. tasks \in [Notifs -> [Retries -> Nat]]
    BY DEF Init
  <1>2. worker \in [Workers -> Jobs]
    BY DEF Init, Jobs
  <1>3. operator = OperatorIdle /\ requeueDue \in BOOLEAN /\ ops \in Nat
    BY DEF Init
  <1>4. status \in [Notifs -> Statuses] /\ sends \in [Notifs -> Nat]
        /\ lost \in [Notifs -> Nat] /\ attempts \in [Notifs -> Nat]
    BY DEF Init, Statuses
  <1>5. stale = {} /\ read = {} /\ committed = {} /\ mishap = {}
    BY DEF Init
  <1>6. QED
    BY <1>1, <1>2, <1>3, <1>4, <1>5 DEF TypeOK

LEMMA NextTypeOK == TypeOK /\ [Next]_vars => TypeOK'
  <1> SUFFICES ASSUME TypeOK, [Next]_vars PROVE TypeOK'
    OBVIOUS
  <1> USE DEF TypeOK, rowVars, histVars
  <1>1. ASSUME NEW n \in Notifs, RowStep(n) PROVE TypeOK'
    <2>1. CASE CreateNotification(n)
      BY <2>1 DEF CreateNotification, Statuses
    <2>2. CASE Dispatch(n)
      BY <2>2, PublishType, FirstTry DEF Dispatch
    <2>3. CASE DispatchLost(n) \/ MarkRead(n) \/ BecomeStale(n)
      BY <2>3 DEF DispatchLost, MarkRead, BecomeStale
    <2>4. QED
      BY <1>1, <2>1, <2>2, <2>3 DEF RowStep
  <1>2. ASSUME NEW w \in Workers, WorkerStep(w) PROVE TypeOK'
    <2>1. ASSUME NEW n \in Notifs, NEW r \in Retries, Take(w, n, r) PROVE TypeOK'
      <3>1. Carry("claiming", n, r) \in Jobs
        BY DEF Carry, Jobs, PCs
      <3>2. QED
        BY <2>1, <3>1 DEF Take
    <2>2. CASE Claim(w)
      <3>1. worker' \in [Workers -> Jobs] /\ worker[w].n \in Notifs
        BY <2>2, CarryingStep, CarryingWorker DEF Claim, Carrying, PCs
      <3>2. QED
        BY <2>2, <3>1 DEF Claim, Statuses
    <2>3. CASE ClaimRefused(w)
      BY <2>3, IdleStep DEF ClaimRefused
    <2>4. CASE DeliverOk(w)
      <3>1. worker' \in [Workers -> Jobs] /\ worker[w].n \in Notifs
        BY <2>4, CarryingStep, CarryingWorker DEF DeliverOk, Carrying, PCs
      <3>2. QED
        BY <2>4, <3>1 DEF DeliverOk
    <2>5. ASSUME NEW reached \in BOOLEAN, DeliverFails(w, reached) PROVE TypeOK'
      <3>1. worker' \in [Workers -> Jobs] /\ worker[w].n \in Notifs
        BY <2>5, CarryingStep, CarryingWorker DEF DeliverFails, Carrying, PCs
      <3>2. QED
        BY <2>5, <3>1 DEF DeliverFails
    <2>6. CASE SaveSent(w)
      <3>1. worker' \in [Workers -> Jobs] /\ worker[w].n \in Notifs
        BY <2>6, IdleStep, CarryingWorker DEF SaveSent, Carrying, PCs
      <3>2. QED
        BY <2>6, <3>1 DEF SaveSent, Statuses
    <2>7. CASE SaveSentFails(w)
      <3>1. worker' \in [Workers -> Jobs] /\ worker[w].n \in Notifs
        BY <2>7, CarryingStep, CarryingWorker DEF SaveSentFails, Carrying, PCs
      <3>2. QED
        BY <2>7, <3>1 DEF SaveSentFails
    <2>8. CASE SaveFailed(w)
      <3>1. worker' \in [Workers -> Jobs] /\ worker[w].n \in Notifs
        BY <2>8, CarryingStep, CarryingWorker DEF SaveFailed, Carrying, PCs
      <3>2. QED
        BY <2>8, <3>1 DEF SaveFailed, Statuses
    <2>9. CASE Retry(w)
      <3>1. worker[w].n \in Notifs /\ worker[w].r \in Retries
        BY <2>9, CarryingWorker DEF Retry, Carrying, PCs
      <3>2. worker[w].r + 1 \in Retries
        BY <2>9, <3>1, ConstantsAssumption DEF Retry, MayRetry, Retries
      <3>3. QED
        BY <2>9, <3>1, <3>2, IdleStep, PublishType DEF Retry
    <2>10. CASE GiveUp(w)
      BY <2>10, IdleStep DEF GiveUp
    <2>11. CASE TakeRequeue(w)
      <3>1. StaleRows \in SUBSET Notifs
        BY DEF StaleRows
      <3>2. Requeueing(StaleRows)
              \in [pc : {"requeueing"}, n : {NoNotif}, r : {0}, rows : SUBSET Notifs]
        BY <3>1 DEF Requeueing
      <3>3. Requeueing(StaleRows) \in Jobs
        BY <3>2 DEF Jobs
      <3>4. QED
        BY <2>11, <3>3 DEF TakeRequeue
    <2>12. CASE ApplyRequeue(w)
      BY <2>12, IdleStep DEF ApplyRequeue, RequeueRows, StaleRows, Statuses
    <2>13. CASE Crash(w)
      <3>1. worker[w].pc = "sent" => worker[w].n \in Notifs
        BY CarryingWorker DEF Carrying, PCs
      <3>2. worker[w].n = NoNotif \/ worker[w].n \in Notifs
        BY DEF Jobs, Idle
      <3>3. lost' \in [Notifs -> Nat]
        BY <2>13, <3>1 DEF Crash
      <3>4. mishap' \subseteq Notifs
        BY <2>13, <3>2 DEF Crash
      <3>5. worker' \in [Workers -> Jobs]
        BY <2>13, IdleStep DEF Crash
      <3>6. UNCHANGED <<status, stale, read, committed, tasks, requeueDue, operator,
                        ops, sends, attempts>>
        BY <2>13 DEF Crash
      <3>7. QED
        BY <3>3, <3>4, <3>5, <3>6
    <2>14. QED
      BY <1>2, <2>1, <2>2, <2>3, <2>4, <2>5, <2>6, <2>7, <2>8, <2>9, <2>10, <2>11, <2>12, <2>13
         DEF WorkerStep, Deliver
  <1>3. CASE OperatorStep
    <2>1. ASSUME NEW rows \in SUBSET Notifs, OperatorQueuePending(rows) PROVE TypeOK'
      BY <2>1 DEF OperatorQueuePending
    <2>2. ASSUME NEW n \in Notifs, OperatorDispatch(n) \/ OperatorDispatchFails(n) PROVE TypeOK'
      <3>1. operator \in [job : {"queueing", "requeueing"}, rows : SUBSET Notifs]
        BY <2>2 DEF OperatorDispatch, OperatorDispatchFails, OperatorIdle
      <3>2. operator' \in {OperatorIdle} \cup [job : {"queueing", "requeueing"},
                rows : SUBSET Notifs]
        BY <2>2, <3>1 DEF OperatorDispatch, OperatorDispatchFails, OperatorDone
      <3>3. tasks' \in [Notifs -> [Retries -> Nat]]
        BY <2>2, PublishType, FirstTry DEF OperatorDispatch, OperatorDispatchFails
      <3>4. QED
        BY <2>2, <3>2, <3>3 DEF OperatorDispatch, OperatorDispatchFails
    <2>3. CASE OperatorRequeue
      BY <2>3 DEF OperatorRequeue, StaleRows
    <2>4. CASE OperatorApplyRequeue
      BY <2>4 DEF OperatorApplyRequeue, RequeueRows, StaleRows, Statuses
    <2>5. QED
      BY <1>3, <2>1, <2>2, <2>3, <2>4 DEF OperatorStep
  <1>4. CASE BeatRequeue
    BY <1>4 DEF BeatRequeue
  <1>5. CASE MarkAllRead
    BY <1>5 DEF MarkAllRead, Created
  <1>6. CASE UNCHANGED vars
    BY <1>6 DEF vars
  <1>7. QED
    BY <1>1, <1>2, <1>3, <1>4, <1>5, <1>6 DEF Next

(* Every reachable state has the types declared by TypeOK: in particular no *)
(* task is published beyond the retry budget.                               *)
THEOREM TypeCorrect == Spec => []TypeOK
  <1>1. QED
    BY InitTypeOK, NextTypeOK, PTL DEF Spec

-----------------------------------------------------------------------------
(* The strengthening ExclusiveClaim needs: a held row of a prompt channel   *)
(* is still DELIVERING and too fresh for the stale requeue.                 *)
HeldFresh ==
    \A n \in Notifs, w \in Workers :
        Prompt(n) /\ Holds(w, n) => status[n] = "DELIVERING" /\ n \notin stale

ClaimInv == TypeOK /\ HeldFresh /\ ExclusiveClaim

(* A step of slot w that leaves no row newly held, and changes the status   *)
(* or the age of a row only to refresh it or because w held it.             *)
LEMMA ReleaseStep ==
    ASSUME ClaimInv, TypeOK', NEW w \in Workers,
           \A v \in Workers : v # w => worker'[v] = worker[v],
           \A n \in Notifs : Holds(w, n)' => Holds(w, n),
           stale' \subseteq stale,
           \A n \in Notifs : status'[n] = status[n] \/ (Holds(w, n) /\ ~Holds(w, n)')
    PROVE  HeldFresh' /\ ExclusiveClaim'
  <1>1. \A v \in Workers, n \in Notifs : v # w => (Holds(v, n)' <=> Holds(v, n))
    BY DEF Holds
  <1>2. ExclusiveClaim'
    BY <1>1 DEF ClaimInv, ExclusiveClaim, Prompt
  <1>3. ASSUME NEW n \in Notifs, NEW v \in Workers, Prompt(n), Holds(v, n)'
        PROVE  status'[n] = "DELIVERING" /\ n \notin stale'
    <2>1. Holds(v, n)
      BY <1>1, <1>3
    <2>2. status[n] = "DELIVERING" /\ n \notin stale
      BY <2>1, <1>3 DEF ClaimInv, HeldFresh
    <2>3. status'[n] = status[n]
      BY <2>1, <1>3 DEF ClaimInv, ExclusiveClaim
    <2>4. QED
      BY <2>2, <2>3
  <1>4. QED
    BY <1>2, <1>3 DEF HeldFresh, Prompt

(* The requeue's transaction, whoever runs it and whatever it has read      *)
(* before: it touches stale rows only, and a held prompt row is not stale.  *)
LEMMA RequeueStep ==
    ASSUME ClaimInv, NEW rows, RequeueRows(rows),
           \A v \in Workers, n \in Notifs : Holds(v, n)' => Holds(v, n)
    PROVE  HeldFresh' /\ ExclusiveClaim'
  <1>1. \A n \in Notifs : n \notin stale => status'[n] = status[n]
    BY DEF RequeueRows, StaleRows
  <1>2. stale' \subseteq stale
    BY DEF RequeueRows
  <1>3. HeldFresh'
    BY <1>1, <1>2 DEF ClaimInv, HeldFresh, Prompt
  <1>4. ExclusiveClaim'
    BY DEF ClaimInv, ExclusiveClaim, Prompt
  <1>5. QED
    BY <1>3, <1>4

LEMMA NextClaimInv == ClaimInv /\ [Next]_vars => ClaimInv'
  <1> SUFFICES ASSUME ClaimInv, [Next]_vars PROVE HeldFresh' /\ ExclusiveClaim'
    BY NextTypeOK DEF ClaimInv
  <1>t. TypeOK /\ TypeOK'
    BY NextTypeOK DEF ClaimInv
  <1>s. ASSUME UNCHANGED worker, \A n \in Notifs : status[n] = "DELIVERING" =>
      status'[n] = "DELIVERING",
               \A n \in stale' : n \in stale \/ \A w \in Workers : Prompt(n) => ~Holds(w, n)
        PROVE  HeldFresh' /\ ExclusiveClaim'
    BY <1>s DEF ClaimInv, HeldFresh, ExclusiveClaim, Holds, Prompt
  <1>1. ASSUME NEW n \in Notifs, RowStep(n) PROVE HeldFresh' /\ ExclusiveClaim'
    <2>1. CASE CreateNotification(n)
      BY <2>1, <1>s, <1>t DEF CreateNotification, TypeOK
    <2>2. CASE Dispatch(n) \/ DispatchLost(n)
      BY <2>2, <1>s DEF Dispatch, DispatchLost, rowVars
    <2>3. CASE MarkRead(n)
      BY <2>3, <1>s DEF MarkRead
    <2>4. CASE BecomeStale(n)
      BY <2>4, <1>s DEF BecomeStale
    <2>5. QED
      BY <1>1, <2>1, <2>2, <2>3, <2>4 DEF RowStep
  <1>2. ASSUME NEW w \in Workers, WorkerStep(w) PROVE HeldFresh' /\ ExclusiveClaim'
    <2>t. worker \in [Workers -> Jobs]
      BY <1>t DEF TypeOK
    <2>1. ASSUME NEW n \in Notifs, NEW r \in Retries, Take(w, n, r)
          PROVE  HeldFresh' /\ ExclusiveClaim'
      BY <2>1, <2>t, <1>t, ReleaseStep DEF Take, Carry, Holds, rowVars
    <2>2. CASE Claim(w)
      <3> DEFINE n == worker[w].n
      <3>1. /\ n \in Notifs
            /\ worker'[w] = Carry("sending", n, worker[w].r)
            /\ \A v \in Workers : v # w => worker'[v] = worker[v]
        BY <2>2, <1>t, CarryingWorker, CarryingStep DEF Claim, Carrying, PCs
      <3>2. /\ status[n] # "DELIVERING"
            /\ status'[n] = "DELIVERING"
            /\ n \notin stale'
            /\ stale' \subseteq stale
            /\ \A m \in Notifs : m # n => status'[m] = status[m]
        BY <2>2, <3>1, <1>t DEF Claim, Claimable, TypeOK
      <3>3. \A v \in Workers, m \in Notifs :
               Holds(v, m)' <=> IF v = w THEN m = n ELSE Holds(v, m)
        BY <3>1 DEF Holds, Carry
      <3>4. Prompt(n) => \A v \in Workers : ~Holds(v, n)
        BY <3>1, <3>2 DEF ClaimInv, HeldFresh
      <3>5. HeldFresh'
        BY <3>1, <3>2, <3>3 DEF ClaimInv, HeldFresh, Prompt
      <3>6. ExclusiveClaim'
        BY <3>1, <3>3, <3>4 DEF ClaimInv, ExclusiveClaim, Prompt
      <3>7. QED
        BY <3>5, <3>6
    <2>3. CASE ClaimRefused(w) \/ GiveUp(w)
      BY <2>3, <2>t, <1>t, ReleaseStep DEF ClaimRefused, GiveUp, Idle, Holds, rowVars
    <2>4. CASE DeliverOk(w)
      BY <2>4, <1>t, CarryingStep, ReleaseStep
         DEF DeliverOk, Carrying, PCs, Carry, Holds, rowVars
    <2>5. ASSUME NEW reached \in BOOLEAN, DeliverFails(w, reached)
          PROVE  HeldFresh' /\ ExclusiveClaim'
      BY <2>5, <1>t, CarryingStep, ReleaseStep
         DEF DeliverFails, Carrying, PCs, Carry, Holds, rowVars
    <2>6. CASE SaveSentFails(w)
      BY <2>6, <1>t, CarryingStep, ReleaseStep
         DEF SaveSentFails, Carrying, PCs, Carry, Holds, rowVars
    <2>7. CASE SaveSent(w)
      <3>1. /\ worker'[w] = Idle
            /\ \A v \in Workers : v # w => worker'[v] = worker[v]
        BY <2>7, <2>t DEF SaveSent
      <3>2. \A m \in Notifs : ~Holds(w, m)'
        BY <3>1 DEF Holds, Idle
      <3>3. \A m \in Notifs : status'[m] = status[m] \/ Holds(w, m)
        BY <2>7, <1>t DEF SaveSent, Holds, TypeOK
      <3>4. stale' \subseteq stale
        BY <2>7 DEF SaveSent
      <3>5. QED
        BY <1>t, <3>1, <3>2, <3>3, <3>4, ReleaseStep
    <2>8. CASE SaveFailed(w)
      <3>1. /\ worker'[w] = Carry("retrying", worker[w].n, worker[w].r)
            /\ \A v \in Workers : v # w => worker'[v] = worker[v]
        BY <2>8, <1>t, CarryingStep DEF SaveFailed, Carrying, PCs
      <3>2. \A m \in Notifs : ~Holds(w, m)'
        BY <3>1 DEF Holds, Carry
      <3>3. \A m \in Notifs : status'[m] = status[m] \/ Holds(w, m)
        BY <2>8, <1>t DEF SaveFailed, Holds, TypeOK
      <3>4. stale' \subseteq stale
        BY <2>8 DEF SaveFailed
      <3>5. QED
        BY <1>t, <3>1, <3>2, <3>3, <3>4, ReleaseStep
    <2>9. CASE Retry(w)
      BY <2>9, <2>t, <1>t, ReleaseStep DEF Retry, Idle, Holds, rowVars
    <2>10. CASE TakeRequeue(w)
      BY <2>10, <2>t, <1>t, ReleaseStep DEF TakeRequeue, Requeueing, Holds, rowVars
    <2>11. CASE ApplyRequeue(w)
      <3>1. \A v \in Workers, n \in Notifs : Holds(v, n)' => Holds(v, n)
        BY <2>11, <2>t DEF ApplyRequeue, Holds, Idle
      <3>2. RequeueRows(worker[w].rows)
        BY <2>11 DEF ApplyRequeue
      <3>3. QED
        BY <3>1, <3>2, RequeueStep
    <2>12. CASE Crash(w)
      BY <2>12, <2>t, <1>t, ReleaseStep DEF Crash, Idle, Holds, rowVars
    <2>13. QED
      BY <1>2, <2>1, <2>2, <2>3, <2>4, <2>5, <2>6, <2>7, <2>8, <2>9, <2>10, <2>11, <2>12
         DEF WorkerStep, Deliver
  <1>3. CASE OperatorStep
    <2>1. CASE OperatorApplyRequeue
      <3>1. RequeueRows(operator.rows)
        BY <2>1 DEF OperatorApplyRequeue
      <3>2. \A v \in Workers, n \in Notifs : Holds(v, n)' => Holds(v, n)
        BY <2>1 DEF OperatorApplyRequeue, Holds
      <3>3. QED
        BY <3>1, <3>2, RequeueStep
    <2>2. CASE OperatorRequeue
      BY <2>2, <1>s DEF OperatorRequeue, rowVars
    <2>3. ASSUME NEW rows \in SUBSET Notifs, OperatorQueuePending(rows)
          PROVE  HeldFresh' /\ ExclusiveClaim'
      BY <2>3, <1>s DEF OperatorQueuePending, rowVars
    <2>4. ASSUME NEW n \in Notifs, OperatorDispatch(n) \/ OperatorDispatchFails(n)
          PROVE  HeldFresh' /\ ExclusiveClaim'
      BY <2>4, <1>s DEF OperatorDispatch, OperatorDispatchFails, rowVars
    <2>5. QED
      BY <1>3, <2>1, <2>2, <2>3, <2>4 DEF OperatorStep
  <1>4. CASE BeatRequeue
    BY <1>4, <1>s DEF BeatRequeue, rowVars
  <1>5. CASE MarkAllRead
    BY <1>5, <1>s DEF MarkAllRead
  <1>6. CASE UNCHANGED vars
    BY <1>6, <1>s DEF vars
  <1>7. QED
    BY <1>1, <1>2, <1>3, <1>4, <1>5, <1>6 DEF Next

LEMMA InitClaimInv == Init => ClaimInv
  <1> SUFFICES ASSUME Init PROVE HeldFresh /\ ExclusiveClaim
    BY InitTypeOK DEF ClaimInv
  <1>1. \A w \in Workers, n \in Notifs : ~Holds(w, n)
    BY DEF Init, Holds, Idle
  <1>2. QED
    BY <1>1 DEF HeldFresh, ExclusiveClaim

LEMMA ClaimInvAlways == Spec => []ClaimInv
  <1>1. QED
    BY InitClaimInv, NextClaimInv, PTL DEF Spec

(* The claim excludes: on a channel whose sends end before the stale cutoff *)
(* no two workers ever hold one row, for any number of rows and workers.    *)
THEOREM ClaimExcludes == Spec => []ExclusiveClaim
  <1>1. ClaimInv => ExclusiveClaim
    BY DEF ClaimInv
  <1>2. QED
    BY <1>1, ClaimInvAlways, PTL

-----------------------------------------------------------------------------
(* The blind saves: a step from ClaimInv leaves SENT rows alone. *)
LEMMA SentStays ==
    ClaimInv /\ [Next]_vars =>
        \A n \in Notifs : Prompt(n) /\ status[n] = "SENT" => status'[n] = "SENT"
  <1> SUFFICES ASSUME ClaimInv, [Next]_vars,
                      NEW n \in Notifs, Prompt(n), status[n] = "SENT"
               PROVE  status'[n] = "SENT"
    OBVIOUS
  <1>t. TypeOK
    BY DEF ClaimInv
  <1>f. \A w \in Workers : ~Holds(w, n)
    BY DEF ClaimInv, HeldFresh
  <1>1. ASSUME NEW m \in Notifs, RowStep(m) PROVE status'[n] = "SENT"
    BY <1>1, <1>t DEF RowStep, CreateNotification, Dispatch, DispatchLost, MarkRead,
                      BecomeStale, TypeOK, rowVars
  <1>2. ASSUME NEW w \in Workers, WorkerStep(w) PROVE status'[n] = "SENT"
    <2>1. CASE Claim(w) \/ SaveSent(w)
      BY <2>1, <1>t DEF Claim, Claimable, SaveSent, TypeOK
    <2>2. CASE SaveFailed(w)
      <3>1. Holds(w, worker[w].n)
        BY <2>2 DEF SaveFailed, Holds
      <3>2. QED
        BY <2>2, <3>1, <1>f, <1>t DEF SaveFailed, TypeOK
    <2>3. CASE ApplyRequeue(w)
      BY <2>3 DEF ApplyRequeue, RequeueRows, StaleRows
    <2>4. QED
      BY <1>2, <2>1, <2>2, <2>3
         DEF WorkerStep, Take, ClaimRefused, Deliver, DeliverOk, DeliverFails, SaveSentFails,
             Retry, GiveUp, TakeRequeue, Crash, rowVars
  <1>3. CASE OperatorStep
    BY <1>3 DEF OperatorStep, OperatorQueuePending, OperatorDispatch, OperatorDispatchFails,
                OperatorRequeue, OperatorApplyRequeue, RequeueRows, StaleRows, rowVars
  <1>4. CASE BeatRequeue \/ MarkAllRead \/ UNCHANGED vars
    BY <1>4 DEF BeatRequeue, MarkAllRead, vars, rowVars
  <1>5. QED
    BY <1>1, <1>2, <1>3, <1>4 DEF Next

(* A SENT row of a prompt channel is never written again by a late worker,  *)
(* a requeue or a fresh claim.                                              *)
THEOREM SentFinal == Spec => SentIsFinal
  <1>1. ClaimInv /\ [Next]_vars =>
          [\A n \in Notifs : Prompt(n) /\ status[n] = "SENT" => status'[n] = "SENT"]_vars
    BY SentStays
  <1>2. QED
    BY <1>1, ClaimInvAlways, PTL DEF Spec, SentIsFinal

-----------------------------------------------------------------------------
(* The accounts of SendsAccounted, one row at a time. *)
Balanced(n) == sends[n] = lost[n] + (IF Accounted(n) THEN 1 ELSE 0)

(* A step that changes none of what a row's account depends on. *)
LEMMA SameAccount ==
    ASSUME NEW n \in Notifs, Balanced(n),
           status'[n] = "SENT" <=> status[n] = "SENT",
           sends'[n] = sends[n], lost'[n] = lost[n],
           \A v \in Workers : (Holds(v, n) /\ worker[v].pc = "sent")' <=>
                             (Holds(v, n) /\ worker[v].pc = "sent")
    PROVE  Balanced(n)'
  <1>1. Accounted(n)' <=> Accounted(n)
    BY DEF Accounted
  <1>2. QED
    BY <1>1 DEF Balanced

LEMMA NextBalanced ==
    ASSUME ClaimInv, [Next]_vars, NEW n \in Notifs, Prompt(n), Balanced(n)
    PROVE  Balanced(n)'
  <1>t. TypeOK /\ worker \in [Workers -> Jobs]
    BY DEF ClaimInv, TypeOK
  <1>x. \A v, w \in Workers : Holds(v, n) /\ Holds(w, n) => v = w
    BY DEF ClaimInv, ExclusiveClaim
  <1>h. \A w \in Workers : Holds(w, n) => status[n] = "DELIVERING"
    BY DEF ClaimInv, HeldFresh
  <1>1. ASSUME NEW m \in Notifs, RowStep(m) PROVE Balanced(n)'
    <2>1. UNCHANGED <<worker, sends, lost>> /\ (status'[n] = "SENT" <=> status[n] = "SENT")
      BY <1>1, <1>t DEF RowStep, CreateNotification, Dispatch, DispatchLost, MarkRead,
                        BecomeStale, TypeOK, rowVars, histVars
    <2>2. QED
      BY <2>1, SameAccount DEF Holds
  <1>2. ASSUME NEW w \in Workers, WorkerStep(w) PROVE Balanced(n)'
    <2>1. CASE (\E m \in Notifs, r \in Retries : Take(w, m, r)) \/ ClaimRefused(w)
               \/ Retry(w) \/ GiveUp(w) \/ TakeRequeue(w)
      <3>1. UNCHANGED <<status, sends, lost>>
        BY <2>1 DEF Take, ClaimRefused, Retry, GiveUp, TakeRequeue, rowVars, histVars
      <3>2. \A v \in Workers : v # w => worker'[v] = worker[v]
        BY <2>1, <1>t DEF Take, ClaimRefused, Retry, GiveUp, TakeRequeue
      <3>3. worker[w].pc # "sent" /\ worker'[w].pc # "sent"
        BY <2>1, <1>t DEF Take, ClaimRefused, Retry, GiveUp, TakeRequeue, Carry, Idle, Requeueing
      <3>4. QED
        BY <3>1, <3>2, <3>3, SameAccount DEF Holds
    <2>2. CASE Claim(w)
      <3>1. /\ worker[w].n \in Notifs
            /\ worker'[w] = Carry("sending", worker[w].n, worker[w].r)
            /\ \A v \in Workers : v # w => worker'[v] = worker[v]
        BY <2>2, <1>t, CarryingWorker, CarryingStep DEF Claim, Carrying, PCs
      <3>2. UNCHANGED <<sends, lost>> /\ (status'[n] = "SENT" <=> status[n] = "SENT")
        BY <2>2, <3>1, <1>t DEF Claim, Claimable, TypeOK
      <3>3. worker[w].pc # "sent" /\ worker'[w].pc # "sent"
        BY <2>2, <3>1 DEF Claim, Carry
      <3>4. QED
        BY <3>1, <3>2, <3>3, SameAccount DEF Holds
    <2>3. CASE DeliverOk(w)
      <3>1. /\ worker[w].n \in Notifs
            /\ worker'[w] = Carry("sent", worker[w].n, worker[w].r)
            /\ \A v \in Workers : v # w => worker'[v] = worker[v]
        BY <2>3, <1>t, CarryingWorker, CarryingStep DEF DeliverOk, Carrying, PCs
      <3>2. CASE worker[w].n = n
        <4>1. Holds(w, n) /\ worker[w].pc = "sending"
          BY <2>3, <3>2 DEF DeliverOk, Holds
        <4>2. ~Accounted(n)
          BY <4>1, <1>x, <1>h DEF Accounted
        <4>3. Accounted(n)'
          BY <3>1, <3>2 DEF Accounted, Holds, Carry
        <4>4. sends'[n] = sends[n] + 1 /\ lost'[n] = lost[n]
          BY <2>3, <3>2, <1>t DEF DeliverOk, TypeOK
        <4>5. QED
          BY <4>2, <4>3, <4>4, <1>t DEF Balanced, TypeOK
      <3>3. CASE worker[w].n # n
        <4>1. UNCHANGED <<status, lost>> /\ sends'[n] = sends[n]
          BY <2>3, <3>3, <1>t DEF DeliverOk, TypeOK, rowVars
        <4>2. QED
          BY <4>1, <3>1, <3>3, SameAccount DEF Holds, Carry
      <3>4. QED
        BY <3>2, <3>3
    <2>4. ASSUME NEW reached \in BOOLEAN, DeliverFails(w, reached) PROVE Balanced(n)'
      <3>1. /\ worker[w].n \in Notifs
            /\ worker'[w] = Carry("failing", worker[w].n, worker[w].r)
            /\ \A v \in Workers : v # w => worker'[v] = worker[v]
        BY <2>4, <1>t, CarryingWorker, CarryingStep DEF DeliverFails, Carrying, PCs
      <3>2. worker[w].pc # "sent" /\ worker'[w].pc # "sent" /\ UNCHANGED status
        BY <2>4, <3>1 DEF DeliverFails, Carry, rowVars
      <3>3. Accounted(n)' <=> Accounted(n)
        BY <3>1, <3>2 DEF Accounted, Holds
      <3>4. \E k \in {0, 1} : sends'[n] = sends[n] + k /\ lost'[n] = lost[n] + k
        BY <2>4, <3>1, <1>t DEF DeliverFails, TypeOK
      <3>5. QED
        BY <3>3, <3>4, <1>t DEF Balanced, TypeOK
    <2>5. CASE SaveSentFails(w) \/ Crash(w)
      <3>1. /\ worker'[w].pc # "sent"
            /\ \A v \in Workers : v # w => worker'[v] = worker[v]
        <4>1. CASE SaveSentFails(w)
          BY <4>1, <1>t, CarryingStep DEF SaveSentFails, Carrying, PCs, Carry
        <4>2. CASE Crash(w)
          BY <4>2, <1>t DEF Crash, Idle
        <4>3. QED
          BY <2>5, <4>1, <4>2
      <3>2. UNCHANGED <<status, sends>>
        BY <2>5 DEF SaveSentFails, Crash, rowVars
      <3>3. CASE Holds(w, n) /\ worker[w].pc = "sent"
        <4>1. Accounted(n)
          BY <3>3 DEF Accounted
        <4>2. ~Accounted(n)'
          BY <3>1, <3>2, <3>3, <1>x, <1>h DEF Accounted, Holds
        <4>3. lost'[n] = lost[n] + 1
          BY <2>5, <3>3, <1>t DEF SaveSentFails, Crash, Holds, TypeOK
        <4>4. QED
          BY <4>1, <4>2, <4>3, <3>2, <1>t DEF Balanced, TypeOK
      <3>4. CASE ~(Holds(w, n) /\ worker[w].pc = "sent")
        <4>1. lost'[n] = lost[n]
          BY <2>5, <3>4, <1>t DEF SaveSentFails, Crash, Holds, TypeOK
        <4>2. QED
          BY <4>1, <3>1, <3>2, <3>4, SameAccount DEF Holds
      <3>5. QED
        BY <3>3, <3>4
    <2>6. CASE SaveSent(w)
      <3>1. /\ worker'[w] = Idle
            /\ \A v \in Workers : v # w => worker'[v] = worker[v]
        BY <2>6, <1>t DEF SaveSent
      <3>2. UNCHANGED <<sends, lost>>
        BY <2>6 DEF SaveSent, histVars
      <3>3. CASE worker[w].n = n
        <4>1. Accounted(n)
          BY <2>6, <3>3 DEF SaveSent, Accounted, Holds
        <4>2. Accounted(n)'
          BY <2>6, <3>3, <1>t DEF SaveSent, Accounted, TypeOK
        <4>3. QED
          BY <4>1, <4>2, <3>2 DEF Balanced
      <3>4. CASE worker[w].n # n
        <4>1. status'[n] = status[n]
          BY <2>6, <3>4, <1>t DEF SaveSent, TypeOK
        <4>2. QED
          BY <4>1, <3>1, <3>2, <3>4, SameAccount, ConstantsAssumption DEF Holds, Idle
      <3>5. QED
        BY <3>3, <3>4
    <2>7. CASE SaveFailed(w)
      <3>1. /\ worker[w].n \in Notifs
            /\ worker'[w] = Carry("retrying", worker[w].n, worker[w].r)
            /\ \A v \in Workers : v # w => worker'[v] = worker[v]
        BY <2>7, <1>t, CarryingWorker, CarryingStep DEF SaveFailed, Carrying, PCs
      <3>2. worker[w].pc # "sent" /\ worker'[w].pc # "sent"
        BY <2>7, <3>1 DEF SaveFailed, Carry
      <3>3. UNCHANGED <<sends, lost>> /\ (status'[n] = "SENT" <=> status[n] = "SENT")
        <4>1. worker[w].n = n => status[n] = "DELIVERING"
          BY <2>7, <1>h DEF SaveFailed, Holds
        <4>2. QED
          BY <4>1, <2>7, <1>t DEF SaveFailed, TypeOK, histVars
      <3>4. QED
        BY <3>1, <3>2, <3>3, SameAccount DEF Holds
    <2>8. CASE ApplyRequeue(w)
      <3>1. UNCHANGED <<sends, lost>> /\ (status'[n] = "SENT" <=> status[n] = "SENT")
        BY <2>8 DEF ApplyRequeue, RequeueRows, StaleRows, histVars
      <3>2. /\ worker[w].pc # "sent" /\ worker'[w].pc # "sent"
            /\ \A v \in Workers : v # w => worker'[v] = worker[v]
        BY <2>8, <1>t DEF ApplyRequeue, Idle
      <3>3. QED
        BY <3>1, <3>2, SameAccount DEF Holds
    <2>9. QED
      BY <1>2, <2>1, <2>2, <2>3, <2>4, <2>5, <2>6, <2>7, <2>8 DEF WorkerStep, Deliver
  <1>3. CASE OperatorStep \/ BeatRequeue \/ MarkAllRead \/ UNCHANGED vars
    <2>1. UNCHANGED <<worker, sends, lost>> /\ (status'[n] = "SENT" <=> status[n] = "SENT")
      BY <1>3 DEF OperatorStep, OperatorQueuePending, OperatorDispatch, OperatorDispatchFails,
                  OperatorRequeue, OperatorApplyRequeue, RequeueRows, StaleRows, BeatRequeue,
                  MarkAllRead, vars, rowVars, histVars
    <2>2. QED
      BY <2>1, SameAccount DEF Holds
  <1>4. QED
    BY <1>1, <1>2, <1>3 DEF Next

LEMMA InitBalanced == Init => SendsAccounted
  <1> SUFFICES ASSUME Init, NEW n \in Notifs PROVE Balanced(n)
    BY DEF SendsAccounted, Balanced
  <1>1. ~Accounted(n)
    BY DEF Init, Accounted, Holds, Idle
  <1>2. QED
    BY <1>1 DEF Init, Balanced

(* Duplicates on a prompt channel have one cause only: every message beyond *)
(* the one the row accounts for is one whose record was lost.               *)
THEOREM DuplicatesExplained == Spec => []SendsAccounted
  <1>1. ClaimInv /\ SendsAccounted /\ [Next]_vars => SendsAccounted'
    <2> SUFFICES ASSUME ClaimInv, SendsAccounted, [Next]_vars,
                        NEW n \in Notifs, Prompt(n)
                 PROVE  Balanced(n)'
      BY DEF SendsAccounted, Balanced, Prompt
    <2>1. Balanced(n)
      BY DEF SendsAccounted, Balanced
    <2>2. QED
      BY <2>1, NextBalanced
  <1>2. QED
    BY <1>1, InitBalanced, ClaimInvAlways, PTL DEF Spec
-----------------------------------------------------------------------------
(* DeliveryKeepsPromise: the delivery refines DeliveryPromise.  A row that  *)
(* anything refers to exists, so a claim never begins on one that does not. *)
Born ==
    /\ committed \subseteq {n \in Notifs : Created(n)}
    /\ \A n \in Notifs, r \in Retries : tasks[n][r] > 0 => Created(n)
    /\ \A w \in Workers : worker[w].pc \in Carrying => Created(worker[w].n)
    /\ operator.job = "queueing" => \A n \in operator.rows : Created(n)

(* No step takes a row back to "NONE". *)
LEMMA CreatedStays ==
    ASSUME TypeOK, [Next]_vars, NEW n \in Notifs, Created(n)
    PROVE  Created(n)'
  <1>1. ASSUME NEW m \in Notifs, RowStep(m) PROVE Created(n)'
    BY <1>1 DEF RowStep, CreateNotification, Dispatch, DispatchLost, MarkRead,
                BecomeStale, TypeOK, rowVars, Created
  <1>2. ASSUME NEW w \in Workers, WorkerStep(w) PROVE Created(n)'
    <2>1. CASE Claim(w) \/ SaveSent(w) \/ SaveFailed(w)
      BY <2>1 DEF Claim, SaveSent, SaveFailed, TypeOK, Created
    <2>2. CASE ApplyRequeue(w)
      BY <2>2 DEF ApplyRequeue, RequeueRows, Created
    <2>3. QED
      BY <1>2, <2>1, <2>2
         DEF WorkerStep, Take, ClaimRefused, Deliver, DeliverOk, DeliverFails, SaveSentFails,
             Retry, GiveUp, TakeRequeue, Crash, rowVars, Created
  <1>3. CASE OperatorStep
    BY <1>3 DEF OperatorStep, OperatorQueuePending, OperatorDispatch, OperatorDispatchFails,
                OperatorRequeue, OperatorApplyRequeue, RequeueRows, rowVars, Created
  <1>4. CASE BeatRequeue \/ MarkAllRead \/ UNCHANGED vars
    BY <1>4 DEF BeatRequeue, MarkAllRead, vars, rowVars, Created
  <1>5. QED
    BY <1>1, <1>2, <1>3, <1>4 DEF Next

(* A step that adds no reference keeps Born. *)
LEMMA NoneAdded ==
    ASSUME TypeOK, Born, [Next]_vars,
           committed' \subseteq committed, UNCHANGED tasks,
           \A v \in Workers : worker'[v].pc \in Carrying =>
               worker[v].pc \in Carrying /\ worker'[v].n = worker[v].n,
           operator'.job = "queueing" =>
               operator.job = "queueing" /\ operator'.rows \subseteq operator.rows
    PROVE  Born'
  <1>1. \A n \in Notifs : Created(n) => Created(n)'
    BY CreatedStays
  <1>2. \A v \in Workers : worker[v].pc \in Carrying => worker[v].n \in Notifs
    BY CarryingWorker
  <1>3. operator.rows \subseteq Notifs
    BY DEF TypeOK, OperatorIdle
  <1>4. QED
    BY <1>1, <1>2, <1>3 DEF Born

(* Publishing a created row's task adds a reference to it. *)
LEMMA PublishBorn ==
    ASSUME TypeOK, Born, [Next]_vars, NEW n \in Notifs, NEW r \in Retries,
           Created(n), Publish(n, r)
    PROVE  \A m \in Notifs, k \in Retries : tasks'[m][k] > 0 => Created(m)'
  <1> SUFFICES ASSUME NEW m \in Notifs, NEW k \in Retries, tasks'[m][k] > 0
               PROVE  Created(m)'
    OBVIOUS
  <1>1. m = n \/ tasks'[m] = tasks[m]
    BY DEF TypeOK, Publish
  <1>2. Created(m)
    BY <1>1 DEF Born
  <1>3. QED
    BY <1>2, CreatedStays

LEMMA NextBorn == TypeOK /\ Born /\ [Next]_vars => Born'
  <1> SUFFICES ASSUME TypeOK, Born, [Next]_vars PROVE Born'
    OBVIOUS
  <1>c. \A n \in Notifs : Created(n) => Created(n)'
    BY CreatedStays
  <1>k. \A v \in Workers : worker[v].pc \in Carrying => worker[v].n \in Notifs
    BY CarryingWorker
  <1>o. operator.rows \subseteq Notifs /\ worker \in [Workers -> Jobs]
    BY DEF TypeOK, OperatorIdle
  <1>1. ASSUME NEW n \in Notifs, RowStep(n) PROVE Born'
    <2>1. CASE CreateNotification(n)
      <3>1. Created(n)'
        BY <2>1 DEF CreateNotification, TypeOK, Created
      <3>2. QED
        BY <2>1, <3>1, <1>c, <1>k, <1>o DEF CreateNotification, Born
    <2>2. CASE Dispatch(n)
      <3>1. Created(n) /\ Publish(n, 0)
        BY <2>2 DEF Dispatch, Born
      <3>2. \A m \in Notifs, k \in Retries : tasks'[m][k] > 0 => Created(m)'
        BY <3>1, FirstTry, PublishBorn
      <3>3. QED
        BY <2>2, <3>2, <1>c, <1>k, <1>o DEF Dispatch, Born
    <2>3. CASE DispatchLost(n) \/ MarkRead(n) \/ BecomeStale(n)
      BY <2>3, NoneAdded DEF DispatchLost, MarkRead, BecomeStale
    <2>4. QED
      BY <1>1, <2>1, <2>2, <2>3 DEF RowStep
  <1>2. ASSUME NEW w \in Workers, WorkerStep(w) PROVE Born'
    <2>1. ASSUME NEW n \in Notifs, NEW r \in Retries, Take(w, n, r) PROVE Born'
      <3>1. Created(n)
        BY <2>1 DEF Take, Born
      <3>2. \A m \in Notifs, k \in Retries : tasks'[m][k] > 0 => tasks[m][k] > 0
        <4>1. ASSUME NEW m \in Notifs, NEW k \in Retries, tasks'[m][k] > 0
              PROVE  tasks[m][k] > 0
          <5>1. tasks[n] \in [Retries -> Nat] /\ tasks[m] \in [Retries -> Nat]
            BY DEF TypeOK
          <5>2. m # n => tasks'[m] = tasks[m]
            BY <2>1 DEF Take, TypeOK
          <5>3. tasks'[n] = [tasks[n] EXCEPT ![r] = @ - 1]
            BY <2>1 DEF Take, TypeOK
          <5>4. QED
            BY <2>1, <4>1, <5>1, <5>2, <5>3 DEF Take
        <4>2. QED
          BY <4>1
      <3>3. \A v \in Workers : worker'[v] = IF v = w THEN Carry("claiming", n, r) ELSE worker[v]
        BY <2>1, <1>o DEF Take
      <3>4. \A v \in Workers : (worker[v].pc \in Carrying => Created(worker[v].n))'
        BY <3>1, <3>3, <1>c, <1>k DEF Born, Created, Carry
      <3>5. QED
        BY <2>1, <3>2, <3>4, <1>c, <1>o DEF Take, Born, Created
    <2>2. CASE Retry(w)
      <3>1. worker[w].pc \in Carrying
        BY <2>2 DEF Retry, Carrying, PCs
      <3>2. worker[w].n \in Notifs /\ Created(worker[w].n) /\ worker[w].r + 1 \in Retries
        BY <2>2, <3>1, CarryingWorker, ConstantsAssumption DEF Retry, MayRetry, Retries, Born
      <3>3. \A m \in Notifs, k \in Retries : tasks'[m][k] > 0 => Created(m)'
        BY <2>2, <3>2, PublishBorn DEF Retry
      <3>4. \A v \in Workers : worker'[v] = IF v = w THEN Idle ELSE worker[v]
        BY <2>2, <1>o DEF Retry
      <3>5. \A v \in Workers : (worker[v].pc \in Carrying => Created(worker[v].n))'
        BY <3>4, <1>c, <1>k DEF Born, Created, Idle, Carrying
      <3>6. QED
        BY <2>2, <3>3, <3>5, <1>c, <1>o DEF Retry, Born, Created
    <2>3. CASE \/ Claim(w) \/ DeliverOk(w) \/ SaveSentFails(w) \/ SaveFailed(w)
               \/ \E reached \in BOOLEAN : DeliverFails(w, reached)
      <3>1. worker[w].pc \in Carrying
        BY <2>3 DEF Claim, DeliverOk, SaveSentFails, SaveFailed, DeliverFails, Carrying, PCs
      <3>2. PICK p \in Carrying : worker' = [worker EXCEPT ![w].pc = p]
        BY <2>3 DEF Claim, DeliverOk, SaveSentFails, SaveFailed, DeliverFails, Carrying, PCs
      <3>3. /\ worker'[w].n = worker[w].n
            /\ \A v \in Workers : v # w => worker'[v] = worker[v]
        BY <3>1, <3>2, CarryingStep DEF Carry
      <3>4. UNCHANGED <<committed, tasks, operator>>
        BY <2>3 DEF Claim, DeliverOk, SaveSentFails, SaveFailed, DeliverFails
      <3>5. QED
        BY <3>1, <3>3, <3>4, NoneAdded
    <2>4. CASE ClaimRefused(w) \/ SaveSent(w) \/ GiveUp(w) \/ ApplyRequeue(w) \/ Crash(w)
      <3>1. \A v \in Workers : worker'[v] = IF v = w THEN Idle ELSE worker[v]
        BY <2>4, <1>o DEF ClaimRefused, SaveSent, GiveUp, ApplyRequeue, Crash
      <3>2. UNCHANGED <<committed, tasks, operator>>
        BY <2>4 DEF ClaimRefused, SaveSent, GiveUp, ApplyRequeue, Crash
      <3>3. QED
        BY <3>1, <3>2, NoneAdded DEF Idle, Carrying
    <2>5. CASE TakeRequeue(w)
      <3>1. \A v \in Workers : worker'[v] = IF v = w THEN Requeueing(StaleRows) ELSE worker[v]
        BY <2>5, <1>o DEF TakeRequeue
      <3>2. QED
        BY <2>5, <3>1, NoneAdded DEF TakeRequeue, Requeueing, Carrying
    <2>6. QED
      BY <1>2, <2>1, <2>2, <2>3, <2>4, <2>5 DEF WorkerStep, Deliver
  <1>3. CASE OperatorStep
    <2>1. ASSUME NEW rows \in SUBSET Notifs, OperatorQueuePending(rows) PROVE Born'
      <3>1. \A n \in rows : Created(n)
        BY <2>1 DEF OperatorQueuePending, Created
      <3>2. QED
        BY <2>1, <3>1, <1>c, <1>k DEF OperatorQueuePending, Born
    <2>2. ASSUME NEW n \in Notifs, OperatorDispatch(n) PROVE Born'
      <3>1. Created(n) /\ Publish(n, 0)
        BY <2>2 DEF OperatorDispatch, Born
      <3>2. \A m \in Notifs, k \in Retries : tasks'[m][k] > 0 => Created(m)'
        BY <3>1, FirstTry, PublishBorn
      <3>3. operator'.job = "queueing" => operator'.rows \subseteq operator.rows
        BY <2>2 DEF OperatorDispatch, OperatorDone, OperatorIdle, TypeOK
      <3>4. QED
        BY <2>2, <3>2, <3>3, <1>c, <1>k, <1>o DEF OperatorDispatch, Born
    <2>3. ASSUME NEW n \in Notifs, OperatorDispatchFails(n) PROVE Born'
      <3>1. operator'.job = "queueing" => operator'.rows \subseteq operator.rows
        BY <2>3 DEF OperatorDispatchFails, OperatorDone, OperatorIdle, TypeOK
      <3>2. QED
        BY <2>3, <3>1, NoneAdded DEF OperatorDispatchFails
    <2>4. CASE OperatorRequeue \/ OperatorApplyRequeue
      BY <2>4, NoneAdded DEF OperatorRequeue, OperatorApplyRequeue, OperatorIdle
    <2>5. QED
      BY <1>3, <2>1, <2>2, <2>3, <2>4 DEF OperatorStep
  <1>4. CASE BeatRequeue \/ MarkAllRead \/ UNCHANGED vars
    BY <1>4, NoneAdded DEF BeatRequeue, MarkAllRead, vars
  <1>5. QED
    BY <1>1, <1>2, <1>3, <1>4 DEF Next

LEMMA InitBorn == Init => Born
  BY DEF Init, Born, Idle, OperatorIdle, Carrying

(* What the promise sees of a row: its status, who holds it, and whether a  *)
(* message is accounted for, which is the "accepted" of the refinement.     *)
PromiseInv == ClaimInv /\ SendsAccounted /\ Born

SameRow(n) ==
    /\ status'[n] = status[n]
    /\ \A v \in Workers : Holds(v, n)' <=> Holds(v, n)
    /\ Accounted(n)' <=> Accounted(n)

LEMMA AcceptedRow ==
    ASSUME TypeOK, SendsAccounted, NEW n \in PromptRows
    PROVE  sends[n] > lost[n] <=> Accounted(n)
  <1>1. n \in Notifs /\ Prompt(n) /\ sends[n] \in Nat /\ lost[n] \in Nat
    BY DEF PromptRows, TypeOK
  <1>2. sends[n] = lost[n] + (IF Accounted(n) THEN 1 ELSE 0)
    BY <1>1 DEF SendsAccounted
  <1>3. Accounted(n) \in BOOLEAN
    BY DEF Accounted
  <1>4. QED
    BY <1>1, <1>2, <1>3

LEMMA AcceptedRows ==
    ASSUME TypeOK, SendsAccounted, TypeOK', SendsAccounted', NEW n \in PromptRows
    PROVE  /\ sends[n] > lost[n] <=> Accounted(n)
           /\ sends'[n] > lost'[n] <=> Accounted(n)'
  <1>1. n \in Notifs /\ Prompt(n) /\ /\ sends'[n] \in Nat /\ lost'[n] \in Nat
    BY DEF PromptRows, TypeOK
  <1>2. sends'[n] = lost'[n] + (IF Accounted(n)' THEN 1 ELSE 0)
    BY <1>1 DEF SendsAccounted, Prompt
  <1>3. Accounted(n)' \in BOOLEAN
    BY DEF Accounted
  <1>4. QED
    BY <1>1, <1>2, <1>3, AcceptedRow

(* A step in which no row changes is a stutter of the promise. *)
LEMMA PromiseStutters ==
    ASSUME TypeOK, SendsAccounted, TypeOK', SendsAccounted',
           \A n \in PromptRows : SameRow(n)
    PROVE  UNCHANGED Promise!vars
  <1>1. [n \in PromptRows |-> status'[n]] = [n \in PromptRows |-> status[n]]
    BY DEF SameRow
  <1>2. [n \in PromptRows |-> {w \in Workers : Holds(w, n)'}]
            = [n \in PromptRows |-> {w \in Workers : Holds(w, n)}]
    BY DEF SameRow
  <1>3. ASSUME NEW n \in PromptRows PROVE sends'[n] > lost'[n] <=> sends[n] > lost[n]
    <2>1. Accounted(n)' <=> Accounted(n)
      BY DEF SameRow
    <2>2. /\ sends[n] > lost[n] <=> Accounted(n)
          /\ sends'[n] > lost'[n] <=> Accounted(n)'
      BY AcceptedRows
    <2>3. QED
      BY <2>1, <2>2
  <1>4. [n \in PromptRows |-> sends'[n] > lost'[n]] = [n \in PromptRows |-> sends[n] > lost[n]]
    BY <1>3
  <1>5. PromptRows' = PromptRows
    BY DEF PromptRows, Prompt
  <1>6. QED
    BY <1>1, <1>2, <1>4, <1>5 DEF Promise!vars

(* A step in which one row changes. *)
LEMMA PromiseMoves ==
    ASSUME TypeOK, SendsAccounted, TypeOK', SendsAccounted', NEW n \in PromptRows,
           \A m \in PromptRows : m # n => SameRow(m),
           NEW is, status'[n] = is,
           NEW by, {w \in Workers : Holds(w, n)'} = by,
           NEW took \in BOOLEAN, Accounted(n)' <=> took
    PROVE  Promise!Becomes(n, is, by, took)
  <1>1. [m \in PromptRows |-> status'[m]] = [[m \in PromptRows |-> status[m]] EXCEPT ![n] = is]
    BY DEF SameRow
  <1>2. [m \in PromptRows |-> {w \in Workers : Holds(w, m)'}]
            = [[m \in PromptRows |-> {w \in Workers : Holds(w, m)}] EXCEPT ![n] = by]
    BY DEF SameRow
  <1>3. ASSUME NEW m \in PromptRows, m # n PROVE sends'[m] > lost'[m] <=> sends[m] > lost[m]
    <2>1. Accounted(m)' <=> Accounted(m)
      BY <1>3 DEF SameRow
    <2>2. /\ sends[m] > lost[m] <=> Accounted(m)
          /\ sends'[m] > lost'[m] <=> Accounted(m)'
      BY AcceptedRows
    <2>3. QED
      BY <2>1, <2>2
  <1>4. sends'[n] > lost'[n] <=> took
    BY AcceptedRows
  <1>5. [m \in PromptRows |-> sends'[m] > lost'[m]]
            = [[m \in PromptRows |-> sends[m] > lost[m]] EXCEPT ![n] = took]
    <2>1. ASSUME NEW m \in PromptRows
          PROVE  (sends'[m] > lost'[m]) = IF m = n THEN took ELSE sends[m] > lost[m]
      BY <1>3, <1>4
    <2>2. QED
      BY <2>1
  <1>6. PromptRows' = PromptRows
    BY DEF PromptRows, Prompt
  <1>7. QED
    BY <1>1, <1>2, <1>5, <1>6 DEF Promise!Becomes

(* A step of slot w concerns only the row it carries. *)
LEMMA OtherRows ==
    ASSUME TypeOK, NEW w \in Workers,
           \A v \in Workers : v # w => worker'[v] = worker[v],
           worker'[w].n = worker[w].n \/ worker'[w].pc \notin {"sending", "sent", "failing"},
           \A m \in Notifs : m # worker[w].n => status'[m] = status[m]
    PROVE  \A m \in Notifs : m # worker[w].n => SameRow(m)
  <1> SUFFICES ASSUME NEW m \in Notifs, m # worker[w].n PROVE SameRow(m)
    OBVIOUS
  <1>1. \A v \in Workers : Holds(v, m)' <=> Holds(v, m)
    BY DEF Holds
  <1>2. \A v \in Workers : (Holds(v, m) /\ worker[v].pc = "sent")'
                             <=> (Holds(v, m) /\ worker[v].pc = "sent")
    BY DEF Holds
  <1>3. QED
    BY <1>1, <1>2 DEF SameRow, Accounted

(* A step that moves no slot into, within or out of an attempt. *)
LEMMA NoAttempt ==
    ASSUME UNCHANGED status,
           \A v \in Workers, n \in Notifs :
               /\ Holds(v, n)' <=> Holds(v, n)
               /\ (Holds(v, n) /\ worker[v].pc = "sent")' <=> (Holds(v, n) /\ worker[v].pc = "sent")
    PROVE  \A n \in Notifs : SameRow(n)
  BY DEF SameRow, Accounted

(* The one that tries a prompt row tries it alone. *)
LEMMA TriesAlone ==
    ASSUME ClaimInv, NEW w \in Workers, NEW n \in PromptRows, Holds(w, n)
    PROVE  /\ status[n] = "DELIVERING"
           /\ {v \in Workers : Holds(v, n)} = {w}
           /\ Accounted(n) <=> worker[w].pc = "sent"
  <1>1. n \in Notifs /\ Prompt(n)
    BY DEF PromptRows
  <1>2. \A v \in Workers : Holds(v, n) <=> v = w
    BY <1>1 DEF ClaimInv, ExclusiveClaim
  <1>3. status[n] = "DELIVERING"
    BY <1>1 DEF ClaimInv, HeldFresh
  <1>4. QED
    BY <1>2, <1>3 DEF Accounted

(* The requeue's transaction, whoever runs it. *)
LEMMA PromiseRequeues ==
    ASSUME ClaimInv, SendsAccounted, ClaimInv', SendsAccounted', NEW rows, RequeueRows(rows),
           \A v \in Workers, n \in Notifs :
               /\ Holds(v, n)' <=> Holds(v, n)
               /\ (Holds(v, n) /\ worker[v].pc = "sent")' <=> (Holds(v, n) /\ worker[v].pc = "sent")
    PROVE  Promise!Next
  <1> PICK some : some = PromptRows \cap rows \cap StaleRows
    OBVIOUS
  <1>1. PromptRows \subseteq Notifs /\ PromptRows' = PromptRows
    BY DEF PromptRows, Prompt
  <1>2. \A n \in some : status[n] = "DELIVERING" /\ {w \in Workers : Holds(w, n)} = {}
    BY DEF StaleRows, ClaimInv, HeldFresh, PromptRows
  <1>3. \A n \in PromptRows : status'[n] = IF n \in some THEN "PENDING" ELSE status[n]
    BY <1>1 DEF RequeueRows
  <1>4. \A n \in PromptRows : Accounted(n)' <=> Accounted(n)
    BY <1>1, <1>2, <1>3 DEF Accounted
  <1>5. ASSUME NEW n \in PromptRows PROVE sends'[n] > lost'[n] <=> sends[n] > lost[n]
    <2>1. Accounted(n)' <=> Accounted(n)
      BY <1>4
    <2>2. /\ sends[n] > lost[n] <=> Accounted(n)
          /\ sends'[n] > lost'[n] <=> Accounted(n)'
      BY AcceptedRows DEF ClaimInv
    <2>3. QED
      BY <2>1, <2>2
  <1>6. [n \in PromptRows |-> {w \in Workers : Holds(w, n)'}]
            = [n \in PromptRows |-> {w \in Workers : Holds(w, n)}]
    BY <1>1
  <1>7. [n \in PromptRows |-> sends'[n] > lost'[n]] = [n \in PromptRows |-> sends[n] > lost[n]]
    BY <1>5
  <1>8. Promise!Requeue(some)
    BY <1>1, <1>2, <1>3, <1>6, <1>7 DEF Promise!Requeue
  <1>9. some \in SUBSET PromptRows
    OBVIOUS
  <1>10. QED
    BY <1>8, <1>9 DEF Promise!Next

(* Every step of a slot: an attempt begins, is accepted, recorded, lost     *)
(* track of, ends or dies, and all else is a stutter.                       *)
LEMMA SlotPromises ==
    ASSUME PromiseInv, PromiseInv', NEW w \in Workers, WorkerStep(w)
    PROVE  [Promise!Next]_(Promise!vars)
  <1> PICK n : n = worker[w].n
    OBVIOUS
  <1>t. /\ ClaimInv /\ SendsAccounted /\ TypeOK /\ worker \in [Workers -> Jobs]
        /\ ClaimInv' /\ SendsAccounted' /\ TypeOK'
    BY DEF PromiseInv, ClaimInv, TypeOK
  <1>q. ASSUME \A m \in Notifs : SameRow(m) PROVE [Promise!Next]_(Promise!vars)
    <2>1. \A m \in PromptRows : SameRow(m)
      BY <1>q DEF PromptRows
    <2>2. QED
      BY <2>1, <1>t, PromiseStutters
  <1>o. ASSUME n \notin PromptRows, \A m \in Notifs : m # n => SameRow(m)
        PROVE  [Promise!Next]_(Promise!vars)
    <2>1. \A m \in PromptRows : SameRow(m)
      BY <1>o DEF PromptRows
    <2>2. QED
      BY <2>1, <1>t, PromiseStutters
  <1>1. CASE \/ \E m \in Notifs, r \in Retries : Take(w, m, r)
             \/ ClaimRefused(w) \/ Retry(w) \/ GiveUp(w) \/ TakeRequeue(w)
    <2>1. /\ UNCHANGED status
          /\ \A v \in Workers : v # w => worker'[v] = worker[v]
      BY <1>1, <1>t DEF Take, ClaimRefused, Retry, GiveUp, TakeRequeue, rowVars
    <2>2. /\ worker[w].pc \notin {"sending", "sent", "failing"}
          /\ worker'[w].pc \notin {"sending", "sent", "failing"}
      BY <1>1, <1>t DEF Take, ClaimRefused, Retry, GiveUp, TakeRequeue, Carry, Idle, Requeueing
    <2>3. \A m \in Notifs : SameRow(m)
      BY <2>1, <2>2, NoAttempt DEF Holds
    <2>4. QED
      BY <2>3, <1>q
  <1>2. CASE Claim(w)
    <2>1. /\ n \in Notifs
          /\ worker'[w] = Carry("sending", n, worker[w].r)
          /\ \A v \in Workers : v # w => worker'[v] = worker[v]
      BY <1>2, <1>t, CarryingWorker, CarryingStep DEF Claim, Carrying, PCs
    <2>2. /\ worker'[w].n = n
          /\ status'[n] = "DELIVERING"
          /\ \A m \in Notifs : m # n => status'[m] = status[m]
      BY <1>2, <2>1, <1>t DEF Claim, Carry, TypeOK
    <2>3. \A m \in Notifs : m # n => SameRow(m)
      BY <2>1, <2>2, <1>t, OtherRows
    <2>4. CASE n \in PromptRows
      <3>1. status[n] \in {"PENDING", "FAILED"}
        BY <1>2, <2>1, <1>t DEF Claim, Claimable, PromiseInv, Born, Created, TypeOK, Statuses,
                                Carrying, PCs
      <3>2. \A v \in Workers : ~Holds(v, n)
        BY <2>1, <2>4, <3>1, <1>t DEF ClaimInv, HeldFresh, PromptRows
      <3>3. \A m \in Notifs : ~Holds(w, m)
        BY <1>2 DEF Claim, Holds
      <3>4. Holds(w, n)'
        BY <2>1 DEF Holds, Carry
      <3>5. {v \in Workers : Holds(v, n)'} = {w} /\ ~Accounted(n)'
        BY <2>1, <2>2, <3>2, <3>4 DEF Holds, Carry, Accounted
      <3>6. \A m \in PromptRows : m # n => SameRow(m)
        BY <2>3 DEF PromptRows
      <3>7. Promise!Becomes(n, "DELIVERING", {w}, FALSE)
        BY <2>2, <2>4, <3>5, <3>6, <1>t, PromiseMoves
      <3>8. Promise!Begin(n, w)
        BY <2>4, <3>1, <3>2, <3>3, <3>7 DEF Promise!Begin, PromptRows
      <3>9. QED
        BY <2>4, <3>8 DEF Promise!Next
    <2>5. QED
      BY <2>3, <2>4, <1>o
  <1>3. CASE DeliverOk(w)
    <2>1. /\ n \in Notifs
          /\ worker'[w] = Carry("sent", n, worker[w].r)
          /\ \A v \in Workers : v # w => worker'[v] = worker[v]
      BY <1>3, <1>t, CarryingWorker, CarryingStep DEF DeliverOk, Carrying, PCs
    <2>2. worker'[w].n = n /\ UNCHANGED status /\ Holds(w, n) /\ Holds(w, n)'
      BY <1>3, <2>1 DEF DeliverOk, Carry, rowVars, Holds
    <2>3. \A m \in Notifs : m # n => SameRow(m)
      BY <2>1, <2>2, <1>t, OtherRows
    <2>4. CASE n \in PromptRows
      <3>1. status[n] = "DELIVERING" /\ {v \in Workers : Holds(v, n)} = {w} /\ ~Accounted(n)
        BY <1>3, <2>2, <2>4, <1>t, TriesAlone DEF DeliverOk
      <3>2. Accounted(n)'
        BY <2>1, <2>2 DEF Accounted, Carry
      <3>3. {v \in Workers : Holds(v, n)'} = {w}
        BY <2>1, <2>2, <3>1 DEF Holds
      <3>4. \A m \in PromptRows : m # n => SameRow(m)
        BY <2>3 DEF PromptRows
      <3>5. Promise!Becomes(n, "DELIVERING", {v \in Workers : Holds(v, n)}, TRUE)
        BY <2>2, <2>4, <3>1, <3>2, <3>3, <3>4, <1>t, PromiseMoves
      <3>6. ~(sends[n] > lost[n])
        BY <2>4, <3>1, <1>t, AcceptedRow
      <3>7. Promise!Accept(n)
        BY <2>4, <3>1, <3>5, <3>6 DEF Promise!Accept, Promise!Tried
      <3>8. QED
        BY <2>4, <3>7 DEF Promise!Next
    <2>5. QED
      BY <2>3, <2>4, <1>o
  <1>4. ASSUME NEW reached \in BOOLEAN, DeliverFails(w, reached)
        PROVE  [Promise!Next]_(Promise!vars)
    <2>1. /\ n \in Notifs
          /\ worker'[w] = Carry("failing", n, worker[w].r)
          /\ \A v \in Workers : v # w => worker'[v] = worker[v]
      BY <1>4, <1>t, CarryingWorker, CarryingStep DEF DeliverFails, Carrying, PCs
    <2>2. UNCHANGED status /\ worker[w].pc = "sending"
      BY <1>4 DEF DeliverFails, rowVars
    <2>3. \A m \in Notifs : SameRow(m)
      BY <2>1, <2>2, NoAttempt DEF Holds, Carry
    <2>4. QED
      BY <2>3, <1>q
  <1>5. CASE SaveSent(w)
    <2>1. /\ worker'[w] = Idle
          /\ \A v \in Workers : v # w => worker'[v] = worker[v]
          /\ n \in Notifs /\ Holds(w, n) /\ worker[w].pc = "sent"
      BY <1>5, <1>t, CarryingWorker DEF SaveSent, Carrying, PCs, Holds
    <2>2. /\ status'[n] = "SENT"
          /\ \A m \in Notifs : m # n => status'[m] = status[m]
          /\ \A m \in Notifs : ~Holds(w, m)'
      BY <1>5, <2>1, <1>t DEF SaveSent, TypeOK, Holds, Idle
    <2>3. \A m \in Notifs : m # n => SameRow(m)
      BY <2>1, <2>2, <1>t, OtherRows DEF Idle
    <2>4. CASE n \in PromptRows
      <3>1. status[n] = "DELIVERING" /\ {v \in Workers : Holds(v, n)} = {w} /\ Accounted(n)
        BY <2>1, <2>4, <1>t, TriesAlone
      <3>2. {v \in Workers : Holds(v, n)'} = {} /\ Accounted(n)'
        BY <2>1, <2>2, <3>1 DEF Holds, Accounted
      <3>3. \A m \in PromptRows : m # n => SameRow(m)
        BY <2>3 DEF PromptRows
      <3>4. Promise!Becomes(n, "SENT", {}, TRUE)
        BY <2>2, <2>4, <3>2, <3>3, <1>t, PromiseMoves
      <3>5. sends[n] > lost[n]
        BY <2>4, <3>1, <1>t, AcceptedRow
      <3>6. Promise!Record(n)
        BY <2>4, <3>1, <3>4, <3>5 DEF Promise!Record, Promise!Tried
      <3>7. QED
        BY <2>4, <3>6 DEF Promise!Next
    <2>5. QED
      BY <2>3, <2>4, <1>o
  <1>6. CASE SaveSentFails(w)
    <2>1. /\ n \in Notifs
          /\ worker'[w] = Carry("failing", n, worker[w].r)
          /\ \A v \in Workers : v # w => worker'[v] = worker[v]
          /\ worker[w].pc = "sent"
      BY <1>6, <1>t, CarryingWorker, CarryingStep DEF SaveSentFails, Carrying, PCs
    <2>2. worker'[w].n = n /\ UNCHANGED status /\ Holds(w, n) /\ Holds(w, n)'
      BY <1>6, <2>1 DEF SaveSentFails, Carry, rowVars, Holds
    <2>3. \A m \in Notifs : m # n => SameRow(m)
      BY <2>1, <2>2, <1>t, OtherRows
    <2>4. CASE n \in PromptRows
      <3>1. status[n] = "DELIVERING" /\ {v \in Workers : Holds(v, n)} = {w} /\ Accounted(n)
        BY <2>1, <2>2, <2>4, <1>t, TriesAlone
      <3>2. {v \in Workers : Holds(v, n)'} = {w}
        BY <2>1, <2>2, <3>1 DEF Holds
      <3>3. ~Accounted(n)'
        BY <2>1, <2>2, <3>1, <3>2 DEF Accounted, Carry
      <3>4. \A m \in PromptRows : m # n => SameRow(m)
        BY <2>3 DEF PromptRows
      <3>5. Promise!Becomes(n, "DELIVERING", {v \in Workers : Holds(v, n)}, FALSE)
        BY <2>2, <2>4, <3>1, <3>2, <3>3, <3>4, <1>t, PromiseMoves
      <3>6. sends[n] > lost[n]
        BY <2>4, <3>1, <1>t, AcceptedRow
      <3>7. Promise!Forget(n)
        BY <2>4, <3>1, <3>5, <3>6 DEF Promise!Forget, Promise!Tried
      <3>8. QED
        BY <2>4, <3>7 DEF Promise!Next
    <2>5. QED
      BY <2>3, <2>4, <1>o
  <1>7. CASE SaveFailed(w)
    <2>1. /\ n \in Notifs
          /\ worker'[w] = Carry("retrying", n, worker[w].r)
          /\ \A v \in Workers : v # w => worker'[v] = worker[v]
          /\ worker[w].pc = "failing" /\ Holds(w, n)
      BY <1>7, <1>t, CarryingWorker, CarryingStep DEF SaveFailed, Carrying, PCs, Holds
    <2>2. /\ status'[n] = "FAILED"
          /\ \A m \in Notifs : m # n => status'[m] = status[m]
          /\ \A m \in Notifs : ~Holds(w, m)'
      BY <1>7, <2>1, <1>t DEF SaveFailed, TypeOK, Holds, Carry
    <2>3. \A m \in Notifs : m # n => SameRow(m)
      BY <2>1, <2>2, <1>t, OtherRows DEF Carry
    <2>4. CASE n \in PromptRows
      <3>1. status[n] = "DELIVERING" /\ {v \in Workers : Holds(v, n)} = {w} /\ ~Accounted(n)
        BY <2>1, <2>4, <1>t, TriesAlone
      <3>2. {v \in Workers : Holds(v, n)'} = {}
        BY <2>1, <2>2, <3>1 DEF Holds
      <3>3. ~Accounted(n)'
        BY <2>2, <3>2 DEF Accounted
      <3>4. \A m \in PromptRows : m # n => SameRow(m)
        BY <2>3 DEF PromptRows
      <3>5. Promise!Becomes(n, "FAILED", {}, FALSE)
        BY <2>2, <2>4, <3>2, <3>3, <3>4, <1>t, PromiseMoves
      <3>6. ~(sends[n] > lost[n])
        BY <2>4, <3>1, <1>t, AcceptedRow
      <3>7. Promise!Fail(n)
        BY <2>4, <3>1, <3>5, <3>6 DEF Promise!Fail, Promise!Tried
      <3>8. QED
        BY <2>4, <3>7 DEF Promise!Next
    <2>5. QED
      BY <2>3, <2>4, <1>o
  <1>8. CASE ApplyRequeue(w)
    <2>1. RequeueRows(worker[w].rows)
      BY <1>8 DEF ApplyRequeue
    <2>2. /\ worker[w].pc = "requeueing" /\ worker'[w].pc = "idle"
          /\ \A v \in Workers : v # w => worker'[v] = worker[v]
      BY <1>8, <1>t DEF ApplyRequeue, Idle
    <2>3. \A v \in Workers, m \in Notifs :
             /\ Holds(v, m)' <=> Holds(v, m)
             /\ (Holds(v, m) /\ worker[v].pc = "sent")' <=> (Holds(v, m) /\ worker[v].pc = "sent")
      BY <2>2 DEF Holds
    <2>4. QED
      BY <2>1, <2>3, <1>t, PromiseRequeues
  <1>9. CASE Crash(w)
    <2>1. /\ worker'[w] = Idle /\ UNCHANGED status
          /\ \A v \in Workers : v # w => worker'[v] = worker[v]
      BY <1>9, <1>t DEF Crash, rowVars
    <2>2. \A m \in Notifs : m # n => SameRow(m)
      BY <2>1, <1>t, OtherRows DEF Idle
    <2>3. CASE n \in PromptRows /\ Holds(w, n)
      <3>1. status[n] = "DELIVERING" /\ {v \in Workers : Holds(v, n)} = {w}
        BY <2>3, <1>t, TriesAlone
      <3>2. {v \in Workers : Holds(v, n)'} = {}
        BY <2>1, <3>1 DEF Holds, Idle
      <3>3. ~Accounted(n)' /\ status'[n] = "DELIVERING"
        BY <2>1, <3>1, <3>2 DEF Accounted
      <3>4. \A m \in PromptRows : m # n => SameRow(m)
        BY <2>2 DEF PromptRows
      <3>5. Promise!Becomes(n, "DELIVERING", {}, FALSE)
        BY <2>3, <3>2, <3>3, <3>4, <1>t, PromiseMoves
      <3>6. Promise!Die(n)
        BY <2>3, <3>1, <3>5 DEF Promise!Die, Promise!Tried
      <3>7. QED
        BY <2>3, <3>6 DEF Promise!Next
    <2>4. CASE n \in PromptRows /\ ~Holds(w, n)
      <3>1. worker[w].pc \notin {"sending", "sent", "failing"}
        BY <2>4 DEF Holds
      <3>2. \A m \in Notifs : SameRow(m)
        BY <2>1, <3>1, NoAttempt DEF Holds, Idle
      <3>3. QED
        BY <3>2, <1>q
    <2>5. QED
      BY <2>2, <2>3, <2>4, <1>o
  <1>10. QED
    BY <1>1, <1>2, <1>3, <1>4, <1>5, <1>6, <1>7, <1>8, <1>9 DEF WorkerStep, Deliver

LEMMA DeliveryPromises ==
    PromiseInv /\ PromiseInv' /\ [Next]_vars => [Promise!Next]_(Promise!vars)
  <1> SUFFICES ASSUME PromiseInv, PromiseInv', [Next]_vars
               PROVE  [Promise!Next]_(Promise!vars)
    OBVIOUS
  <1>t. /\ ClaimInv /\ SendsAccounted /\ TypeOK
        /\ ClaimInv' /\ SendsAccounted' /\ TypeOK'
    BY DEF PromiseInv, ClaimInv
  <1>s. ASSUME UNCHANGED <<status, worker>> PROVE [Promise!Next]_(Promise!vars)
    <2>1. \A n \in PromptRows : SameRow(n)
      BY <1>s, NoAttempt DEF Holds, PromptRows
    <2>2. QED
      BY <2>1, <1>t, PromiseStutters
  <1>1. ASSUME NEW n \in Notifs, CreateNotification(n) PROVE [Promise!Next]_(Promise!vars)
    <2>1. /\ UNCHANGED worker /\ status[n] = "NONE" /\ status'[n] = "PENDING"
          /\ \A m \in Notifs : m # n => status'[m] = status[m]
      BY <1>1, <1>t DEF CreateNotification, TypeOK
    <2>2. \A m \in PromptRows : m # n => SameRow(m)
      BY <2>1 DEF SameRow, Accounted, Holds, PromptRows
    <2>3. CASE n \in PromptRows
      <3>1. \A v \in Workers : ~Holds(v, n)
        BY <2>1, <2>3, <1>t DEF ClaimInv, HeldFresh, PromptRows
      <3>2. {v \in Workers : Holds(v, n)'} = {} /\ ~Accounted(n)'
        BY <2>1, <3>1 DEF Holds, Accounted
      <3>3. Promise!Becomes(n, "PENDING", {}, FALSE)
        BY <2>1, <2>2, <2>3, <3>2, <1>t, PromiseMoves
      <3>4. Promise!Create(n)
        BY <2>1, <2>3, <3>3 DEF Promise!Create
      <3>5. QED
        BY <2>3, <3>4 DEF Promise!Next
    <2>4. CASE n \notin PromptRows
      BY <2>2, <2>4, <1>t, PromiseStutters
    <2>5. QED
      BY <2>3, <2>4
  <1>2. ASSUME NEW w \in Workers, WorkerStep(w) PROVE [Promise!Next]_(Promise!vars)
    BY <1>2, SlotPromises
  <1>3. CASE OperatorApplyRequeue
    <2>1. RequeueRows(operator.rows) /\ UNCHANGED worker
      BY <1>3 DEF OperatorApplyRequeue
    <2>2. QED
      BY <2>1, <1>t, PromiseRequeues DEF Holds
  <1>4. ASSUME NEW n \in Notifs,
               Dispatch(n) \/ DispatchLost(n) \/ MarkRead(n) \/ BecomeStale(n)
        PROVE  [Promise!Next]_(Promise!vars)
    BY <1>4, <1>s DEF Dispatch, DispatchLost, MarkRead, BecomeStale, rowVars
  <1>5. CASE OperatorStep /\ ~OperatorApplyRequeue
    BY <1>5, <1>s DEF OperatorStep, OperatorQueuePending, OperatorDispatch,
                      OperatorDispatchFails, OperatorRequeue, rowVars
  <1>6. CASE BeatRequeue \/ MarkAllRead \/ UNCHANGED vars
    BY <1>6, <1>s DEF BeatRequeue, MarkAllRead, vars, rowVars
  <1>7. QED
    BY <1>1, <1>2, <1>3, <1>4, <1>5, <1>6 DEF Next, RowStep, OperatorStep

LEMMA InitPromises == Init => Promise!Init
  <1> SUFFICES ASSUME Init PROVE Promise!Init
    OBVIOUS
  <1>1. \A w \in Workers, n \in Notifs : ~Holds(w, n)
    BY DEF Init, Holds, Idle
  <1>2. [n \in PromptRows |-> {w \in Workers : Holds(w, n)}] = [n \in PromptRows |-> {}]
    BY <1>1 DEF PromptRows
  <1>3. \A n \in PromptRows : n \in Notifs /\ sends[n] = 0 /\ lost[n] = 0 /\ status[n] = "NONE"
    BY DEF Init, PromptRows
  <1>4. ASSUME NEW n \in PromptRows PROVE (sends[n] > lost[n]) = FALSE
    BY <1>3
  <1>5. QED
    BY <1>2, <1>3, <1>4 DEF Promise!Init

(* Every step of the delivery is a step of DeliveryPromise or leaves what   *)
(* it promises alone, for any rows, workers and number of retries: SENT is  *)
(* recorded by the one worker that tries the row, after the provider took   *)
(* the message, and is never undone.                                        *)
THEOREM DeliveryKeepsPromise == Spec => DeliveryPromised
  <1>1. Spec => []PromiseInv
    <2>1. Spec => []Born
      <3>1. TypeOK /\ Born /\ [Next]_vars => Born'
        BY NextBorn
      <3>2. QED
        BY <3>1, InitBorn, TypeCorrect, PTL DEF Spec
    <2>2. ClaimInv /\ SendsAccounted /\ Born => PromiseInv
      BY DEF PromiseInv
    <2>3. QED
      BY <2>1, <2>2, ClaimInvAlways, DuplicatesExplained, PTL
  <1>2. QED
    BY <1>1, InitPromises, DeliveryPromises, PTL DEF Spec, DeliveryPromised, Promise!Spec
-----------------------------------------------------------------------------
(* What every channel keeps, the slow ones included: a message that reached *)
(* the provider is lost, or a worker is about to record it, or it is one of *)
(* those SENT stands for.                                                   *)
Recording(n) == {w \in Workers : worker[w].pc = "sent" /\ worker[w].n = n}

Covered(n) ==
    /\ IsFiniteSet(Recording(n))
    /\ sends[n] >= lost[n] + Cardinality(Recording(n)) + (IF status[n] = "SENT" THEN 1 ELSE 0)

(* A step that neither sends nor records, and makes no row SENT. *)
LEMMA SameCover ==
    ASSUME NEW n \in Notifs, TypeOK, Covered(n), Recording(n)' = Recording(n),
           \E k \in Nat : sends'[n] = sends[n] + k /\ lost'[n] = lost[n] + k,
           status'[n] = "SENT" => status[n] = "SENT"
    PROVE  Covered(n)'
  <1>1. Cardinality(Recording(n)) \in Nat /\ sends[n] \in Nat /\ lost[n] \in Nat
    BY FS_CardinalityType DEF Covered, TypeOK
  <1>2. QED
    BY <1>1 DEF Covered

LEMMA NextCovered ==
    ASSUME TypeOK, [Next]_vars, NEW n \in Notifs, Covered(n)
    PROVE  Covered(n)'
  <1>t. worker \in [Workers -> Jobs] /\ sends[n] \in Nat /\ lost[n] \in Nat
    BY DEF TypeOK
  <1>c. IsFiniteSet(Recording(n)) /\ Cardinality(Recording(n)) \in Nat
    BY FS_CardinalityType DEF Covered
  <1>1. ASSUME NEW m \in Notifs, RowStep(m) PROVE Covered(n)'
    <2>1. UNCHANGED <<worker, sends, lost>> /\ (status'[n] = "SENT" => status[n] = "SENT")
      BY <1>1 DEF RowStep, CreateNotification, Dispatch, DispatchLost, MarkRead,
                  BecomeStale, TypeOK, rowVars, histVars
    <2>2. Recording(n)' = Recording(n)
      BY <2>1 DEF Recording
    <2>3. QED
      BY <2>1, <2>2, <1>t, <1>c DEF Covered
  <1>2. ASSUME NEW w \in Workers, WorkerStep(w) PROVE Covered(n)'
    <2>e. ASSUME worker[w].pc # "sent", worker'[w].pc # "sent",
                 \A v \in Workers : v # w => worker'[v] = worker[v]
          PROVE  Recording(n)' = Recording(n)
      BY <2>e DEF Recording
    <2>1. CASE (\E m \in Notifs, r \in Retries : Take(w, m, r)) \/ ClaimRefused(w)
               \/ Retry(w) \/ GiveUp(w) \/ TakeRequeue(w)
      <3>1. UNCHANGED <<status, sends, lost>>
        BY <2>1 DEF Take, ClaimRefused, Retry, GiveUp, TakeRequeue, rowVars, histVars
      <3>2. /\ worker[w].pc # "sent" /\ worker'[w].pc # "sent"
            /\ \A v \in Workers : v # w => worker'[v] = worker[v]
        BY <2>1, <1>t DEF Take, ClaimRefused, Retry, GiveUp, TakeRequeue, Carry, Idle, Requeueing
      <3>3. QED
        BY <3>1, <3>2, <2>e, <1>t DEF Covered
    <2>2. CASE Claim(w) \/ SaveFailed(w)
      <3>1. /\ worker[w].pc # "sent" /\ worker'[w].pc # "sent"
            /\ \A v \in Workers : v # w => worker'[v] = worker[v]
        <4>1. PICK p \in {"sending", "retrying"} : worker' = [worker EXCEPT ![w].pc = p]
          BY <2>2 DEF Claim, SaveFailed
        <4>2. /\ worker'[w] = Carry(p, worker[w].n, worker[w].r)
              /\ \A v \in Workers : v # w => worker'[v] = worker[v]
          BY <2>2, <4>1, CarryingStep DEF Claim, SaveFailed, Carrying, PCs
        <4>3. QED
          BY <2>2, <4>2 DEF Claim, SaveFailed, Carry
      <3>2. UNCHANGED <<sends, lost>> /\ (status'[n] = "SENT" => status[n] = "SENT")
        BY <2>2 DEF Claim, SaveFailed, TypeOK, histVars
      <3>3. QED
        BY <3>1, <3>2, <2>e, <1>t, <1>c DEF Covered
    <2>3. CASE DeliverOk(w)
      <3>1. /\ worker[w].n \in Notifs
            /\ worker'[w] = Carry("sent", worker[w].n, worker[w].r)
            /\ \A v \in Workers : v # w => worker'[v] = worker[v]
        BY <2>3, CarryingWorker, CarryingStep DEF DeliverOk, Carrying, PCs
      <3>2. UNCHANGED <<status, lost>> /\ w \notin Recording(n)
        BY <2>3 DEF DeliverOk, rowVars, Recording
      <3>3. CASE worker[w].n = n
        <4>1. Recording(n)' = Recording(n) \cup {w}
          BY <3>1, <3>3 DEF Recording, Carry
        <4>2. /\ IsFiniteSet(Recording(n)')
              /\ Cardinality(Recording(n)') = Cardinality(Recording(n)) + 1
          BY <4>1, <3>2, <1>c, FS_AddElement
        <4>3. sends'[n] = sends[n] + 1
          BY <2>3, <3>3, <1>t DEF DeliverOk, TypeOK
        <4>4. QED
          BY <4>2, <4>3, <3>2, <1>t, <1>c DEF Covered
      <3>4. CASE worker[w].n # n
        <4>1. sends'[n] = sends[n]
          BY <2>3, <3>4 DEF DeliverOk, TypeOK
        <4>2. Recording(n)' = Recording(n)
          BY <3>1, <3>2, <3>4 DEF Recording, Carry
        <4>3. QED
          BY <4>1, <4>2, <3>2, <1>t DEF Covered
      <3>5. QED
        BY <3>3, <3>4
    <2>4. ASSUME NEW reached \in BOOLEAN, DeliverFails(w, reached) PROVE Covered(n)'
      <3>c. /\ worker[w].n \in Notifs
            /\ worker'[w] = Carry("failing", worker[w].n, worker[w].r)
            /\ \A v \in Workers : v # w => worker'[v] = worker[v]
        BY <2>4, CarryingWorker, CarryingStep DEF DeliverFails, Carrying, PCs
      <3>1. worker[w].pc # "sent" /\ worker'[w].pc # "sent"
        BY <2>4, <3>c DEF DeliverFails, Carry
      <3>2. \E k \in {0, 1} : sends'[n] = sends[n] + k /\ lost'[n] = lost[n] + k
        BY <2>4, <3>c, <1>t DEF DeliverFails, TypeOK
      <3>3. UNCHANGED status
        BY <2>4 DEF DeliverFails, rowVars
      <3>4. QED
        BY <3>1, <3>2, <3>3, <3>c, <2>e, SameCover
    <2>5. CASE SaveSentFails(w) \/ SaveSent(w) \/ Crash(w)
      <3>1. /\ worker'[w].pc # "sent"
            /\ \A v \in Workers : v # w => worker'[v] = worker[v]
        <4>1. CASE SaveSentFails(w)
          <5>1. worker[w].pc \in Carrying /\ "failing" \in Carrying
            BY <4>1 DEF SaveSentFails, Carrying, PCs
          <5>2. worker' = [worker EXCEPT ![w].pc = "failing"]
            BY <4>1 DEF SaveSentFails
          <5>3. /\ worker'[w] = Carry("failing", worker[w].n, worker[w].r)
                /\ \A v \in Workers : v # w => worker'[v] = worker[v]
            BY <5>1, <5>2, CarryingStep
          <5>4. QED
            BY <5>3 DEF Carry
        <4>2. CASE SaveSent(w) \/ Crash(w)
          BY <4>2, <1>t DEF SaveSent, Crash, Idle
        <4>3. QED
          BY <2>5, <4>1, <4>2
      <3>2. UNCHANGED sends
        BY <2>5 DEF SaveSentFails, SaveSent, Crash, histVars
      <3>3. CASE w \in Recording(n)
        <4>1. Recording(n)' = Recording(n) \ {w}
          BY <3>1 DEF Recording
        <4>2. /\ IsFiniteSet(Recording(n)')
              /\ Cardinality(Recording(n)') = Cardinality(Recording(n)) - 1
          BY <4>1, <3>3, <1>c, FS_RemoveElement
        <4>3. \/ lost'[n] = lost[n] + 1 /\ status'[n] = status[n]
              \/ lost'[n] = lost[n] /\ status'[n] = "SENT"
          BY <2>5, <3>3 DEF SaveSentFails, SaveSent, Crash, Recording, TypeOK, rowVars, histVars
        <4>4. QED
          BY <4>2, <4>3, <3>2, <1>t, <1>c DEF Covered
      <3>4. CASE w \notin Recording(n)
        <4>1. Recording(n)' = Recording(n)
          BY <3>1, <3>4 DEF Recording
        <4>2. lost'[n] = lost[n] /\ status'[n] = status[n]
          BY <2>5, <3>4 DEF SaveSentFails, SaveSent, Crash, Recording, TypeOK, rowVars, histVars
        <4>3. QED
          BY <4>1, <4>2, <3>2, <1>t DEF Covered
      <3>5. QED
        BY <3>3, <3>4
    <2>6. CASE ApplyRequeue(w)
      <3>1. UNCHANGED <<sends, lost>> /\ (status'[n] = "SENT" => status[n] = "SENT")
        BY <2>6 DEF ApplyRequeue, RequeueRows, StaleRows, histVars
      <3>2. /\ worker[w].pc # "sent" /\ worker'[w].pc # "sent"
            /\ \A v \in Workers : v # w => worker'[v] = worker[v]
        BY <2>6, <1>t DEF ApplyRequeue, Idle
      <3>3. QED
        BY <3>1, <3>2, <2>e, <1>t, <1>c DEF Covered
    <2>7. QED
      BY <1>2, <2>1, <2>2, <2>3, <2>4, <2>5, <2>6 DEF WorkerStep, Deliver
  <1>3. CASE OperatorStep \/ BeatRequeue \/ MarkAllRead \/ UNCHANGED vars
    <2>1. UNCHANGED <<worker, sends, lost>> /\ (status'[n] = "SENT" => status[n] = "SENT")
      BY <1>3 DEF OperatorStep, OperatorQueuePending, OperatorDispatch, OperatorDispatchFails,
                  OperatorRequeue, OperatorApplyRequeue, RequeueRows, StaleRows, BeatRequeue,
                  MarkAllRead, vars, rowVars, histVars
    <2>2. Recording(n)' = Recording(n)
      BY <2>1 DEF Recording
    <2>3. QED
      BY <2>1, <2>2, <1>t, <1>c DEF Covered
  <1>4. QED
    BY <1>1, <1>2, <1>3 DEF Next

(* A SENT row stands for a message whose outcome a worker saw, even on a    *)
(* channel whose sends two workers may be at together.                      *)
THEOREM SentDelivered == Spec => []SentWasDelivered
  <1> DEFINE CoveredInv == \A n \in Notifs : Covered(n)
  <1>1. Init => CoveredInv
    <2> SUFFICES ASSUME Init, NEW n \in Notifs PROVE Covered(n)
      OBVIOUS
    <2>1. Recording(n) = {}
      BY DEF Init, Recording, Idle
    <2>2. QED
      BY <2>1, FS_EmptySet DEF Init, Covered
  <1>2. TypeOK /\ CoveredInv /\ [Next]_vars => CoveredInv'
    BY NextCovered
  <1>3. TypeOK /\ CoveredInv => SentWasDelivered
    <2> SUFFICES ASSUME TypeOK, NEW n \in Notifs, Covered(n), status[n] = "SENT"
                 PROVE  sends[n] > lost[n]
      BY DEF SentWasDelivered
    <2>1. Cardinality(Recording(n)) \in Nat /\ sends[n] \in Nat /\ lost[n] \in Nat
      BY FS_CardinalityType DEF Covered, TypeOK
    <2>2. QED
      BY <2>1 DEF Covered
  <1> HIDE DEF CoveredInv
  <1>4. QED
    BY <1>1, <1>2, <1>3, TypeCorrect, PTL DEF Spec

-----------------------------------------------------------------------------
(* Who is responsible for a row.  A task that was published with r retries  *)
(* has r claims behind it, and one more once it is claimed itself.          *)
TriesCounted ==
    /\ \A n \in Notifs, r \in Retries : tasks[n][r] > 0 => attempts[n] >= r
    /\ \A w \in Workers : worker[w].pc \in Carrying =>
          attempts[worker[w].n] >= worker[w].r + (IF worker[w].pc = "claiming" THEN 0 ELSE 1)

(* A step of slot w that publishes nothing beyond what is there, and leaves *)
(* the slot without a task or with one whose claims are counted.            *)
LEMMA CountedStep ==
    ASSUME TypeOK, TriesCounted, NEW w \in Workers,
           \A v \in Workers : v # w => worker'[v] = worker[v],
           \A n \in Notifs : attempts'[n] \in Nat /\ attempts'[n] >= attempts[n],
           \A n \in Notifs, r \in Retries :
              tasks'[n][r] > 0 => tasks[n][r] > 0 \/ attempts'[n] >= r,
           worker'[w].pc \in Carrying =>
              attempts'[worker'[w].n]
                 >= worker'[w].r + (IF worker'[w].pc = "claiming" THEN 0 ELSE 1)
    PROVE  TriesCounted'
  <1>1. ASSUME NEW n \in Notifs, NEW r \in Retries, tasks'[n][r] > 0
        PROVE  attempts'[n] >= r
    <2>1. attempts[n] \in Nat /\ r \in Int
      BY DEF TypeOK, Retries
    <2>2. QED
      BY <1>1, <2>1 DEF TriesCounted
  <1>2. ASSUME NEW v \in Workers, v # w, worker'[v].pc \in Carrying
        PROVE  attempts'[worker'[v].n]
                  >= worker'[v].r + (IF worker'[v].pc = "claiming" THEN 0 ELSE 1)
    <2>1. worker'[v] = worker[v] /\ worker[v].n \in Notifs /\ worker[v].r \in Int
      BY <1>2, CarryingWorker DEF Retries
    <2>2. attempts[worker[v].n] \in Nat
      BY <2>1 DEF TypeOK
    <2>3. attempts[worker[v].n] >= worker[v].r + (IF worker[v].pc = "claiming" THEN 0 ELSE 1)
      BY <1>2, <2>1 DEF TriesCounted
    <2>4. QED
      BY <2>1, <2>2, <2>3
  <1>3. QED
    BY <1>1, <1>2 DEF TriesCounted

LEMMA NextTriesCounted == TypeOK /\ TriesCounted /\ [Next]_vars => TriesCounted'
  <1> SUFFICES ASSUME TypeOK, TriesCounted, [Next]_vars PROVE TriesCounted'
    OBVIOUS
  <1>a. \A n \in Notifs : attempts[n] \in Nat
    BY DEF TypeOK
  <1>p. ASSUME NEW n \in Notifs, Publish(n, 0), UNCHANGED <<worker, attempts>>
        PROVE  TriesCounted'
    <2>1. \A m \in Notifs, r \in Retries : tasks'[m][r] = tasks[m][r] \/ r = 0
      BY <1>p DEF Publish, TypeOK
    <2>2. QED
      BY <1>p, <1>a, <2>1 DEF TriesCounted
  <1>1. ASSUME NEW n \in Notifs, RowStep(n) PROVE TriesCounted'
    <2>1. CASE Dispatch(n)
      BY <2>1, <1>p DEF Dispatch, histVars
    <2>2. CASE ~Dispatch(n)
      BY <1>1, <2>2 DEF RowStep, CreateNotification, DispatchLost, MarkRead, BecomeStale,
                        histVars, TriesCounted
    <2>3. QED
      BY <2>1, <2>2
  <1>2. ASSUME NEW w \in Workers, WorkerStep(w) PROVE TriesCounted'
    <2>t. worker \in [Workers -> Jobs]
      BY DEF TypeOK
    <2>1. ASSUME NEW n \in Notifs, NEW r \in Retries, Take(w, n, r) PROVE TriesCounted'
      <3>1. /\ worker'[w] = Carry("claiming", n, r)
            /\ \A v \in Workers : v # w => worker'[v] = worker[v]
        BY <2>1, <2>t DEF Take
      <3>2. UNCHANGED attempts /\ tasks[n][r] > 0
        BY <2>1 DEF Take, histVars
      <3>3. \A m \in Notifs, q \in Retries : tasks'[m][q] > 0 => tasks[m][q] > 0
        BY <2>1 DEF Take, TypeOK
      <3>4. attempts[n] >= r /\ r \in Int
        BY <3>2 DEF TriesCounted, Retries
      <3>5. worker'[w].pc = "claiming" /\ worker'[w].n = n /\ worker'[w].r = r
        BY <3>1 DEF Carry
      <3>6. attempts'[n] >= r + 0
        BY <3>2, <3>4
      <3>7. worker'[w].pc \in Carrying =>
               attempts'[worker'[w].n]
                  >= worker'[w].r + (IF worker'[w].pc = "claiming" THEN 0 ELSE 1)
        BY <3>5, <3>6
      <3>8. \A m \in Notifs : attempts'[m] \in Nat /\ attempts'[m] >= attempts[m]
        BY <1>a, <3>2
      <3>9. QED
        BY <3>1, <3>3, <3>7, <3>8, CountedStep
    <2>2. CASE Claim(w)
      <3>1. /\ worker[w].n \in Notifs /\ worker[w].r \in Retries
            /\ worker'[w] = Carry("sending", worker[w].n, worker[w].r)
            /\ \A v \in Workers : v # w => worker'[v] = worker[v]
        BY <2>2, CarryingWorker, CarryingStep DEF Claim, Carrying, PCs
      <3>r. worker[w].r \in Int
        BY <3>1 DEF Retries
      <3>2. UNCHANGED tasks
        BY <2>2 DEF Claim
      <3>3. \A n \in Notifs : attempts'[n] = attempts[n] + (IF n = worker[w].n THEN 1 ELSE 0)
        BY <2>2, <3>1, <1>a DEF Claim, TypeOK
      <3>4. attempts[worker[w].n] >= worker[w].r
        BY <2>2, <3>1, <3>r DEF Claim, TriesCounted, Carrying, PCs
      <3>5. \A n \in Notifs : attempts'[n] \in Nat /\ attempts'[n] >= attempts[n]
        BY <3>3, <1>a
      <3>6. attempts'[worker[w].n] >= worker[w].r + 1
        BY <3>1, <3>r, <3>3, <3>4, <1>a
      <3>7. worker'[w].pc = "sending" /\ worker'[w].n = worker[w].n /\ worker'[w].r = worker[w].r
        BY <3>1 DEF Carry
      <3>8. QED
        BY <3>1, <3>r, <3>2, <3>5, <3>6, <3>7, CountedStep
    <2>3. CASE Deliver(w) \/ SaveSentFails(w) \/ SaveFailed(w)
      <3>1. worker[w].pc \in {"sending", "sent", "failing"}
        BY <2>3 DEF Deliver, DeliverOk, DeliverFails, SaveSentFails, SaveFailed
      <3>2. PICK p \in {"sent", "failing", "retrying"} : worker' = [worker EXCEPT ![w].pc = p]
        BY <2>3 DEF Deliver, DeliverOk, DeliverFails, SaveSentFails, SaveFailed
      <3>3. /\ worker[w].n \in Notifs /\ worker[w].r \in Retries
            /\ worker'[w] = Carry(p, worker[w].n, worker[w].r)
            /\ \A v \in Workers : v # w => worker'[v] = worker[v]
        BY <3>1, <3>2, CarryingWorker, CarryingStep DEF Carrying, PCs
      <3>4. UNCHANGED <<tasks, attempts>>
        BY <2>3 DEF Deliver, DeliverOk, DeliverFails, SaveSentFails, SaveFailed, histVars
      <3>5. attempts[worker[w].n] >= worker[w].r + 1
        BY <3>1 DEF TriesCounted, Carrying, PCs
      <3>6. worker'[w].pc = p /\ worker'[w].n = worker[w].n /\ worker'[w].r = worker[w].r
        BY <3>3 DEF Carry
      <3>7. QED
        BY <1>a, <3>3, <3>4, <3>5, <3>6, CountedStep
    <2>4. CASE Retry(w)
      <3>1. /\ worker[w].n \in Notifs /\ worker[w].r \in Retries
            /\ attempts[worker[w].n] >= worker[w].r + 1
        BY <2>4, CarryingWorker DEF Retry, TriesCounted, Carrying, PCs
      <3>2. \A n \in Notifs, r \in Retries :
               \/ tasks'[n][r] = tasks[n][r]
               \/ n = worker[w].n /\ r = worker[w].r + 1
        BY <2>4 DEF Retry, Publish, TypeOK
      <3>3. UNCHANGED attempts /\ worker'[w] = Idle
            /\ \A v \in Workers : v # w => worker'[v] = worker[v]
        BY <2>4, <2>t DEF Retry, histVars
      <3>4. Idle.pc \notin Carrying
        BY DEF Idle, Carrying
      <3>5. QED
        BY <1>a, <3>1, <3>2, <3>3, <3>4, CountedStep
    <2>5. CASE ClaimRefused(w) \/ SaveSent(w) \/ GiveUp(w) \/ TakeRequeue(w)
               \/ ApplyRequeue(w) \/ Crash(w)
      <3>1. UNCHANGED <<tasks, attempts>>
        BY <2>5 DEF ClaimRefused, SaveSent, GiveUp, TakeRequeue, ApplyRequeue, Crash, histVars
      <3>2. \A v \in Workers : v # w => worker'[v] = worker[v]
        BY <2>5, <2>t DEF ClaimRefused, SaveSent, GiveUp, TakeRequeue, ApplyRequeue, Crash
      <3>3. worker'[w].pc \in {"idle", "requeueing"}
        BY <2>5, <2>t DEF ClaimRefused, SaveSent, GiveUp, TakeRequeue, ApplyRequeue, Crash,
                          Idle, Requeueing
      <3>4. worker'[w].pc \notin Carrying
        BY <3>3 DEF Carrying
      <3>5. QED
        BY <1>a, <3>1, <3>2, <3>4, CountedStep
    <2>6. QED
      BY <1>2, <2>1, <2>2, <2>3, <2>4, <2>5 DEF WorkerStep
  <1>3. CASE OperatorStep
    <2>1. ASSUME NEW n \in Notifs, OperatorDispatch(n) PROVE TriesCounted'
      BY <2>1, <1>p DEF OperatorDispatch, histVars
    <2>2. CASE ~\E n \in Notifs : OperatorDispatch(n)
      BY <1>3, <2>2 DEF OperatorStep, OperatorQueuePending, OperatorDispatchFails,
                        OperatorRequeue, OperatorApplyRequeue, histVars, TriesCounted
    <2>3. QED
      BY <2>1, <2>2
  <1>4. CASE BeatRequeue \/ MarkAllRead \/ UNCHANGED vars
    BY <1>4 DEF BeatRequeue, MarkAllRead, vars, histVars, TriesCounted
  <1>5. QED
    BY <1>1, <1>2, <1>3, <1>4 DEF Next

(* Without a mishap a DELIVERING row has a worker at it; a PENDING one a    *)
(* callback, a task or a worker that will still write it, since it was      *)
(* DELIVERING before if it was requeued; a FAILED one is carried on or has  *)
(* no attempts left.                                                        *)
AtIt(n) == \E w \in Workers : worker[w].n = n /\ worker[w].pc # "retrying"

Tended(n) ==
    /\ status[n] = "DELIVERING" => \E w \in Workers : Holds(w, n)
    /\ status[n] = "PENDING" =>
          n \in committed \/ (\E r \in Retries : tasks[n][r] > 0) \/ AtIt(n)
    /\ status[n] = "FAILED" => Carried(n) \/ attempts[n] > MaxRetries

(* A step that takes nothing away from a row. *)
LEMMA TendedStays ==
    ASSUME NEW n \in Notifs, Tended(n),
           UNCHANGED <<worker, attempts>>,
           status'[n] = status[n] \/ (status[n] = "DELIVERING" /\ status'[n] = "PENDING"),
           n \in committed => n \in committed' \/ \E r \in Retries : tasks'[n][r] > 0,
           \A r \in Retries : tasks[n][r] > 0 => tasks'[n][r] > 0
    PROVE  Tended(n)'
  <1>1. Carried(n) => Carried(n)'
    BY DEF Carried
  <1>2. \A w \in Workers : Holds(w, n) => worker[w].n = n /\ worker[w].pc # "retrying"
    BY DEF Holds
  <1>3. QED
    BY <1>1, <1>2 DEF Tended, AtIt, Holds

LEMMA RequeueStatus ==
    ASSUME NEW n \in Notifs, NEW rows, RequeueRows(rows)
    PROVE  status'[n] = status[n] \/ (status[n] = "DELIVERING" /\ status'[n] = "PENDING")
  BY DEF RequeueRows, StaleRows

(* A step of slot w on a row that is not its own. *)
LEMMA TendedByOthers ==
    ASSUME NEW n \in Notifs, Tended(n), NEW w \in Workers,
           worker[w].n # n, worker'[w].n # n,
           \A v \in Workers : v # w => worker'[v] = worker[v],
           UNCHANGED committed, attempts'[n] = attempts[n], status'[n] = status[n],
           \A r \in Retries : tasks[n][r] > 0 => tasks'[n][r] > 0
    PROVE  Tended(n)'
  <1>1. \A v \in Workers : worker[v].n = n => v # w /\ worker'[v] = worker[v]
    OBVIOUS
  <1>2. Carried(n) => Carried(n)'
    BY <1>1 DEF Carried
  <1>3. (\E v \in Workers : Holds(v, n)) => \E v \in Workers : Holds(v, n)'
    BY <1>1 DEF Holds
  <1>4. AtIt(n) => AtIt(n)'
    BY <1>1 DEF AtIt
  <1>5. QED
    BY <1>2, <1>3, <1>4 DEF Tended

LEMMA NextTended ==
    ASSUME TypeOK, TriesCounted, [Next]_vars, NEW n \in Notifs,
           n \in mishap \/ Tended(n), n \notin mishap'
    PROVE  Tended(n)'
  <1>t. worker \in [Workers -> Jobs] /\ attempts[n] \in Nat /\ NoNotif # n
    BY ConstantsAssumption DEF TypeOK
  <1>0. mishap \subseteq mishap'
    BY DEF Next, RowStep, CreateNotification, Dispatch, DispatchLost, MarkRead, BecomeStale,
           WorkerStep, Take, Claim, ClaimRefused, Deliver, DeliverOk, DeliverFails, SaveSent,
           SaveSentFails, SaveFailed, Retry, GiveUp, TakeRequeue, ApplyRequeue, Crash,
           OperatorStep, OperatorQueuePending, OperatorDispatch, OperatorDispatchFails,
           OperatorRequeue, OperatorApplyRequeue, BeatRequeue, MarkAllRead, vars, histVars
  <1>i. Tended(n)
    BY <1>0
  <1>p. ASSUME NEW m \in Notifs, NEW r \in Retries, Publish(m, r)
        PROVE  /\ \A k \in Notifs, q \in Retries : tasks[k][q] > 0 => tasks'[k][q] > 0
               /\ tasks'[m][r] > 0
    BY <1>p DEF Publish, TypeOK
  <1>1. ASSUME NEW m \in Notifs, RowStep(m) PROVE Tended(n)'
    <2>1. CASE CreateNotification(m)
      <3>1. CASE m = n
        <4>1. status'[n] = "PENDING" /\ n \in committed'
          BY <2>1, <3>1 DEF CreateNotification, TypeOK
        <4>2. QED
          BY <4>1 DEF Tended
      <3>2. CASE m # n
        BY <2>1, <3>2, <1>i, TendedStays DEF CreateNotification, histVars
      <3>3. QED
        BY <3>1, <3>2
    <2>2. CASE Dispatch(m)
      <3>1. \A q \in Retries : tasks[n][q] > 0 => tasks'[n][q] > 0
        BY <2>2, <1>p, FirstTry DEF Dispatch
      <3>2. n \in committed => n \in committed' \/ \E r \in Retries : tasks'[n][r] > 0
        BY <2>2, <1>p, FirstTry DEF Dispatch
      <3>3. UNCHANGED <<worker, attempts, status>>
        BY <2>2 DEF Dispatch, rowVars, histVars
      <3>4. QED
        BY <3>1, <3>2, <3>3, <1>i, TendedStays
    <2>3. CASE DispatchLost(m) \/ MarkRead(m) \/ BecomeStale(m)
      <3>1. /\ UNCHANGED <<worker, attempts, status, tasks>>
            /\ n \in committed => n \in committed'
        BY <2>3 DEF DispatchLost, MarkRead, BecomeStale, rowVars, histVars
      <3>2. QED
        BY <3>1, <1>i, TendedStays
    <2>4. QED
      BY <1>1, <2>1, <2>2, <2>3 DEF RowStep
  <1>2. ASSUME NEW w \in Workers, WorkerStep(w) PROVE Tended(n)'
    <2>1. ASSUME NEW m \in Notifs, NEW r \in Retries, Take(w, m, r) PROVE Tended(n)'
      <3>1. /\ worker'[w] = Carry("claiming", m, r) /\ worker[w].pc = "idle"
            /\ \A v \in Workers : v # w => worker'[v] = worker[v]
        BY <2>1, <1>t DEF Take
      <3>2. UNCHANGED <<status, attempts, committed>>
        BY <2>1 DEF Take, rowVars, histVars
      <3>3. worker[w].n # n
        BY <3>1, <1>t DEF Jobs, Idle, PCs
      <3>4. CASE m = n
        <4>1. Carried(n)' /\ AtIt(n)'
          BY <3>1, <3>4 DEF Carried, AtIt, Carry
        <4>2. (\E v \in Workers : Holds(v, n)) => \E v \in Workers : Holds(v, n)'
          BY <3>1, <3>3 DEF Holds
        <4>3. QED
          BY <4>1, <4>2, <3>2, <1>i DEF Tended
      <3>5. CASE m # n
        <4>1. worker'[w].n # n
          BY <3>1, <3>5 DEF Carry
        <4>2. \A q \in Retries : tasks[n][q] > 0 => tasks'[n][q] > 0
          BY <2>1, <3>5 DEF Take, TypeOK
        <4>3. QED
          BY <4>1, <4>2, <3>1, <3>2, <3>3, <1>i, TendedByOthers
      <3>6. QED
        BY <3>4, <3>5
    <2>2. CASE Claim(w)
      <3>1. /\ worker[w].n \in Notifs
            /\ worker'[w] = Carry("sending", worker[w].n, worker[w].r)
            /\ \A v \in Workers : v # w => worker'[v] = worker[v]
        BY <2>2, CarryingWorker, CarryingStep DEF Claim, Carrying, PCs
      <3>2. CASE worker[w].n = n
        <4>1. status'[n] = "DELIVERING"
          BY <2>2, <3>2 DEF Claim, TypeOK
        <4>2. Holds(w, n)'
          BY <3>1, <3>2 DEF Holds, Carry
        <4>3. QED
          BY <4>1, <4>2 DEF Tended
      <3>3. CASE worker[w].n # n
        <4>1. /\ worker'[w].n # n /\ UNCHANGED <<committed, tasks>>
              /\ status'[n] = status[n] /\ attempts'[n] = attempts[n]
          BY <2>2, <3>1, <3>3 DEF Claim, Carry, TypeOK
        <4>2. QED
          BY <4>1, <3>1, <3>3, <1>i, TendedByOthers
      <3>4. QED
        BY <3>2, <3>3
    <2>3. CASE ClaimRefused(w) \/ GiveUp(w) \/ TakeRequeue(w)
      <3>1. /\ worker'[w].n # n
            /\ \A v \in Workers : v # w => worker'[v] = worker[v]
            /\ UNCHANGED <<status, attempts, committed, tasks>>
        BY <2>3, <1>t DEF ClaimRefused, GiveUp, TakeRequeue, Idle, Requeueing, rowVars, histVars
      <3>2. CASE worker[w].n # n
        BY <3>1, <3>2, <1>i, TendedByOthers
      <3>3. CASE worker[w].n = n /\ ClaimRefused(w)
        <4>1. /\ status'[n] \in {"SENT", "DELIVERING"} /\ ~Holds(w, n)
              /\ status'[n] = status[n]
          BY <3>1, <3>3 DEF ClaimRefused, Claimable, Holds
        <4>2. (\E v \in Workers : Holds(v, n)) => \E v \in Workers : Holds(v, n)'
          BY <4>1, <3>1 DEF Holds
        <4>3. QED
          BY <4>1, <4>2, <1>i DEF Tended
      <3>4. CASE worker[w].n = n /\ GiveUp(w)
        <4>1. /\ worker[w].pc = "retrying" /\ worker[w].r \in Retries
              /\ ~MayRetry(worker[w].r)
          BY <3>4, CarryingWorker DEF GiveUp, Carrying, PCs
        <4>2. attempts[n] >= worker[w].r + 1
          BY <3>4, <4>1 DEF TriesCounted, Carrying, PCs
        <4>3. attempts'[n] > MaxRetries
          BY <3>1, <4>1, <4>2, <1>t, ConstantsAssumption DEF MayRetry, Retries
        <4>4. (\E v \in Workers : Holds(v, n)) => \E v \in Workers : Holds(v, n)'
          BY <4>1, <3>1 DEF Holds
        <4>5. AtIt(n) => AtIt(n)'
          BY <4>1, <3>1 DEF AtIt
        <4>6. QED
          BY <4>3, <4>4, <4>5, <3>1, <1>i DEF Tended
      <3>5. worker[w].n = n => ~TakeRequeue(w)
        BY <1>t DEF TakeRequeue, Jobs, Idle, PCs
      <3>6. QED
        BY <2>3, <3>2, <3>3, <3>4, <3>5
    <2>4. CASE Deliver(w) \/ SaveSentFails(w)
      <3>1. /\ worker[w].pc \in {"sending", "sent"}
            /\ \E p \in {"sent", "failing"} : worker' = [worker EXCEPT ![w].pc = p]
            /\ UNCHANGED <<status, attempts, committed, tasks>>
        BY <2>4 DEF Deliver, DeliverOk, DeliverFails, SaveSentFails, rowVars, histVars
      <3>2. PICK p \in {"sent", "failing"} : worker' = [worker EXCEPT ![w].pc = p]
        BY <3>1
      <3>3. /\ worker'[w] = Carry(p, worker[w].n, worker[w].r)
            /\ \A v \in Workers : v # w => worker'[v] = worker[v]
        BY <3>1, <3>2, CarryingStep DEF Carrying, PCs
      <3>4. \A v \in Workers : /\ worker'[v].n = worker[v].n
                               /\ Holds(v, n) => Holds(v, n)'
                               /\ worker[v].pc # "retrying" => worker'[v].pc # "retrying"
        BY <3>1, <3>3 DEF Carry, Holds
      <3>5. /\ Carried(n) => Carried(n)'
            /\ AtIt(n) => AtIt(n)'
        BY <3>1, <3>4 DEF Carried, AtIt
      <3>6. QED
        BY <3>1, <3>4, <3>5, <1>i DEF Tended
    <2>5. CASE SaveSent(w) \/ SaveFailed(w)
      <3>1. /\ worker[w].n \in Notifs /\ worker[w].pc \in {"sent", "failing"}
            /\ worker'[w] = Idle \/ worker'[w] = Carry("retrying", worker[w].n, worker[w].r)
            /\ \A v \in Workers : v # w => worker'[v] = worker[v]
        <4>1. CASE SaveSent(w)
          BY <4>1, <1>t, CarryingWorker DEF SaveSent, Carrying, PCs
        <4>2. CASE SaveFailed(w)
          BY <4>2, CarryingWorker, CarryingStep DEF SaveFailed, Carrying, PCs
        <4>3. QED
          BY <2>5, <4>1, <4>2
      <3>2. CASE worker[w].n = n
        <4>1. \/ status'[n] = "SENT"
              \/ status'[n] = "FAILED" /\ worker'[w].n = n
          <5>1. CASE SaveSent(w)
            BY <5>1, <3>2 DEF SaveSent, TypeOK
          <5>2. CASE SaveFailed(w)
            <6>1. worker'[w] = Carry("retrying", worker[w].n, worker[w].r)
              BY <5>2, CarryingStep DEF SaveFailed, Carrying, PCs
            <6>2. QED
              BY <5>2, <6>1, <3>2 DEF SaveFailed, Carry, TypeOK
          <5>3. QED
            BY <2>5, <5>1, <5>2
        <4>2. QED
          BY <4>1 DEF Tended, Carried
      <3>3. CASE worker[w].n # n
        <4>1. /\ worker'[w].n # n /\ UNCHANGED <<attempts, committed, tasks>>
              /\ status'[n] = status[n]
          BY <2>5, <3>1, <3>3, <1>t DEF SaveSent, SaveFailed, Carry, Idle, TypeOK, histVars
        <4>2. QED
          BY <4>1, <3>1, <3>3, <1>i, TendedByOthers
      <3>4. QED
        BY <3>2, <3>3
    <2>6. CASE Retry(w)
      <3>1. /\ worker[w].n \in Notifs /\ worker[w].r \in Retries
            /\ worker[w].pc = "retrying" /\ worker'[w] = Idle
            /\ \A v \in Workers : v # w => worker'[v] = worker[v]
            /\ UNCHANGED <<status, attempts, committed>>
        BY <2>6, <1>t, CarryingWorker DEF Retry, Carrying, PCs, rowVars, histVars
      <3>2. worker[w].r + 1 \in Retries
        BY <2>6, <3>1, ConstantsAssumption DEF Retry, MayRetry, Retries
      <3>3. /\ \A q \in Retries : tasks[n][q] > 0 => tasks'[n][q] > 0
            /\ tasks'[worker[w].n][worker[w].r + 1] > 0
        BY <2>6, <3>1, <3>2, <1>p DEF Retry
      <3>4. CASE worker[w].n = n
        <4>1. Carried(n)' /\ \E r \in Retries : tasks'[n][r] > 0
          BY <3>2, <3>3, <3>4 DEF Carried
        <4>2. (\E v \in Workers : Holds(v, n)) => \E v \in Workers : Holds(v, n)'
          BY <3>1 DEF Holds
        <4>3. QED
          BY <4>1, <4>2, <3>1, <1>i DEF Tended
      <3>5. CASE worker[w].n # n
        <4>1. worker'[w].n # n
          BY <3>1, <1>t DEF Idle
        <4>2. QED
          BY <4>1, <3>1, <3>3, <3>5, <1>i, TendedByOthers
      <3>6. QED
        BY <3>4, <3>5
    <2>7. CASE ApplyRequeue(w)
      <3>1. /\ worker[w].pc = "requeueing" /\ worker'[w] = Idle
            /\ \A v \in Workers : v # w => worker'[v] = worker[v]
            /\ UNCHANGED <<attempts, committed, tasks>>
        BY <2>7, <1>t DEF ApplyRequeue, histVars
      <3>2. worker[w].n # n /\ worker'[w].n # n
        BY <3>1, <1>t DEF Jobs, Idle, PCs
      <3>3. status'[n] = status[n] \/ (status[n] = "DELIVERING" /\ status'[n] = "PENDING")
        BY <2>7, RequeueStatus DEF ApplyRequeue
      <3>4. (\E v \in Workers : Holds(v, n)) => AtIt(n)' /\ \E v \in Workers : Holds(v, n)'
        BY <3>1, <3>2 DEF Holds, AtIt
      <3>5. Carried(n) => Carried(n)'
        BY <3>1, <3>2 DEF Carried
      <3>6. AtIt(n) => AtIt(n)'
        BY <3>1, <3>2 DEF AtIt
      <3>7. QED
        BY <3>1, <3>3, <3>4, <3>5, <3>6, <1>i DEF Tended
    <2>8. CASE Crash(w)
      <3>1. /\ worker'[w] = Idle
            /\ \A v \in Workers : v # w => worker'[v] = worker[v]
            /\ UNCHANGED <<status, attempts, committed, tasks>>
        BY <2>8, <1>t DEF Crash, rowVars
      <3>2. worker[w].n # n
        BY <2>8, <1>t DEF Crash
      <3>3. worker'[w].n # n
        BY <3>1, <1>t DEF Idle
      <3>4. QED
        BY <3>1, <3>2, <3>3, <1>i, TendedByOthers
    <2>9. QED
      BY <1>2, <2>1, <2>2, <2>3, <2>4, <2>5, <2>6, <2>7, <2>8 DEF WorkerStep
  <1>3. CASE OperatorStep \/ BeatRequeue \/ MarkAllRead \/ UNCHANGED vars
    <2>1. UNCHANGED <<worker, attempts, committed>>
      BY <1>3 DEF OperatorStep, OperatorQueuePending, OperatorDispatch, OperatorDispatchFails,
                  OperatorRequeue, OperatorApplyRequeue, BeatRequeue, MarkAllRead, vars, histVars
    <2>2. \A r \in Retries : tasks[n][r] > 0 => tasks'[n][r] > 0
      BY <1>3, <1>p, FirstTry
         DEF OperatorStep, OperatorQueuePending, OperatorDispatch, OperatorDispatchFails,
             OperatorRequeue, OperatorApplyRequeue, BeatRequeue, MarkAllRead, vars
    <2>3. status'[n] = status[n] \/ (status[n] = "DELIVERING" /\ status'[n] = "PENDING")
      BY <1>3, RequeueStatus
         DEF OperatorStep, OperatorQueuePending, OperatorDispatch, OperatorDispatchFails,
             OperatorRequeue, OperatorApplyRequeue, BeatRequeue, MarkAllRead, vars, rowVars
    <2>4. QED
      BY <2>1, <2>2, <2>3, <1>i, TendedStays
  <1>4. QED
    BY <1>1, <1>2, <1>3 DEF Next

(* No row that nothing has befallen is left behind, on any channel, however *)
(* many tasks of it are refused and however often it is requeued.           *)
THEOREM NoneAbandoned == Spec => []NotAbandoned
  <1> DEFINE TendedInv == \A n \in Notifs : n \in mishap \/ Tended(n)
  <1>1. Init => TriesCounted /\ TendedInv
    <2> SUFFICES ASSUME Init PROVE TriesCounted /\ TendedInv
      OBVIOUS
    <2>1. TriesCounted
      BY DEF Init, TriesCounted, Idle, Carrying
    <2>2. TendedInv
      BY DEF Init, Tended
    <2>3. QED
      BY <2>1, <2>2
  <1>2. TypeOK /\ TriesCounted /\ TendedInv /\ [Next]_vars => TendedInv'
    BY NextTended
  <1>3. TypeOK /\ TendedInv => NotAbandoned
    <2> SUFFICES ASSUME TypeOK, NEW n \in Notifs, Tended(n), Created(n), ~Carried(n)
                 PROVE  Settled(n)
      BY DEF NotAbandoned
    <2>1. status[n] \in {"PENDING", "DELIVERING", "SENT", "FAILED"}
      BY DEF TypeOK, Statuses, Created
    <2>2. QED
      BY <2>1 DEF Tended, Carried, AtIt, Holds, Settled
  <1> HIDE DEF TendedInv
  <1>4. QED
    BY <1>1, <1>2, <1>3, NextTriesCounted, TypeCorrect, PTL DEF Spec

-----------------------------------------------------------------------------
(* The notices of an alert, for every set of recipients, policies and        *)
(* notifiers.                                                                *)

(* A notifier that is at a row has read that row's recipient alone. *)
ReadsOne ==
    \A r \in Notifiers : notifier[r].pc \in {"create", "queue"} =>
        \E u \in Users : notifier[r].read = {u}

(* Nothing but a run of the escalation task acts on what it has read. *)
ReadsRecorded ==
    \A r \in Notifiers : notifier[r].pc = "escalate" =>
        notifier[r].read \subseteq Policies /\ notifier[r].fact \in Policies

Shape == Notices!TypeOK /\ ReadsOne /\ ReadsRecorded

LEMMA InitShape == Notices!Init => Shape
  <1>1. Notices!Init => resolvedAt \in BOOLEAN
    BY Zenon DEF Notices!Init
  <1>. QED BY <1>1 DEF Notices!Init, Shape, Notices!TypeOK, ReadsOne, ReadsRecorded,
                       Notices!IdleNotifier, Notices!Keys, Notices!Facts

LEMMA NextShape == Shape /\ [Notices!Next]_(Notices!vars) => Shape'
  <1> SUFFICES ASSUME Shape, [Notices!Next]_(Notices!vars) PROVE Shape'
    OBVIOUS
  <1> USE DEF Shape, ReadsOne, ReadsRecorded
  <1>1. ASSUME NEW r \in Notifiers, Notices!Notify(r) PROVE Shape'
    <2>1. CASE Notices!Open(r)
      BY <2>1 DEF Notices!TypeOK, Notices!Open, Notices!Announce, Notices!IdleNotifier,
           Notices!Facts, Notices!bounds
    <2>2. CASE Notices!Resolve(r)
      <3>1. runs' \in Nat
        BY <2>2 DEF Notices!TypeOK, Notices!Resolve, Notices!NextRun
      <3>2. QED
        BY <2>2, <3>1
           DEF Notices!TypeOK, Notices!Resolve, Notices!Announce, Notices!IdleNotifier,
               Notices!Facts
    <2>3. ASSUME NEW p \in Policies, Notices!CheckEscalation(r, p) PROVE Shape'
      <3>1. runs' \in Nat
        BY <2>3 DEF Notices!TypeOK, Notices!CheckEscalation, Notices!NextRun
      <3>2. QED
        BY <2>3, <3>1
           DEF Notices!TypeOK, Notices!CheckEscalation, Notices!IdleNotifier, Notices!Facts,
               Notices!alert
    <2>4. CASE Notices!RecordEscalation(r)
      BY <2>4 DEF Notices!TypeOK, Notices!RecordEscalation, Notices!Announce,
           Notices!IdleNotifier, Notices!bounds
    <2>5. ASSUME NEW u \in Users, Notices!SkipExisting(r, u) \/ Notices!FindMissing(r, u)
          PROVE Shape'
      BY <2>5 DEF Notices!TypeOK, Notices!SkipExisting, Notices!FindMissing, Notices!alert,
           Notices!bounds
    <2>6. ASSUME NEW u \in Users, Notices!LoseRace(r, u) PROVE Shape'
      <3>1. CASE notifier[r].fact \in Policies
        BY <2>6, <3>1 DEF Notices!TypeOK, Notices!LoseRace, Notices!alert, Notices!bounds
      <3>2. CASE notifier[r].fact \notin Policies
        BY <2>6, <3>2
           DEF Notices!TypeOK, Notices!LoseRace, Notices!IdleNotifier, Notices!Facts,
               Notices!alert, Notices!bounds
      <3>3. QED
        BY <3>1, <3>2
    <2>7. ASSUME NEW u \in Users, Notices!Create(r, u) PROVE Shape'
      BY <2>7 DEF Notices!TypeOK, Notices!Create, Notices!Key, Notices!Keys, Notices!alert,
           Notices!bounds
    <2>8. ASSUME NEW u \in Users, Notices!Queue(r, u) PROVE Shape'
      <3>1. Notices!Key(r, u) \in Notices!Keys
        BY DEF Notices!TypeOK, Notices!Key, Notices!Keys
      <3>2. QED
        BY <2>8, <3>1 DEF Notices!TypeOK, Notices!Queue, Notices!alert, Notices!bounds
    <2>9. CASE Notices!Finish(r) \/ Notices!Break(r)
      <3>1. breaks' \in Nat /\ runs' \in Nat /\ cut' \subseteq Notices!Facts
        BY <2>9 DEF Notices!TypeOK, Notices!Finish, Notices!Break, Notices!bounds
      <3>2. QED
        BY <2>9, <3>1
           DEF Notices!TypeOK, Notices!Finish, Notices!Break, Notices!IdleNotifier,
               Notices!Facts, Notices!alert
    <2>10. QED
      BY <1>1, <2>1, <2>2, <2>3, <2>4, <2>5, <2>6, <2>7, <2>8, <2>9 DEF Notices!Notify
  <1>2. CASE \/ Notices!Acknowledge \/ \E p \in Policies : Notices!MinutesPass(p)
             \/ UNCHANGED Notices!vars
    BY <1>2 DEF Notices!TypeOK, Notices!Acknowledge, Notices!MinutesPass, Notices!vars,
         Notices!bounds
  <1>3. QED
    BY <1>1, <1>2 DEF Notices!Next

LEMMA ShapeAlways == Notices!Spec => []Shape
  BY InitShape, NextShape, PTL DEF Notices!Spec

-----------------------------------------------------------------------------
(* Nobody is told twice: a delivery is queued by the notifier that created  *)
(* the row, and by no other.                                                *)
AtRow(r, k) ==
    /\ notifier[r].pc = "queue"
    /\ k[1] = notifier[r].fact /\ k[2] \in notifier[r].read

(* A row's creator has not queued it yet, is its only one, and is still at  *)
(* it: a row that is not there has neither.                                 *)
Owned(k) ==
    /\ queued[k] <= 1
    /\ \A r \in Notifiers : AtRow(r, k) => queued[k] = 0 /\ k \in notices
    /\ \A r, s \in Notifiers : AtRow(r, k) /\ AtRow(s, k) => r = s
    /\ queued[k] > 0 => k \in notices

(* A step that leaves nobody newly at the row. *)
LEMMA SameOwner ==
    ASSUME NEW k \in Notices!Keys, Owned(k), notices \subseteq notices', queued'[k] = queued[k],
           \A r \in Notifiers : AtRow(r, k)' => AtRow(r, k)
    PROVE  Owned(k)'
  BY DEF Owned

LEMMA NextOwned ==
    ASSUME Shape, [Notices!Next]_(Notices!vars), NEW k \in Notices!Keys, Owned(k)
    PROVE  Owned(k)'
  <1>t. Notices!TypeOK /\ ReadsOne /\ queued[k] \in Nat
    BY DEF Shape, Notices!TypeOK
  <1>1. ASSUME NEW r \in Notifiers, Notices!Notify(r) PROVE Owned(k)'
    <2>1. ASSUME NEW u \in Users, Notices!Create(r, u) PROVE Owned(k)'
      <3>1. /\ notices' = notices \cup {Notices!Key(r, u)} /\ Notices!Key(r, u) \notin notices
            /\ UNCHANGED queued /\ notifier[r].read = {u}
            /\ notifier' = [notifier EXCEPT ![r].pc = "queue"]
        BY <2>1, <1>t DEF Notices!Create, ReadsOne
      <3>2. CASE k = Notices!Key(r, u)
        <4>1. queued[k] = 0 /\ \A s \in Notifiers : ~AtRow(s, k)
          BY <3>1, <3>2, <1>t DEF Owned
        <4>2. \A s \in Notifiers : AtRow(s, k)' => s = r
          BY <3>1, <4>1, <1>t DEF AtRow, Notices!TypeOK
        <4>3. QED
          BY <3>1, <3>2, <4>1, <4>2 DEF Owned
      <3>3. CASE k # Notices!Key(r, u)
        <4>1. ~AtRow(r, k)'
          BY <3>1, <3>3, <1>t DEF AtRow, Notices!TypeOK, Notices!Key, Notices!Keys
        <4>2. \A s \in Notifiers : AtRow(s, k)' => AtRow(s, k)
          BY <3>1, <4>1, <1>t DEF AtRow, Notices!TypeOK
        <4>3. QED
          BY <3>1, <4>2, SameOwner
      <3>4. QED
        BY <3>2, <3>3
    <2>2. ASSUME NEW u \in Users, Notices!Queue(r, u) PROVE Owned(k)'
      <3>1. /\ UNCHANGED notices /\ notifier[r].pc = "queue" /\ u \in notifier[r].read
            /\ queued' = [queued EXCEPT ![Notices!Key(r, u)] = @ + 1]
        BY <2>2 DEF Notices!Queue
      <3>2. \A s \in Notifiers : AtRow(s, k)' => AtRow(s, k) /\ s # r
        BY <2>2, <1>t DEF Notices!Queue, AtRow, Notices!TypeOK
      <3>3. CASE k = Notices!Key(r, u)
        <4>1. AtRow(r, k)
          BY <3>1, <3>3 DEF AtRow, Notices!Key
        <4>2. \A s \in Notifiers : ~AtRow(s, k)'
          BY <3>2, <4>1 DEF Owned
        <4>3. queued'[k] = 1 /\ k \in notices
          BY <3>1, <3>3, <4>1, <1>t DEF Owned, Notices!TypeOK
        <4>4. QED
          BY <3>1, <4>2, <4>3 DEF Owned
      <3>4. CASE k # Notices!Key(r, u)
        BY <3>1, <3>2, <3>4, SameOwner, <1>t DEF Notices!TypeOK
      <3>5. QED
        BY <3>3, <3>4
    <2>3. ASSUME UNCHANGED <<notices, queued>>, notifier'[r].pc # "queue",
                 \A s \in Notifiers : s # r => notifier'[s] = notifier[s]
          PROVE  Owned(k)'
      BY <2>3, SameOwner DEF AtRow
    <2>4. CASE Notices!Open(r) \/ Notices!Resolve(r) \/ Notices!RecordEscalation(r)
      <3>1. PICK fact : Notices!Announce(r, fact)
        BY <2>4 DEF Notices!Open, Notices!Resolve, Notices!RecordEscalation
      <3>2. notifier'[r].pc # "queue" /\ \A s \in Notifiers : s # r => notifier'[s] = notifier[s]
        BY <3>1, <1>t DEF Notices!Announce, Notices!IdleNotifier, Notices!TypeOK
      <3>3. UNCHANGED <<notices, queued>>
        BY <2>4 DEF Notices!Open, Notices!Resolve, Notices!RecordEscalation
      <3>4. QED
        BY <2>3, <3>2, <3>3
    <2>5. ASSUME NEW p \in Policies, Notices!CheckEscalation(r, p) PROVE Owned(k)'
      BY <2>3, <2>5, <1>t DEF Notices!CheckEscalation, Notices!IdleNotifier, Notices!TypeOK
    <2>6. ASSUME NEW u \in Users, Notices!SkipExisting(r, u) \/ Notices!FindMissing(r,
                 u) \/ Notices!LoseRace(r, u)
          PROVE  Owned(k)'
      <3>1. CASE Notices!SkipExisting(r, u) \/ Notices!FindMissing(r, u)
        BY <2>3, <3>1, <1>t DEF Notices!SkipExisting, Notices!FindMissing, Notices!TypeOK
      <3>2. CASE Notices!LoseRace(r, u)
        <4>1. CASE notifier[r].fact \in Policies
          BY <2>3, <3>2, <4>1, <1>t DEF Notices!LoseRace, Notices!TypeOK
        <4>2. CASE notifier[r].fact \notin Policies
          BY <2>3, <3>2, <4>2, <1>t DEF Notices!LoseRace, Notices!IdleNotifier, Notices!TypeOK
        <4>3. QED
          BY <4>1, <4>2
      <3>3. QED
        BY <2>6, <3>1, <3>2
    <2>7. CASE Notices!Finish(r) \/ Notices!Break(r)
      BY <2>3, <2>7, <1>t DEF Notices!Finish, Notices!Break, Notices!IdleNotifier, Notices!TypeOK
    <2>8. QED
      BY <1>1, <2>1, <2>2, <2>4, <2>5, <2>6, <2>7 DEF Notices!Notify
  <1>2. CASE \/ Notices!Acknowledge \/ \E p \in Policies : Notices!MinutesPass(p)
             \/ UNCHANGED Notices!vars
    BY <1>2, SameOwner DEF Notices!Acknowledge, Notices!MinutesPass, Notices!vars, AtRow
  <1>3. QED
    BY <1>1, <1>2 DEF Notices!Next

OwnedInv == \A k \in Notices!Keys : Owned(k)

LEMMA OwnedAlways == Notices!Spec => []OwnedInv
  <1>1. Notices!Init => OwnedInv
    BY DEF Notices!Init, OwnedInv, Owned, AtRow, Notices!IdleNotifier
  <1>2. Shape /\ OwnedInv /\ [Notices!Next]_(Notices!vars) => OwnedInv'
    BY NextOwned DEF OwnedInv, Notices!Keys, Notices!Facts
  <1>3. QED
    BY <1>1, <1>2, ShapeAlways, PTL DEF Notices!Spec

(* No recipient is told a fact about the alert twice, however many resolve  *)
(* it at once and however often a policy whose record was overwritten is    *)
(* escalated anew.                                                          *)
THEOREM ToldOnce == Notices!Spec => []Notices!NobodyToldTwice
  <1>1. OwnedInv => Notices!NobodyToldTwice
    BY DEF OwnedInv, Owned, Notices!NobodyToldTwice
  <1>2. QED
    BY <1>1, OwnedAlways, PTL

-----------------------------------------------------------------------------
(* Everyone is told.  A fact is promised once it is saved, or was read by a *)
(* run of the escalation task that is going to write it back.               *)
Promised ==
    Notices!Announced
    \cup UNION {notifier[r].read : r \in {s \in Notifiers : notifier[s].pc = "escalate"}}

(* A notifier that loses no race before its next recipient: of several that *)
(* announce one fact, whoever created the latest row is such a one.         *)
Sure(r, fact) ==
    /\ notifier[r].fact = fact
    /\ \/ notifier[r].pc \in {"notify", "queue"}
       \/ /\ notifier[r].pc = "create"
          /\ fact \in Policies \/ \A u \in notifier[r].read : Notices!Key(r, u) \notin notices

(* A row that is there was queued, or its creator is at it or broke off.    *)
Handled(k) ==
    k \in notices => \/ queued[k] > 0 \/ k[1] \in cut
                     \/ \E r \in Notifiers : AtRow(r, k)

(* Whom a notifier has left behind there is a row for. *)
Listed(r) ==
    notifier[r].pc \in {"notify", "create", "queue"} =>
        \A u \in Users \ notifier[r].todo : Notices!Key(r, u) \in notices

Told(fact) ==
    \/ fact \in cut
    \/ \E r \in Notifiers : Sure(r, fact)
    \/ \A u \in Users : queued[<<fact, u>>] > 0

ToldInv ==
    /\ \A k \in Notices!Keys : Handled(k)
    /\ \A r \in Notifiers : Listed(r)
    /\ \A fact \in Promised : Told(fact)

(* A step that takes no fact's notifier away. *)
LEMMA SameTold ==
    ASSUME Shape, ToldInv, cut \subseteq cut',
           \A k \in Notices!Keys : queued[k] > 0 => queued'[k] > 0,
           \A r \in Notifiers, fact \in Notices!Facts : Sure(r, fact) => Told(fact)'
    PROVE  \A fact \in Promised : Told(fact)'
  <1> SUFFICES ASSUME NEW fact \in Promised PROVE Told(fact)'
    OBVIOUS
  <1>1. Told(fact)
    BY DEF ToldInv
  <1>2. fact \in Notices!Facts
    BY DEF Promised, Notices!Announced, Notices!Facts, Shape, Notices!TypeOK, ReadsRecorded
  <1>3. \A u \in Users : <<fact, u>> \in Notices!Keys
    BY <1>2 DEF Notices!Keys
  <1>4. QED
    BY <1>1, <1>2, <1>3 DEF Told

(* A step of notifier r, or of nobody, that creates and queues nothing. *)
LEMMA SameRows ==
    ASSUME ToldInv, NEW r \in Notifiers, UNCHANGED <<notices, queued>>, cut \subseteq cut',
           \A s \in Notifiers : s # r => notifier'[s] = notifier[s],
           notifier[r].pc = "queue" => notifier'[r].pc = "idle" /\ notifier[r].fact \in cut',
           Listed(r)'
    PROVE  /\ \A k \in Notices!Keys : Handled(k)'
           /\ \A s \in Notifiers : Listed(s)'
           /\ \A s \in Notifiers, fact \in Notices!Facts : s # r /\ Sure(s, fact) => Told(fact)'
  <1>1. ASSUME NEW k \in Notices!Keys PROVE Handled(k)'
    <2>1. Handled(k)
      BY DEF ToldInv
    <2>2. \A s \in Notifiers : AtRow(s, k) => AtRow(s, k)' \/ k[1] \in cut'
      BY DEF AtRow
    <2>3. QED
      BY <2>1, <2>2 DEF Handled
  <1>2. ASSUME NEW s \in Notifiers PROVE Listed(s)'
    BY DEF ToldInv, Listed, Notices!Key
  <1>3. ASSUME NEW s \in Notifiers, NEW fact \in Notices!Facts, s # r, Sure(s, fact)
        PROVE  Told(fact)'
    BY <1>3 DEF Sure, Told, Notices!Key
  <1>4. QED
    BY <1>1, <1>2, <1>3

LEMMA NextTold == Shape /\ OwnedInv /\ ToldInv /\ [Notices!Next]_(Notices!vars) => ToldInv'
  <1> SUFFICES ASSUME Shape, OwnedInv, ToldInv, [Notices!Next]_(Notices!vars) PROVE ToldInv'
    OBVIOUS
  <1>t. /\ Shape' /\ \A k \in Notices!Keys : queued[k] \in Nat
        /\ notifier \in [Notifiers ->
              [pc : {"idle", "escalate", "notify", "create", "queue"}, fact : Notices!Facts,
               read : SUBSET (Policies \cup Users), todo : SUBSET Users]]
    BY NextShape DEF Shape, Notices!TypeOK
  (* A notifier that begins to announce a fact, which the alert then shows. *)
  <1>a. ASSUME NEW r \in Notifiers, NEW fact \in Notices!Facts, Notices!Announce(r, fact),
               notifier[r].pc \in {"idle", "escalate"}, UNCHANGED <<notices, queued, cut>>,
               Promised' \subseteq Promised \cup {fact}
        PROVE  ToldInv'
    <2>1. /\ \A s \in Notifiers : s # r => notifier'[s] = notifier[s]
          /\ notifier'[r].pc = "notify" /\ notifier'[r].fact = fact /\ notifier'[r].todo = Users
      BY <1>a, <1>t DEF Notices!Announce, Notices!IdleNotifier
    <2>2. Listed(r)'
      BY <2>1 DEF Listed
    <2>3. /\ \A k \in Notices!Keys : Handled(k)'
          /\ \A s \in Notifiers : Listed(s)'
          /\ \A s \in Notifiers, f \in Notices!Facts : s # r /\ Sure(s, f) => Told(f)'
      BY <1>a, <2>1, <2>2, SameRows
    <2>4. Told(fact)'
      BY <2>1 DEF Told, Sure
    <2>5. \A f \in Notices!Facts : ~Sure(r, f)
      BY <1>a DEF Sure
    <2>6. \A f \in Promised : Told(f)'
      BY <1>a, <2>3, <2>5, SameTold
    <2>7. \A f \in Promised' : Told(f)'
      BY <1>a, <2>4, <2>6
    <2>8. QED
      BY <2>3, <2>7 DEF ToldInv
  (* One that goes on with the fact it is at, and is sure of its next row. *)
  <1>b. ASSUME NEW r \in Notifiers, UNCHANGED <<Notices!alert, notices, queued, cut>>,
               \A s \in Notifiers : s # r => notifier'[s] = notifier[s],
               notifier[r].pc \in {"notify", "create"}, notifier'[r].fact = notifier[r].fact,
               notifier'[r].pc # "escalate",
               Sure(r, notifier[r].fact)', Listed(r)'
        PROVE  ToldInv'
    <2>1. Promised' \subseteq Promised
      BY <1>b DEF Promised, Notices!Announced, Notices!alert
    <2>2. /\ \A k \in Notices!Keys : Handled(k)'
          /\ \A s \in Notifiers : Listed(s)'
          /\ \A s \in Notifiers, f \in Notices!Facts : s # r /\ Sure(s, f) => Told(f)'
      BY <1>b, SameRows
    <2>3. \A f \in Notices!Facts : Sure(r, f) => Told(f)'
      BY <1>b DEF Sure, Told
    <2>4. \A f \in Promised : Told(f)'
      BY <1>b, <2>2, <2>3, SameTold
    <2>5. QED
      BY <2>1, <2>2, <2>4 DEF ToldInv
  <1>1. ASSUME NEW r \in Notifiers, Notices!Notify(r) PROVE ToldInv'
    <2>l. Listed(r) /\ notifier[r].fact \in Notices!Facts
      BY <1>t DEF ToldInv
    <2>1. CASE Notices!Open(r)
      <3>1. Notices!Announce(r, "OPENED") /\ notifier[r].pc = "idle" /\ UNCHANGED <<notices,
                queued, cut>>
        BY <2>1 DEF Notices!Open
      <3>2. Promised' \subseteq Promised \cup {"OPENED"}
        BY <2>1, <1>t
           DEF Notices!Open, Promised, Notices!Announced, Notices!Announce, Notices!IdleNotifier
      <3>3. QED
        BY <3>1, <3>2, <1>a DEF Notices!Facts
    <2>2. CASE Notices!Resolve(r)
      <3>1. Notices!Announce(r, "RESOLVED") /\ notifier[r].pc = "idle" /\ UNCHANGED <<notices,
                queued, cut>>
        BY <2>2 DEF Notices!Resolve
      <3>2. Promised' \subseteq Promised \cup {"RESOLVED"}
        BY <2>2, <1>t
           DEF Notices!Resolve, Promised, Notices!Announced, Notices!Announce,
               Notices!IdleNotifier
      <3>3. QED
        BY <3>1, <3>2, <1>a DEF Notices!Facts
    <2>3. ASSUME NEW p \in Policies, Notices!CheckEscalation(r, p) PROVE ToldInv'
      <3>1. /\ notifier[r].pc = "idle" /\ notifier'[r].pc = "escalate"
            /\ notifier'[r].read = recorded
            /\ \A s \in Notifiers : s # r => notifier'[s] = notifier[s]
            /\ UNCHANGED <<Notices!alert, notices, queued, cut>>
        BY <2>3, <1>t DEF Notices!CheckEscalation, Notices!IdleNotifier
      <3>2. Promised' \subseteq Promised
        BY <3>1 DEF Promised, Notices!Announced, Notices!alert
      <3>3. Listed(r)' /\ \A f \in Notices!Facts : ~Sure(r, f)
        BY <3>1 DEF Listed, Sure
      <3>4. /\ \A k \in Notices!Keys : Handled(k)'
            /\ \A s \in Notifiers : Listed(s)'
            /\ \A s \in Notifiers, f \in Notices!Facts : s # r /\ Sure(s, f) => Told(f)'
        BY <3>1, <3>3, SameRows
      <3>5. \A f \in Promised : Told(f)'
        BY <3>1, <3>3, <3>4, SameTold
      <3>6. QED
        BY <3>2, <3>4, <3>5 DEF ToldInv
    <2>4. CASE Notices!RecordEscalation(r)
      <3>1. /\ Notices!Announce(r, notifier[r].fact) /\ notifier[r].pc = "escalate"
            /\ UNCHANGED <<notices, queued, cut>>
        BY <2>4 DEF Notices!RecordEscalation
      <3>2. Promised' \subseteq Promised \cup {notifier[r].fact}
        BY <2>4, <1>t
           DEF Notices!RecordEscalation, Promised, Notices!Announced, Notices!Announce,
               Notices!IdleNotifier
      <3>3. QED
        BY <3>1, <3>2, <2>l, <1>a
    <2>5. ASSUME NEW u \in Users, Notices!SkipExisting(r, u) PROVE ToldInv'
      <3>1. /\ notifier[r].pc = "notify" /\ Notices!Key(r, u) \in notices
            /\ notifier' = [notifier EXCEPT ![r].todo = @ \ {u}]
            /\ UNCHANGED <<Notices!alert, notices, queued, cut>>
        BY <2>5 DEF Notices!SkipExisting
      <3>2. /\ notifier'[r].pc = "notify" /\ notifier'[r].fact = notifier[r].fact
            /\ notifier'[r].todo = notifier[r].todo \ {u}
            /\ \A s \in Notifiers : s # r => notifier'[s] = notifier[s]
        BY <3>1, <1>t
      <3>3. Listed(r)' /\ Sure(r, notifier[r].fact)'
        BY <3>1, <3>2, <2>l DEF Listed, Sure, Notices!Key
      <3>4. QED
        BY <3>1, <3>2, <3>3, <1>b
    <2>6. ASSUME NEW u \in Users, Notices!FindMissing(r, u) PROVE ToldInv'
      <3>1. /\ notifier[r].pc = "notify" /\ Notices!Key(r, u) \notin notices
            /\ notifier' = [notifier EXCEPT ![r].pc = "create", ![r].read = {u}]
            /\ UNCHANGED <<Notices!alert, notices, queued, cut>>
        BY <2>6 DEF Notices!FindMissing
      <3>2. /\ notifier'[r].pc = "create" /\ notifier'[r].fact = notifier[r].fact
            /\ notifier'[r].todo = notifier[r].todo /\ notifier'[r].read = {u}
            /\ \A s \in Notifiers : s # r => notifier'[s] = notifier[s]
        BY <3>1, <1>t
      <3>n. notices' = notices /\ Notices!Key(r, u) \notin notices /\ notifier[r].pc = "notify"
        BY <3>1
      <3>3. Listed(r)'
        BY <3>n, <3>2, <2>l DEF Listed, Notices!Key
      <3>4. Sure(r, notifier[r].fact)'
        BY <3>n, <3>2 DEF Sure, Notices!Key
      <3>5. QED
        BY <3>1, <3>2, <3>3, <3>4, <1>b
    <2>7. ASSUME NEW u \in Users, Notices!Create(r, u) PROVE ToldInv'
      <3>1. /\ notifier[r].pc = "create" /\ notifier[r].read = {u}
            /\ notices' = notices \cup {Notices!Key(r, u)}
            /\ notifier' = [notifier EXCEPT ![r].pc = "queue"]
            /\ UNCHANGED <<Notices!alert, queued, cut>>
        BY <2>7 DEF Notices!Create, Shape, ReadsOne
      <3>2. /\ notifier'[r].pc = "queue" /\ notifier'[r].fact = notifier[r].fact
            /\ notifier'[r].todo = notifier[r].todo /\ notifier'[r].read = {u}
            /\ \A s \in Notifiers : s # r => notifier'[s] = notifier[s]
        BY <3>1, <1>t
      <3>3. Promised' \subseteq Promised
        BY <3>1, <3>2 DEF Promised, Notices!Announced, Notices!alert
      <3>4. ASSUME NEW k \in Notices!Keys PROVE Handled(k)'
        <4>1. Handled(k)
          BY DEF ToldInv
        <4>2. k = Notices!Key(r, u) => AtRow(r, k)'
          BY <3>2 DEF AtRow, Notices!Key
        <4>3. \A s \in Notifiers : AtRow(s, k) => AtRow(s, k)'
          BY <3>1, <3>2 DEF AtRow
        <4>4. QED
          BY <4>1, <4>2, <4>3, <3>1 DEF Handled
      <3>5. \A s \in Notifiers : Listed(s)'
        BY <3>1, <3>2 DEF ToldInv, Listed, Notices!Key
      <3>7. ASSUME NEW s \in Notifiers, NEW f \in Notices!Facts, Sure(s, f) PROVE Told(f)'
        <4>1. CASE f = notifier[r].fact
          BY <4>1, <3>2 DEF Told, Sure
        <4>2. CASE f # notifier[r].fact
          <5>1. s # r /\ notifier'[s] = notifier[s] /\ notifier[s].fact = f
            BY <4>2, <3>2, <3>7 DEF Sure
          <5>2. \A v \in notifier[s].read : Notices!Key(s, v) # Notices!Key(r, u)
            BY <4>2, <5>1 DEF Notices!Key
          <5>3. Sure(s, f)'
            BY <5>1, <5>2, <3>1, <3>7 DEF Sure, Notices!Key
          <5>4. QED
            BY <5>3 DEF Told
        <4>3. QED
          BY <4>1, <4>2
      <3>8. \A f \in Promised : Told(f)'
        BY <3>1, <3>7, SameTold
      <3>9. QED
        BY <3>3, <3>4, <3>5, <3>8 DEF ToldInv
    <2>8. ASSUME NEW u \in Users, Notices!LoseRace(r, u) PROVE ToldInv'
      <3>1. /\ notifier[r].pc = "create" /\ notifier[r].read = {u} /\ Notices!Key(r,
                u) \in notices
            /\ UNCHANGED <<Notices!alert, notices, queued, cut>>
        BY <2>8 DEF Notices!LoseRace, Shape, ReadsOne
      <3>2. CASE notifier[r].fact \in Policies
        <4>1. /\ notifier'[r].pc = "notify" /\ notifier'[r].fact = notifier[r].fact
              /\ notifier'[r].todo = notifier[r].todo \ {u}
              /\ \A s \in Notifiers : s # r => notifier'[s] = notifier[s]
          BY <2>8, <3>2, <1>t DEF Notices!LoseRace
        <4>2. Listed(r)' /\ Sure(r, notifier[r].fact)'
          BY <3>1, <4>1, <2>l DEF Listed, Sure, Notices!Key
        <4>3. QED
          BY <3>1, <4>1, <4>2, <1>b
      <3>3. CASE notifier[r].fact \notin Policies
        <4>1. /\ notifier'[r] = Notices!IdleNotifier
              /\ \A s \in Notifiers : s # r => notifier'[s] = notifier[s]
          BY <2>8, <3>3, <1>t DEF Notices!LoseRace
        <4>2. Promised' \subseteq Promised
          BY <3>1, <4>1 DEF Promised, Notices!Announced, Notices!IdleNotifier, Notices!alert
        <4>3. Listed(r)' /\ \A f \in Notices!Facts : ~Sure(r, f)
          BY <3>1, <3>3, <4>1 DEF Listed, Notices!IdleNotifier, Sure
        <4>4. /\ \A k \in Notices!Keys : Handled(k)'
              /\ \A s \in Notifiers : Listed(s)'
              /\ \A s \in Notifiers, f \in Notices!Facts : s # r /\ Sure(s, f) => Told(f)'
          BY <3>1, <4>1, <4>3, SameRows
        <4>5. \A f \in Promised : Told(f)'
          BY <3>1, <4>3, <4>4, SameTold
        <4>6. QED
          BY <4>2, <4>4, <4>5 DEF ToldInv
      <3>4. QED
        BY <3>2, <3>3
    <2>9. ASSUME NEW u \in Users, Notices!Queue(r, u) PROVE ToldInv'
      <3>1. /\ notifier[r].pc = "queue" /\ u \in notifier[r].read
            /\ \E v \in Users : notifier[r].read = {v}
            /\ queued' = [queued EXCEPT ![Notices!Key(r, u)] = @ + 1]
            /\ UNCHANGED <<Notices!alert, notices, cut>>
        BY <2>9 DEF Notices!Queue, Shape, ReadsOne
      <3>2. /\ notifier'[r].pc = "notify" /\ notifier'[r].fact = notifier[r].fact
            /\ notifier'[r].todo = notifier[r].todo \ {u}
            /\ \A s \in Notifiers : s # r => notifier'[s] = notifier[s]
        BY <2>9, <1>t DEF Notices!Queue
      <3>3. Promised' \subseteq Promised
        BY <3>1, <3>2 DEF Promised, Notices!Announced, Notices!alert
      <3>4. \A k \in Notices!Keys :
                /\ queued[k] > 0 => queued'[k] > 0
                /\ AtRow(r, k) => queued'[k] > 0
        <4>1. Notices!Key(r, u) \in Notices!Keys
          BY <2>l DEF Notices!Key, Notices!Keys
        <4>2. \A k \in Notices!Keys : AtRow(r, k) => k = Notices!Key(r, u)
          BY <3>1 DEF AtRow, Notices!Key, Notices!Keys
        <4>3. \A k \in Notices!Keys :
                  queued'[k] = queued[k] + (IF k = Notices!Key(r, u) THEN 1 ELSE 0)
          BY <3>1, <4>1, <1>t DEF Shape, Notices!TypeOK
        <4>4. QED
          BY <4>2, <4>3, <1>t
      <3>5. ASSUME NEW k \in Notices!Keys PROVE Handled(k)'
        <4>1. Handled(k)
          BY DEF ToldInv
        <4>2. \A s \in Notifiers : s # r /\ AtRow(s, k) => AtRow(s, k)'
          BY <3>2 DEF AtRow
        <4>3. QED
          BY <4>1, <4>2, <3>1, <3>4 DEF Handled
      <3>6. Listed(r)'
        <4>1. Notices!Key(r, u) \in Notices!Keys /\ AtRow(r, Notices!Key(r, u))
          BY <3>1, <2>l DEF Notices!Key, Notices!Keys, AtRow
        <4>2. Notices!Key(r, u) \in notices
          BY <4>1 DEF OwnedInv, Owned
        <4>3. QED
          BY <4>2, <3>1, <3>2, <2>l DEF Listed, Notices!Key
      <3>7. ASSUME NEW s \in Notifiers PROVE Listed(s)'
        BY <3>1, <3>2, <3>6 DEF ToldInv, Listed, Notices!Key
      <3>8. ASSUME NEW s \in Notifiers, NEW f \in Notices!Facts, Sure(s, f) PROVE Told(f)'
        BY <3>1, <3>2, <3>8 DEF Sure, Told, Notices!Key
      <3>9. \A f \in Promised : Told(f)'
        BY <3>1, <3>4, <3>8, SameTold
      <3>10. QED
        BY <3>3, <3>5, <3>7, <3>9 DEF ToldInv
    <2>10. CASE Notices!Finish(r)
      <3>1. /\ notifier[r].pc = "notify" /\ notifier[r].todo = {}
            /\ notifier'[r] = Notices!IdleNotifier
            /\ \A s \in Notifiers : s # r => notifier'[s] = notifier[s]
            /\ UNCHANGED <<Notices!alert, notices, queued, cut>>
        BY <2>10, <1>t DEF Notices!Finish
      <3>2. Promised' \subseteq Promised /\ Listed(r)'
        BY <3>1 DEF Promised, Notices!Announced, Notices!IdleNotifier, Notices!alert, Listed
      <3>3. /\ \A k \in Notices!Keys : Handled(k)'
            /\ \A s \in Notifiers : Listed(s)'
            /\ \A s \in Notifiers, f \in Notices!Facts : s # r /\ Sure(s, f) => Told(f)'
        BY <3>1, <3>2, SameRows
      <3>4. ASSUME NEW f \in Notices!Facts, Sure(r, f) PROVE Told(f)'
        <4>1. \A u \in Users : <<f, u>> \in Notices!Keys /\ <<f, u>> \in notices
          BY <3>1, <3>4, <2>l DEF Listed, Notices!Key, Sure, Notices!Keys
        <4>2. ASSUME NEW u \in Users
              PROVE  queued'[<<f, u>>] > 0 \/ f \in cut' \/ \E s \in Notifiers : Sure(s, f)'
          <5>1. queued'[<<f, u>>] > 0 \/ f \in cut' \/ \E s \in Notifiers : AtRow(s, <<f, u>>)'
            BY <3>1, <3>3, <4>1 DEF Handled
          <5>2. \A s \in Notifiers : AtRow(s, <<f, u>>)' => Sure(s, f)'
            BY DEF AtRow, Sure
          <5>3. QED
            BY <5>1, <5>2
        <4>3. QED
          BY <4>2 DEF Told
      <3>5. \A f \in Promised : Told(f)'
        BY <3>1, <3>3, <3>4, SameTold
      <3>6. QED
        BY <3>2, <3>3, <3>5 DEF ToldInv
    <2>11. CASE Notices!Break(r)
      <3>1. /\ notifier'[r] = Notices!IdleNotifier
            /\ \A s \in Notifiers : s # r => notifier'[s] = notifier[s]
            /\ notifier[r].pc # "escalate" => notifier[r].fact \in cut'
            /\ UNCHANGED <<Notices!alert, notices, queued>> /\ cut \subseteq cut'
        BY <2>11, <1>t DEF Notices!Break
      <3>2. Promised' \subseteq Promised /\ Listed(r)'
        BY <3>1 DEF Promised, Notices!Announced, Notices!IdleNotifier, Notices!alert, Listed
      <3>3. /\ \A k \in Notices!Keys : Handled(k)'
            /\ \A s \in Notifiers : Listed(s)'
            /\ \A s \in Notifiers, f \in Notices!Facts : s # r /\ Sure(s, f) => Told(f)'
        BY <3>1, <3>2, SameRows DEF Notices!IdleNotifier
      <3>4. \A f \in Notices!Facts : Sure(r, f) => Told(f)'
        BY <3>1 DEF Sure, Told
      <3>5. \A f \in Promised : Told(f)'
        BY <3>1, <3>3, <3>4, SameTold
      <3>6. QED
        BY <3>2, <3>3, <3>5 DEF ToldInv
    <2>12. QED
      BY <1>1, <2>1, <2>2, <2>3, <2>4, <2>5, <2>6, <2>7, <2>8, <2>9, <2>10, <2>11
         DEF Notices!Notify
  <1>2. CASE \/ Notices!Acknowledge \/ \E p \in Policies : Notices!MinutesPass(p)
             \/ UNCHANGED Notices!vars
    <2>1. /\ UNCHANGED <<recorded, notices, queued, notifier, cut>>
          /\ Notices!Announced' = Notices!Announced
      BY <1>2 DEF Notices!Acknowledge, Notices!MinutesPass, Notices!vars, Notices!Announced
    <2>2. QED
      BY <2>1 DEF ToldInv, Handled, Listed, Told, Promised, Sure, AtRow, Notices!Key
  <1>3. QED
    BY <1>1, <1>2 DEF Notices!Next

(* Every recipient hears of everything the alert shows: unless a notifier   *)
(* broke off, one is still at it or a delivery was queued for each of them. *)
THEOREM AllTold == Notices!Spec => []Notices!EveryoneTold
  <1>1. Notices!Init => ToldInv
    BY DEF Notices!Init, ToldInv, Handled, Listed, Promised, Notices!Announced,
           Notices!IdleNotifier
  <1>2. ToldInv => Notices!EveryoneTold
    BY DEF ToldInv, Told, Promised, Notices!EveryoneTold, Notices!Underway, Sure
  <1>3. QED
    BY <1>1, <1>2, NextTold, ShapeAlways, OwnedAlways, PTL DEF Notices!Spec

-----------------------------------------------------------------------------
(* The cache of matching rules.  Every lookup keeps the promise of RuleLookup *)
(* for any number of evaluators, writers, failures and versions.              *)
(*                                                                           *)
(* Why it holds: a list only serves the lookups that hold its namespace, and  *)
(* all that it had to contain when they took the version it still contains,   *)
(* because an announcement always moves to a namespace that nobody has used.  *)

\* A lookup that is under way.
LooksUp(e) == ev[e].pc \in {"keyed", "hit", "miss", "store"}

\* A rule list that is complete for everybody whom it may serve.
Serves(list, n) ==
    /\ version = n => rules \ unannounced \subseteq list
    /\ \A e \in Evaluators : LooksUp(e) /\ ev[e].ns = n => must[e] \subseteq list

Drawn ==
    /\ version <= drawn
    /\ \A e \in Evaluators : ev[e].ns <= drawn
    /\ \A n \in Cache!Versions : n > drawn => lists[n] = {}

Holding ==
    \A e \in Evaluators :
        /\ LooksUp(e) => ev[e].ns \in Cache!Namespaces
        /\ ~LooksUp(e) => ev[e].ns = Cache!NoVersion
        /\ LooksUp(e) /\ ev[e].ns = Cache!Fallback => must[e] = {}
        /\ ev[e].pc \in {"keyed", "hit", "miss"} => answer[e] = {}

ListsComplete ==
    /\ \A e \in Evaluators : must[e] \subseteq rules
    /\ \A n \in Cache!Namespaces, list \in SUBSET Rules : list \in lists[n] => Serves(list, n)
    /\ \A e \in Evaluators : ev[e].pc = "store" => Serves(ev[e].found, ev[e].ns)
    /\ \A e \in Evaluators : ev[e].pc = "hit" => must[e] \subseteq ev[e].found

CacheInv == Cache!TypeOK /\ Drawn /\ Holding /\ ListsComplete

-----------------------------------------------------------------------------

\* The parts of a lookup's progress: a record is what its fields are.
LEMMA Progress ==
    ASSUME Cache!TypeOK, NEW e \in Evaluators
    PROVE  /\ ev[e] = [pc |-> ev[e].pc, ns |-> ev[e].ns, found |-> ev[e].found]
           /\ ev[e].pc \in {"idle", "missing", "keyed", "hit", "miss", "store"}
           /\ ev[e].ns \in Cache!Namespaces \cup {Cache!NoVersion}
           /\ ev[e].found \in SUBSET Rules
BY DEF Cache!TypeOK

\* Initially nothing is cached and nobody looks anything up.
LEMMA CacheInitially == ASSUME Cache!CacheAssumption, Cache!Init PROVE CacheInv
<1>1. Cache!TypeOK
  BY DEF Cache!CacheAssumption, Cache!Init, Cache!TypeOK, Cache!IdleEvaluator, Cache!NoVersion
<1>2. Drawn
  BY DEF Cache!Init, Drawn, Cache!IdleEvaluator, Cache!NoVersion, Cache!Namespaces
<1>3. Holding
  BY DEF Cache!Init, Holding, LooksUp, Cache!IdleEvaluator
<1>4. ListsComplete
  BY DEF Cache!Init, ListsComplete, Cache!IdleEvaluator
<1>. QED BY <1>1, <1>2, <1>3, <1>4 DEF CacheInv

\* A rule that comes or goes is in nobody's promise any more.
LEMMA Changes ==
    ASSUME Cache!CacheAssumption, CacheInv, NEW w \in Writers, NEW r \in Rules,
           Cache!CommitRule(w, r)
    PROVE  CacheInv'
<1>. USE DEF Cache!CacheAssumption, CacheInv
<1>1. Cache!TypeOK'
  BY DEF Cache!CommitRule, Cache!cached, Cache!TypeOK, Holding, LooksUp, Cache!Namespaces,
         Cache!Versions, Cache!NoVersion, Cache!Fallback
<1>2. Drawn'
  BY DEF Cache!CommitRule, Cache!cached, Cache!TypeOK, Drawn, Cache!Namespaces, Cache!Versions,
         Cache!NoVersion, Cache!Fallback
<1>3. Holding'
  BY DEF Cache!CommitRule, Cache!cached, Cache!TypeOK, Holding, LooksUp, Cache!Namespaces,
         Cache!Versions, Cache!NoVersion, Cache!Fallback
<1>4. ListsComplete'
  BY DEF Cache!CommitRule, Cache!cached, Cache!TypeOK, Drawn, Holding, ListsComplete, Serves,
         LooksUp, Cache!Namespaces, Cache!Versions, Cache!NoVersion, Cache!Fallback
<1>. QED BY <1>1, <1>2, <1>3, <1>4

\* An announcement moves to a namespace that nobody holds and that holds nothing.
LEMMA Invalidates ==
    ASSUME Cache!CacheAssumption, CacheInv, NEW w \in Writers, Cache!Invalidate(w)
    PROVE  CacheInv'
<1>. USE DEF Cache!CacheAssumption, CacheInv
<1>1. Cache!TypeOK'
  BY DEF Cache!Invalidate, Cache!TypeOK, Holding, LooksUp, Cache!Namespaces, Cache!Versions,
         Cache!NoVersion, Cache!Fallback
<1>2. Drawn'
  BY DEF Cache!Invalidate, Cache!TypeOK, Drawn, Cache!Namespaces, Cache!Versions,
         Cache!NoVersion, Cache!Fallback
<1>3. Holding'
  BY DEF Cache!Invalidate, Cache!TypeOK, Holding, LooksUp, Cache!Namespaces, Cache!Versions,
         Cache!NoVersion, Cache!Fallback
<1>4. ListsComplete'
  BY DEF Cache!Invalidate, Cache!TypeOK, Drawn, Holding, ListsComplete, Serves, LooksUp,
         Cache!Namespaces, Cache!Versions, Cache!NoVersion, Cache!Fallback
<1>. QED BY <1>1, <1>2, <1>3, <1>4

\* A change that is never announced stays so.
LEMMA Unannounced ==
    ASSUME Cache!CacheAssumption, CacheInv, NEW w \in Writers, Cache!InvalidateFails(w)
    PROVE  CacheInv'
<1>. USE DEF Cache!CacheAssumption, CacheInv
<1>1. Cache!TypeOK'
  BY DEF Cache!InvalidateFails, Cache!cached, Cache!told, Cache!TypeOK, Holding, LooksUp,
         Cache!Namespaces, Cache!Versions, Cache!NoVersion, Cache!Fallback
<1>2. Drawn'
  BY DEF Cache!InvalidateFails, Cache!cached, Cache!told, Cache!TypeOK, Drawn, Cache!Namespaces,
         Cache!Versions, Cache!NoVersion, Cache!Fallback
<1>3. Holding'
  BY DEF Cache!InvalidateFails, Cache!cached, Cache!told, Cache!TypeOK, Holding, LooksUp,
         Cache!Namespaces, Cache!Versions, Cache!NoVersion, Cache!Fallback
<1>4. ListsComplete'
  BY DEF Cache!InvalidateFails, Cache!cached, Cache!told, Cache!TypeOK, Drawn, Holding,
         ListsComplete, Serves, LooksUp, Cache!Namespaces, Cache!Versions, Cache!NoVersion,
         Cache!Fallback
<1>. QED BY <1>1, <1>2, <1>3, <1>4

\* A lookup is promised what the lists of its namespace contain at that moment.
LEMMA TakesVersion ==
    ASSUME Cache!CacheAssumption, CacheInv, NEW e \in Evaluators, Cache!GetVersion(e)
    PROVE  CacheInv'
<1>. USE DEF Cache!CacheAssumption, CacheInv
<1>1. Cache!TypeOK'
  BY DEF Cache!GetVersion, Cache!cached, Cache!TypeOK, Holding, LooksUp, Cache!Namespaces,
         Cache!Versions, Cache!NoVersion, Cache!Fallback
<1>2. Drawn'
  BY DEF Cache!GetVersion, Cache!cached, Cache!TypeOK, Drawn, Cache!Namespaces, Cache!Versions,
         Cache!NoVersion, Cache!Fallback
<1>3. Holding'
  BY DEF Cache!GetVersion, Cache!cached, Cache!TypeOK, Holding, LooksUp, Cache!Namespaces,
         Cache!Versions, Cache!NoVersion, Cache!Fallback
<1>4. ListsComplete'
  BY DEF Cache!GetVersion, Cache!cached, Cache!TypeOK, Drawn, Holding, ListsComplete, Serves,
         LooksUp, Cache!Namespaces, Cache!Versions, Cache!NoVersion, Cache!Fallback
<1>. QED BY <1>1, <1>2, <1>3, <1>4

\* A version that is drawn names an empty namespace.
LEMMA DrawsVersion ==
    ASSUME Cache!CacheAssumption, CacheInv, NEW e \in Evaluators, Cache!SetVersion(e)
    PROVE  CacheInv'
<1>. USE DEF Cache!CacheAssumption, CacheInv
<1>1. Cache!TypeOK'
  BY DEF Cache!SetVersion, Cache!told, Cache!TypeOK, Holding, LooksUp, Cache!Namespaces,
         Cache!Versions, Cache!NoVersion, Cache!Fallback
<1>2. Drawn'
  BY DEF Cache!SetVersion, Cache!told, Cache!TypeOK, Drawn, Cache!Namespaces, Cache!Versions,
         Cache!NoVersion, Cache!Fallback
<1>3. Holding'
  BY DEF Cache!SetVersion, Cache!told, Cache!TypeOK, Holding, LooksUp, Cache!Namespaces,
         Cache!Versions, Cache!NoVersion, Cache!Fallback
<1>4. ListsComplete'
  BY DEF Cache!SetVersion, Cache!told, Cache!TypeOK, Drawn, Holding, ListsComplete, Serves,
         LooksUp, Cache!Namespaces, Cache!Versions, Cache!NoVersion, Cache!Fallback
<1>. QED BY <1>1, <1>2, <1>3, <1>4

\* A lookup in the fallback's namespace is promised nothing.
LEMMA FallsBack ==
    ASSUME Cache!CacheAssumption, CacheInv, NEW e \in Evaluators, Cache!VersionFails(e)
    PROVE  CacheInv'
<1>. USE DEF Cache!CacheAssumption, CacheInv
<1>1. Cache!TypeOK'
  BY DEF Cache!VersionFails, Cache!cached, Cache!TypeOK, Holding, LooksUp, Cache!Namespaces,
         Cache!Versions, Cache!NoVersion, Cache!Fallback
<1>2. Drawn'
  BY DEF Cache!VersionFails, Cache!cached, Cache!TypeOK, Drawn, Cache!Namespaces,
         Cache!Versions, Cache!NoVersion, Cache!Fallback
<1>3. Holding'
  BY DEF Cache!VersionFails, Cache!cached, Cache!TypeOK, Holding, LooksUp, Cache!Namespaces,
         Cache!Versions, Cache!NoVersion, Cache!Fallback
<1>4. ListsComplete'
  BY DEF Cache!VersionFails, Cache!cached, Cache!TypeOK, Drawn, Holding, ListsComplete, Serves,
         LooksUp, Cache!Namespaces, Cache!Versions, Cache!NoVersion, Cache!Fallback
<1>. QED BY <1>1, <1>2, <1>3, <1>4

\* A cached list contains what its reader is promised.
LEMMA ReadsList ==
    ASSUME Cache!CacheAssumption, CacheInv, NEW e \in Evaluators, Cache!GetList(e)
    PROVE  CacheInv'
<1>. USE DEF Cache!CacheAssumption, CacheInv
<1>. DEFINE list == UNION lists[ev[e].ns]
            next == IF lists[ev[e].ns] = {} THEN "miss" ELSE "hit"
<1>a. ev[e].ns \in Cache!Namespaces /\ ev[e].pc = "keyed"
  BY DEF Cache!GetList, Holding, LooksUp
<1>b. list \in SUBSET Rules
  BY <1>a DEF Cache!TypeOK
<1>c. ev' = [ev EXCEPT ![e] = [pc |-> next, ns |-> ev[e].ns, found |-> list]]
  BY DEF Cache!GetList
<1>d. next = "hit" => must[e] \subseteq list
  BY <1>a DEF ListsComplete, Serves, LooksUp, Cache!TypeOK
<1>e. UNCHANGED <<rules, version, lists, drawn, writer, faults, unannounced, must, answer>>
  BY DEF Cache!GetList, Cache!cached, Cache!told
<1>. HIDE DEF list
<1>1. Cache!TypeOK'
  BY <1>a, <1>b, <1>c, <1>e DEF Cache!TypeOK
<1>2. Drawn'
  BY <1>a, <1>c, <1>e DEF Cache!TypeOK, Drawn
<1>3. Holding'
  BY <1>a, <1>c, <1>e DEF Cache!TypeOK, Holding, LooksUp
<1>4. ListsComplete'
  <2>1. \A f \in Evaluators : /\ LooksUp(f)' <=> LooksUp(f)
                              /\ ev[f].ns' = ev[f].ns
    BY <1>a, <1>c DEF Cache!TypeOK, LooksUp
  <2>2. \A n \in Cache!Namespaces, l \in SUBSET Rules : Serves(l, n) => Serves(l, n)'
    BY <1>e, <2>1 DEF Serves
  <2>3. ASSUME NEW f \in Evaluators, ev'[f].pc = "store"
        PROVE  ev[f].pc = "store" /\ ev'[f] = ev[f]
    BY <1>a, <1>c, <2>3 DEF Cache!TypeOK
  <2>4. ASSUME NEW f \in Evaluators, ev'[f].pc = "store"
        PROVE  Serves(ev[f].found, ev[f].ns)'
    BY <1>e, <2>1, <2>3, <2>4 DEF ListsComplete, Serves
  <2>5. \A f \in Evaluators : ev[f].pc' = "hit" => must[f]' \subseteq ev[f].found'
    BY <1>c, <1>d, <1>e DEF Cache!TypeOK, ListsComplete
  <2>6. \A n \in Cache!Namespaces, l \in SUBSET Rules : l \in lists'[n] => Serves(l, n)'
    BY <1>e, <2>2 DEF ListsComplete
  <2>. QED BY <1>e, <2>4, <2>5, <2>6 DEF ListsComplete
<1>. QED BY <1>1, <1>2, <1>3, <1>4

\* A query of the cached rules ends its lookup.
LEMMA QueriesCached ==
    ASSUME Cache!CacheAssumption, CacheInv, NEW e \in Evaluators, Cache!QueryCached(e)
    PROVE  CacheInv'
<1>. USE DEF Cache!CacheAssumption, CacheInv
<1>1. Cache!TypeOK'
  BY DEF Cache!QueryCached, Cache!cached, Cache!IdleEvaluator, Cache!TypeOK, Holding, LooksUp,
         Cache!Namespaces, Cache!Versions, Cache!NoVersion, Cache!Fallback
<1>2. Drawn'
  BY DEF Cache!QueryCached, Cache!cached, Cache!IdleEvaluator, Cache!TypeOK, Drawn,
         Cache!Namespaces, Cache!Versions, Cache!NoVersion, Cache!Fallback
<1>3. Holding'
  BY DEF Cache!QueryCached, Cache!cached, Cache!IdleEvaluator, Cache!TypeOK, Holding, LooksUp,
         Cache!Namespaces, Cache!Versions, Cache!NoVersion, Cache!Fallback
<1>4. ListsComplete'
  BY DEF Cache!QueryCached, Cache!cached, Cache!IdleEvaluator, Cache!TypeOK, Drawn, Holding,
         ListsComplete, Serves, LooksUp, Cache!Namespaces, Cache!Versions, Cache!NoVersion,
         Cache!Fallback
<1>. QED BY <1>1, <1>2, <1>3, <1>4

\* What the database returns serves everybody.
LEMMA QueriesAll ==
    ASSUME Cache!CacheAssumption, CacheInv, NEW e \in Evaluators, Cache!QueryAll(e)
    PROVE  CacheInv'
<1>. USE DEF Cache!CacheAssumption, CacheInv
<1>a. ev[e].ns \in Cache!Namespaces /\ ev[e].pc = "miss"
  BY DEF Cache!QueryAll, Holding, LooksUp
<1>b. ev' = [ev EXCEPT ![e] = [pc |-> "store", ns |-> ev[e].ns, found |-> rules]]
  BY DEF Cache!QueryAll
<1>c. answer' = [answer EXCEPT ![e] = {rules}]
  BY DEF Cache!QueryAll
<1>d. UNCHANGED <<rules, version, lists, drawn, writer, faults, unannounced, must>>
  BY DEF Cache!QueryAll, Cache!cached
<1>1. Cache!TypeOK'
  BY <1>a, <1>b, <1>c, <1>d DEF Cache!TypeOK
<1>2. Drawn'
  BY <1>a, <1>b, <1>d DEF Cache!TypeOK, Drawn
<1>3. Holding'
  BY <1>a, <1>b, <1>c, <1>d DEF Cache!TypeOK, Holding, LooksUp
<1>4. ListsComplete'
  <2>1. \A f \in Evaluators : /\ LooksUp(f)' <=> LooksUp(f)
                              /\ ev[f].ns' = ev[f].ns
    BY <1>a, <1>b DEF Cache!TypeOK, LooksUp
  <2>2. \A n \in Cache!Namespaces, l \in SUBSET Rules : Serves(l, n) => Serves(l, n)'
    BY <1>d, <2>1 DEF Serves
  <2>3. \A n \in Cache!Namespaces : Serves(rules, n)'
    BY <1>d DEF Serves, ListsComplete
  <2>4. ASSUME NEW f \in Evaluators, ev[f].pc' = "store" PROVE Serves(ev[f].found, ev[f].ns)'
    <3>1. CASE f = e
      BY <1>a, <1>b, <1>d, <2>3, <3>1 DEF Cache!TypeOK, Serves
    <3>2. CASE f # e
      BY <1>b, <1>d, <2>1, <2>4, <3>2 DEF Cache!TypeOK, ListsComplete, Serves
    <3>. QED BY <3>1, <3>2
  <2>5. \A f \in Evaluators : ev[f].pc' = "hit" => must[f]' \subseteq ev[f].found'
    BY <1>b, <1>d DEF Cache!TypeOK, ListsComplete
  <2>. QED BY <1>d, <2>2, <2>4, <2>5 DEF ListsComplete
<1>. QED BY <1>1, <1>2, <1>3, <1>4

\* A list is stored that still serves whoever holds its namespace.
LEMMA StoresList ==
    ASSUME Cache!CacheAssumption, CacheInv, NEW e \in Evaluators, Cache!SetList(e)
    PROVE  CacheInv'
<1>. USE DEF Cache!CacheAssumption, CacheInv
<1>a. ev[e].ns \in Cache!Namespaces /\ ev[e].pc = "store" /\ ev[e].found \in SUBSET Rules
  BY Progress DEF Cache!SetList, Holding, LooksUp
<1>b. /\ ev' = [ev EXCEPT ![e] = Cache!IdleEvaluator]
      /\ lists' = [lists EXCEPT ![ev[e].ns] = {ev[e].found}]
      /\ UNCHANGED <<rules, version, drawn, writer, faults, unannounced, must, answer>>
  BY DEF Cache!SetList, Cache!told
<1>1. Cache!TypeOK'
  BY <1>a, <1>b
     DEF Cache!TypeOK, Cache!IdleEvaluator, Cache!Namespaces, Cache!Versions, Cache!NoVersion,
         Cache!Fallback
<1>2. Drawn'
  BY <1>a, <1>b
     DEF Cache!TypeOK, Drawn, Cache!IdleEvaluator, Cache!Namespaces, Cache!Versions,
         Cache!NoVersion, Cache!Fallback
<1>3. Holding'
  BY <1>a, <1>b DEF Cache!TypeOK, Holding, LooksUp, Cache!IdleEvaluator
<1>4. ListsComplete'
  <2>1. \A f \in Evaluators : f # e => ev'[f] = ev[f]
    BY <1>b DEF Cache!TypeOK
  <2>2. ev'[e].pc = "idle"
    BY <1>b DEF Cache!TypeOK, Cache!IdleEvaluator
  <2>3. \A n \in Cache!Namespaces, l \in SUBSET Rules : Serves(l, n) => Serves(l, n)'
    BY <1>b, <2>1, <2>2 DEF Serves, LooksUp
  <2>4. ASSUME NEW n \in Cache!Namespaces, NEW l \in SUBSET Rules, l \in lists'[n]
        PROVE  Serves(l, n)'
    <3>1. Serves(l, n)
      BY <1>a, <1>b, <2>4 DEF Cache!TypeOK, ListsComplete
    <3>. QED BY <2>3, <3>1
  <2>5. ASSUME NEW f \in Evaluators, ev'[f].pc = "store"
        PROVE  Serves(ev[f].found, ev[f].ns)'
    BY <1>b, <2>1, <2>2, <2>5 DEF ListsComplete, Serves, LooksUp
  <2>6. \A f \in Evaluators : ev'[f].pc = "hit" => must'[f] \subseteq ev'[f].found
    BY <1>b, <2>1, <2>2 DEF ListsComplete
  <2>. QED BY <1>b, <2>4, <2>5, <2>6 DEF ListsComplete
<1>. QED BY <1>1, <1>2, <1>3, <1>4

\* A failure ends the lookup.
LEMMA ListRaises ==
    ASSUME Cache!CacheAssumption, CacheInv, NEW e \in Evaluators, Cache!ListFails(e)
    PROVE  CacheInv'
<1>. USE DEF Cache!CacheAssumption, CacheInv
<1>1. Cache!TypeOK'
  BY DEF Cache!ListFails, Cache!cached, Cache!told, Cache!IdleEvaluator, Cache!TypeOK, Holding,
         LooksUp, Cache!Namespaces, Cache!Versions, Cache!NoVersion, Cache!Fallback
<1>2. Drawn'
  BY DEF Cache!ListFails, Cache!cached, Cache!told, Cache!IdleEvaluator, Cache!TypeOK, Drawn,
         Cache!Namespaces, Cache!Versions, Cache!NoVersion, Cache!Fallback
<1>3. Holding'
  BY DEF Cache!ListFails, Cache!cached, Cache!told, Cache!IdleEvaluator, Cache!TypeOK, Holding,
         LooksUp, Cache!Namespaces, Cache!Versions, Cache!NoVersion, Cache!Fallback
<1>4. ListsComplete'
  BY DEF Cache!ListFails, Cache!cached, Cache!told, Cache!IdleEvaluator, Cache!TypeOK, Drawn,
         Holding, ListsComplete, Serves, LooksUp, Cache!Namespaces, Cache!Versions,
         Cache!NoVersion, Cache!Fallback
<1>. QED BY <1>1, <1>2, <1>3, <1>4

\* A list that expires serves nobody.
LEMMA Expires ==
    ASSUME Cache!CacheAssumption, CacheInv, NEW n \in Cache!Namespaces, Cache!Expire(n)
    PROVE  CacheInv'
<1>. USE DEF Cache!CacheAssumption, CacheInv
<1>1. Cache!TypeOK'
  BY DEF Cache!Expire, Cache!told, Cache!TypeOK, Holding, LooksUp, Cache!Namespaces,
         Cache!Versions, Cache!NoVersion, Cache!Fallback
<1>2. Drawn'
  BY DEF Cache!Expire, Cache!told, Cache!TypeOK, Drawn, Cache!Namespaces, Cache!Versions,
         Cache!NoVersion, Cache!Fallback
<1>3. Holding'
  BY DEF Cache!Expire, Cache!told, Cache!TypeOK, Holding, LooksUp, Cache!Namespaces,
         Cache!Versions, Cache!NoVersion, Cache!Fallback
<1>4. ListsComplete'
  BY DEF Cache!Expire, Cache!told, Cache!TypeOK, Drawn, Holding, ListsComplete, Serves, LooksUp,
         Cache!Namespaces, Cache!Versions, Cache!NoVersion, Cache!Fallback
<1>. QED BY <1>1, <1>2, <1>3, <1>4

\* After a loss no namespace is current.
LEMMA LosesAll ==
    ASSUME Cache!CacheAssumption, CacheInv, Cache!LoseAll
    PROVE  CacheInv'
<1>. USE DEF Cache!CacheAssumption, CacheInv
<1>1. Cache!TypeOK'
  BY DEF Cache!LoseAll, Cache!told, Cache!TypeOK, Holding, LooksUp, Cache!Namespaces,
         Cache!Versions, Cache!NoVersion, Cache!Fallback
<1>2. Drawn'
  BY DEF Cache!LoseAll, Cache!told, Cache!TypeOK, Drawn, Cache!Namespaces, Cache!Versions,
         Cache!NoVersion, Cache!Fallback
<1>3. Holding'
  BY DEF Cache!LoseAll, Cache!told, Cache!TypeOK, Holding, LooksUp, Cache!Namespaces,
         Cache!Versions, Cache!NoVersion, Cache!Fallback
<1>4. ListsComplete'
  BY DEF Cache!LoseAll, Cache!told, Cache!TypeOK, Drawn, Holding, ListsComplete, Serves,
         LooksUp, Cache!Namespaces, Cache!Versions, Cache!NoVersion, Cache!Fallback
<1>. QED BY <1>1, <1>2, <1>3, <1>4

-----------------------------------------------------------------------------

LEMMA CacheInvariant == ASSUME Cache!CacheAssumption PROVE Cache!Spec => []CacheInv
<1>1. ASSUME Cache!CacheAssumption, CacheInv, [Cache!Next]_(Cache!vars) PROVE CacheInv'
  <2>1. CASE Cache!Next
    BY <1>1, <2>1, Changes, Invalidates, Unannounced, TakesVersion, DrawsVersion, FallsBack,
       ReadsList, QueriesCached, QueriesAll, StoresList, ListRaises, Expires, LosesAll
       DEF Cache!Next, Cache!Write, Cache!LookUp
  <2>2. CASE UNCHANGED Cache!vars
    BY <1>1, <2>2
       DEF Cache!vars, CacheInv, Cache!TypeOK, Drawn, Holding, ListsComplete, Serves, LooksUp
  <2>. QED BY <1>1, <2>1, <2>2
<1>. QED BY <1>1, CacheInitially, PTL DEF Cache!Spec

\* Every step of the cache is a step of RuleLookup, or none.
LEMMA StepsPromised ==
    ASSUME Cache!CacheAssumption, CacheInv, [Cache!Next]_(Cache!vars)
    PROVE  [Cache!Lookup!Next]_(Cache!Lookup!vars)
<1>1. ASSUME NEW w \in Writers, NEW r \in Rules, Cache!CommitRule(w, r)
      PROVE Cache!Lookup!Change(r)
  BY <1>1 DEF Cache!CommitRule, Cache!Lookup!Change
<1>2. ASSUME NEW w \in Writers, Cache!Invalidate(w) PROVE Cache!Lookup!Announce
  BY <1>2 DEF Cache!Invalidate, Cache!Lookup!Announce
<1>3. ASSUME NEW e \in Evaluators, Cache!GetVersion(e) \/ Cache!VersionFails(e)
      PROVE  Cache!Lookup!Ask(e)
  BY <1>3 DEF Cache!GetVersion, Cache!VersionFails, Cache!Lookup!Ask
<1>4. ASSUME NEW e \in Evaluators, Cache!QueryCached(e) PROVE Cache!Lookup!Answer(e)
  <2>1. answer[e] = {} /\ must[e] \subseteq ev[e].found \cap rules
    BY <1>4 DEF Cache!QueryCached, CacheInv, Holding, ListsComplete
  <2>. QED BY <1>4, <2>1 DEF Cache!QueryCached, Cache!Lookup!Answer
<1>5. ASSUME NEW e \in Evaluators, Cache!QueryAll(e) PROVE Cache!Lookup!Answer(e)
  <2>1. answer[e] = {} /\ must[e] \subseteq rules
    BY <1>5 DEF Cache!QueryAll, CacheInv, Holding, ListsComplete
  <2>. QED BY <1>5, <2>1 DEF Cache!QueryAll, Cache!Lookup!Answer
<1>6. ASSUME \/ \E w \in Writers : Cache!InvalidateFails(w)
             \/ \E e \in Evaluators :
                   Cache!SetVersion(e) \/ Cache!GetList(e) \/ Cache!SetList(e) \/ Cache!ListFails(e)
             \/ \E n \in Cache!Namespaces : Cache!Expire(n)
             \/ Cache!LoseAll
             \/ UNCHANGED Cache!vars
      PROVE  UNCHANGED Cache!Lookup!vars
  BY <1>6 DEF Cache!InvalidateFails, Cache!SetVersion, Cache!GetList, Cache!SetList,
       Cache!ListFails, Cache!Expire, Cache!LoseAll, Cache!told, Cache!vars, Cache!Lookup!vars
<1>. QED
  BY <1>1, <1>2, <1>3, <1>4, <1>5, <1>6
     DEF Cache!Next, Cache!Write, Cache!LookUp, Cache!Lookup!Next

-----------------------------------------------------------------------------
(* What is proved about each part holds of the path that the runs check.     *)
(* Traps are proved about in a module of their own.                          *)

TrapProofs == INSTANCE TrapAlerts_proofs

(* One part moves at a time and the others stay as they are: whatever the    *)
(* path does is a behaviour of each part.                                    *)
LEMMA PathOfParts ==
    MCSpec => Spec /\ Cache!Spec /\ Traps!Spec /\ Notices!Spec
  <1>1. MCInit => Init /\ Cache!Init /\ Traps!Init /\ Notices!Init
    BY DEF MCInit
  <1>2. [MCNext]_<<part, vars, cacheVars, trapVars, noticeVars>> =>
            /\ [Next]_vars
            /\ [Cache!Next]_(Cache!vars)
            /\ [Traps!Next]_(Traps!vars)
            /\ [Notices!Next]_(Notices!vars)
    BY DEF MCNext, cacheVars, trapVars, noticeVars, Cache!vars, Traps!vars, Notices!vars
  <1>3. QED
    BY <1>1, <1>2, PTL DEF MCSpec, Spec, Cache!Spec, Traps!Spec, Notices!Spec

(* Two instances of one module with the same parameters say the same.        *)
LEMMA SameTraps ==
    /\ TrapProofs!TrapAssumption <=> Traps!TrapAssumption
    /\ TrapProofs!Spec <=> Traps!Spec
    /\ TrapProofs!TrapsCounted <=> Traps!TrapsCounted
    /\ TrapProofs!DoublesExplained <=> Traps!DoublesExplained
    /\ TrapProofs!TrapsConverge <=> Traps!TrapsConverge
  BY DEF TrapProofs!TrapAssumption, TrapProofs!Alerts, TrapProofs!NoAlert,
         TrapProofs!Codes, TrapProofs!vars, TrapProofs!Active,
         TrapProofs!Sought, TrapProofs!Candidates, TrapProofs!Existing,
         TrapProofs!IdleSlot, TrapProofs!None, TrapProofs!Init,
         TrapProofs!queues, TrapProofs!rows, TrapProofs!rule,
         TrapProofs!history, TrapProofs!Mishap, TrapProofs!SendTrap,
         TrapProofs!Doubled, TrapProofs!TrapLost, TrapProofs!ProcessUps,
         TrapProofs!ProcessPac, TrapProofs!QueueConfirmation,
         TrapProofs!Confirm, TrapProofs!Sample, TrapProofs!ConfirmationFails,
         TrapProofs!WriteReading, TrapProofs!Evaluate, TrapProofs!Select,
         TrapProofs!Newest, TrapProofs!Lock, TrapProofs!ExcuseStale,
         TrapProofs!UpdateAlert, TrapProofs!CreateAlert,
         TrapProofs!NothingToResolve, TrapProofs!AutoResolve,
         TrapProofs!ReadToAcknowledge, TrapProofs!Acknowledge, TrapProofs!ResolveByHand,
         TrapProofs!requests, Traps!ReadToAcknowledge, Traps!requests,
         TrapProofs!SeedRule, TrapProofs!Die, TrapProofs!Run, TrapProofs!Next,
         TrapProofs!TrapsCounted, TrapProofs!DoublesExplained,
         TrapProofs!Spec, Traps!TrapAssumption, Traps!Alerts, Traps!NoAlert,
         Traps!Codes, Traps!vars, Traps!Active, Traps!Sought,
         Traps!Candidates, Traps!Existing, Traps!IdleSlot, Traps!None,
         Traps!Init, Traps!queues, Traps!rows, Traps!rule, Traps!history,
         Traps!Mishap, Traps!SendTrap, Traps!Doubled, Traps!TrapLost,
         Traps!ProcessUps, Traps!ProcessPac, Traps!QueueConfirmation,
         Traps!Confirm, Traps!Sample, Traps!ConfirmationFails,
         Traps!WriteReading, Traps!Evaluate, Traps!Select, Traps!Newest,
         Traps!Lock, Traps!ExcuseStale, Traps!UpdateAlert, Traps!CreateAlert,
         Traps!NothingToResolve, Traps!AutoResolve, Traps!Acknowledge,
         Traps!ResolveByHand, Traps!SeedRule, Traps!Die, Traps!Run,
         Traps!Next, Traps!TrapsCounted, Traps!DoublesExplained, Traps!Spec,
         TrapProofs!TrapsConverge, Traps!TrapsConverge

(* Whatever else the path does, the occurrence_count of a trap alert is the  *)
(* number of traps that create_or_update_trap_alert processed for it.        *)
THEOREM PathCountsTraps == MCSpec => []TrapsCounted
  <1>1. TrapProofs!Spec => []TrapProofs!TrapsCounted
    BY TrapProofs!EveryTrapCounted, SameTraps, PartsAssumption
  <1>2. TrapProofs!TrapsCounted <=> TrapsCounted
    BY SameTraps DEF TrapsCounted
  <1>3. QED
    BY <1>1, <1>2, SameTraps, PathOfParts, PTL

(* Of two active alerts without a rule, the younger was created by a task    *)
(* that had looked for one before the older was there, or the older was over *)
(* by then and a late acknowledgement has brought it back.                   *)
THEOREM PathDoublesExplained == MCSpec => []DoublesExplained
  <1>1. TrapProofs!Spec => []TrapProofs!DoublesExplained
    BY TrapProofs!DoubledAlertsExplained, SameTraps, PartsAssumption
  <1>2. TrapProofs!DoublesExplained <=> DoublesExplained
    BY SameTraps DEF DoublesExplained
  <1>3. QED
    BY <1>1, <1>2, SameTraps, PathOfParts, PTL

(* Once its traps and confirmations are dealt with, the alerts of a PAC say  *)
(* what it does, however late, often or disordered they came.                *)
THEOREM PathConverges == MCSpec => []TrapsConverge
  <1>1. TrapProofs!Spec => []TrapProofs!TrapsConverge
    BY TrapProofs!AlertsConverge, SameTraps, PartsAssumption
  <1>2. TrapProofs!TrapsConverge <=> TrapsConverge
    BY SameTraps DEF TrapsConverge
  <1>3. QED
    BY <1>1, <1>2, SameTraps, PathOfParts, PTL

(* Every recipient hears of every fact about the alert, or a notifier broke  *)
(* off at it or is still at it (create_notifications_for_alert).             *)
THEOREM PathTellsEveryone == MCSpec => []EveryoneTold
  BY AllTold, PathOfParts DEF EveryoneTold

(* No recipient hears of a fact twice: dedupe_key.                           *)
THEOREM PathTellsOnce == MCSpec => []NobodyToldTwice
  BY ToldOnce, PathOfParts DEF NobodyToldTwice

\* A lookup of matching rules returns none that does not match now and misses none
\* that an invalidation announced before it began, unless the version could not be
\* read: get_matching_rules with its cache implements RuleLookup.
THEOREM CacheRefines == MCSpec => LookupsComplete
<1>1. Cache!Init => Cache!Lookup!Init
  BY DEF Cache!Init, Cache!Lookup!Init
<1>2. Cache!Spec => LookupsComplete
  BY <1>1, CacheInvariant, StepsPromised, PartsAssumption, PTL
     DEF Cache!Spec, LookupsComplete, Cache!LookupsComplete, Cache!Lookup!Spec
<1>. QED BY <1>2, PathOfParts
=============================================================================
