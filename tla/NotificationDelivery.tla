------------------------ MODULE NotificationDelivery ------------------------
(***************************************************************************)
(* Delivery of notification rows by the Celery queue "notifications":      *)
(* apps/notifications/services/delivery.py, apps/notifications/tasks.py,   *)
(* the two management commands and the read API.                           *)
(*                                                                         *)
(* A row is committed as PENDING and an on_commit callback publishes a     *)
(* task.  A worker takes the task (Celery acknowledges it at that moment), *)
(* claims the row under a row lock, talks to the provider outside of any   *)
(* transaction, and then saves SENT or FAILED without looking at the row's *)
(* status again.  A failed attempt publishes itself once more, at most     *)
(* MaxRetries times.  Every ten minutes beat posts a task that puts        *)
(* DELIVERING rows whose updated_at is old back to PENDING; that task runs *)
(* on the same workers.                                                    *)
(***************************************************************************)
EXTENDS Integers, FiniteSets

CONSTANTS
    Notifs,         \* notification rows
    Workers,        \* process slots of notification-worker (--concurrency=2)
    Channel,        \* the channel of each row
    SlowChannels,   \* channels whose send has no timeout below the stale cutoff
    MaxRetries,     \* max_retries of send_notification_task (3)
    MaxOps,         \* bound: runs of a management command
    NoNotif         \* the row of a worker that carries none

Channels == {"WEB", "EMAIL", "SMS", "WEBHOOK"}

ASSUME ConstantsAssumption ==
    /\ MaxRetries \in Nat
    /\ MaxOps \in Nat
    /\ Channel \in [Notifs -> Channels]
    /\ SlowChannels \subseteq Channels \ {"WEB"}
    /\ NoNotif \notin Notifs

VARIABLES
    status,      \* Notification.status, "NONE" before the row is committed
    stale,       \* rows whose updated_at is at least ten minutes old
    read,        \* rows with a read_at
    committed,   \* committed rows whose on_commit callback has not run
    tasks,       \* tasks[n][r]: queued send_notification_task(n) with retries = r
    requeueDue,  \* beat's requeue task waits in the queue
    worker,      \* what each worker slot is doing
    operator,    \* the management command being run, if any
    ops,         \* management commands started
    sends,       \* history: messages that reached the provider, per row
    lost,        \* history: those of them that no worker can record as SENT any more
    attempts,    \* history: successful claims, per row
    mishap       \* history: rows for which a process died or a publish failed

rowVars  == <<status, stale, read>>
histVars == <<sends, lost, attempts, mishap>>
vars == <<status, stale, read, committed, tasks, requeueDue, worker,
          operator, ops, sends, lost, attempts, mishap>>

Statuses == {"NONE", "PENDING", "DELIVERING", "SENT", "FAILED"}
Retries  == 0..MaxRetries

(* pc of a worker slot: "claiming" holds a task not yet claimed; "sending"  *)
(* is in deliver_notification; "sent" returned from it; "failing" is in the *)
(* except branch; "retrying" has saved FAILED; "requeueing" runs beat's task.*)
PCs == {"idle", "claiming", "sending", "sent", "failing", "retrying", "requeueing"}

Idle == [pc |-> "idle", n |-> NoNotif, r |-> 0, rows |-> {}]
Carry(pc, n, r) == [pc |-> pc, n |-> n, r |-> r, rows |-> {}]
Requeueing(rows) == [pc |-> "requeueing", n |-> NoNotif, r |-> 0, rows |-> rows]

OperatorIdle == [job |-> "idle", rows |-> {}]

Prompt(n) == Channel[n] \notin SlowChannels

(* The worker has claimed row n and has not saved the outcome yet. *)
Holds(w, n) == worker[w].n = n /\ worker[w].pc \in {"sending", "sent", "failing"}

Created(n) == status[n] # "NONE"

Init ==
    /\ status = [n \in Notifs |-> "NONE"]
    /\ stale = {}
    /\ read = {}
    /\ committed = {}
    /\ tasks = [n \in Notifs |-> [r \in Retries |-> 0]]
    /\ requeueDue = FALSE
    /\ worker = [w \in Workers |-> Idle]
    /\ operator = OperatorIdle
    /\ ops = 0
    /\ sends = [n \in Notifs |-> 0]
    /\ lost = [n \in Notifs |-> 0]
    /\ attempts = [n \in Notifs |-> 0]
    /\ mishap = {}

-----------------------------------------------------------------------------
(* The producer: a row is created PENDING, and published after the commit. *)

CreateNotification(n) ==
    /\ status[n] = "NONE"
    /\ status' = [status EXCEPT ![n] = "PENDING"]
    /\ committed' = committed \cup {n}
    /\ UNCHANGED <<stale, read, tasks, requeueDue, worker, operator, ops, histVars>>

Publish(n, r) == tasks' = [tasks EXCEPT ![n][r] = @ + 1]

Dispatch(n) ==
    /\ n \in committed
    /\ committed' = committed \ {n}
    /\ Publish(n, 0)
    /\ UNCHANGED <<rowVars, requeueDue, worker, operator, ops, histVars>>

(* The process dies after the commit, or the broker refuses the publish. *)
DispatchLost(n) ==
    /\ n \in committed
    /\ committed' = committed \ {n}
    /\ mishap' = mishap \cup {n}
    /\ UNCHANGED <<rowVars, tasks, requeueDue, worker, operator, ops,
                   sends, lost, attempts>>

-----------------------------------------------------------------------------
(* send_notification_task. *)

(* Celery hands the message to a free slot and acknowledges it. *)
Take(w, n, r) ==
    /\ worker[w].pc = "idle"
    /\ tasks[n][r] > 0
    /\ tasks' = [tasks EXCEPT ![n][r] = @ - 1]
    /\ worker' = [worker EXCEPT ![w] = Carry("claiming", n, r)]
    /\ UNCHANGED <<rowVars, committed, requeueDue, operator, ops, histVars>>

ClaimableDelivering(s) == s # "SENT"        \* mutated forms of Claimable
ClaimableSent(s) == s # "DELIVERING"

Claimable(s) == s \notin {"SENT", "DELIVERING"}

(* claim_notification_for_delivery, one transaction under the row lock. *)
Claim(w) ==
    LET n == worker[w].n IN
    /\ worker[w].pc = "claiming"
    /\ Claimable(status[n])
    /\ status' = [status EXCEPT ![n] = "DELIVERING"]
    /\ stale' = stale \ {n}
    /\ attempts' = [attempts EXCEPT ![n] = @ + 1]
    /\ worker' = [worker EXCEPT ![w].pc = "sending"]
    /\ UNCHANGED <<read, committed, tasks, requeueDue, operator, ops,
                   sends, lost, mishap>>

(* The claim returns None and the task ends without a retry. *)
ClaimRefused(w) ==
    /\ worker[w].pc = "claiming"
    /\ ~Claimable(status[worker[w].n])
    /\ worker' = [worker EXCEPT ![w] = Idle]
    /\ UNCHANGED <<rowVars, committed, tasks, requeueDue, operator, ops, histVars>>

(* deliver_notification returns; for WEB it does nothing at all. *)
DeliverOk(w) ==
    LET n == worker[w].n IN
    /\ worker[w].pc = "sending"
    /\ sends' = [sends EXCEPT ![n] = @ + 1]
    /\ worker' = [worker EXCEPT ![w].pc = "sent"]
    /\ UNCHANGED <<rowVars, committed, tasks, requeueDue, operator, ops,
                   lost, attempts, mishap>>

(* Mutated form of DeliverFails: an error swallowed, as by fail_silently. *)
DeliverFailsSilently(w, reached) ==
    /\ worker[w].pc = "sending"
    /\ Channel[worker[w].n] # "WEB"
    /\ worker' = [worker EXCEPT ![w].pc = "sent"]
    /\ UNCHANGED <<rowVars, committed, tasks, requeueDue, operator, ops, histVars>>

(* It raises.  "reached": the provider had already accepted the message    *)
(* (a response that timed out), which the code cannot tell from a refusal. *)
DeliverFails(w, reached) ==
    LET n == worker[w].n
        k == IF reached THEN 1 ELSE 0 IN
    /\ worker[w].pc = "sending"
    /\ Channel[n] # "WEB"
    /\ sends' = [sends EXCEPT ![n] = @ + k]
    /\ lost' = [lost EXCEPT ![n] = @ + k]
    /\ worker' = [worker EXCEPT ![w].pc = "failing"]
    /\ UNCHANGED <<rowVars, committed, tasks, requeueDue, operator, ops,
                   attempts, mishap>>

SaveSent(w) ==
    LET n == worker[w].n IN
    /\ worker[w].pc = "sent"
    /\ status' = [status EXCEPT ![n] = "SENT"]
    /\ stale' = stale \ {n}
    /\ worker' = [worker EXCEPT ![w] = Idle]
    /\ UNCHANGED <<read, committed, tasks, requeueDue, operator, ops, histVars>>

(* The save of SENT raises inside the try block: on to the except branch. *)
SaveSentFails(w) ==
    LET n == worker[w].n IN
    /\ worker[w].pc = "sent"
    /\ lost' = [lost EXCEPT ![n] = @ + 1]
    /\ worker' = [worker EXCEPT ![w].pc = "failing"]
    /\ UNCHANGED <<rowVars, committed, tasks, requeueDue, operator, ops,
                   sends, attempts, mishap>>

(* The except branch re-reads the row and saves FAILED whatever it says. *)
SaveFailed(w) ==
    LET n == worker[w].n IN
    /\ worker[w].pc = "failing"
    /\ status' = [status EXCEPT ![n] = "FAILED"]
    /\ stale' = stale \ {n}
    /\ worker' = [worker EXCEPT ![w].pc = "retrying"]
    /\ UNCHANGED <<read, committed, tasks, requeueDue, operator, ops, histVars>>

MayRetryOneLess(r) == r + 1 < MaxRetries    \* mutated form of the next line

MayRetry(r) == r < MaxRetries

Retry(w) ==
    /\ worker[w].pc = "retrying"
    /\ MayRetry(worker[w].r)
    /\ Publish(worker[w].n, worker[w].r + 1)
    /\ worker' = [worker EXCEPT ![w] = Idle]
    /\ UNCHANGED <<rowVars, committed, requeueDue, operator, ops, histVars>>

GiveUp(w) ==
    /\ worker[w].pc = "retrying"
    /\ ~MayRetry(worker[w].r)
    /\ worker' = [worker EXCEPT ![w] = Idle]
    /\ UNCHANGED <<rowVars, committed, tasks, requeueDue, operator, ops, histVars>>

-----------------------------------------------------------------------------
(* requeue_stale_delivering_notifications: an unlocked read picks the rows, *)
(* then one transaction locks them and checks each again.                   *)

StaleRows == {n \in stale : status[n] = "DELIVERING"}

(* Mutated forms of RequeueRows: no second check, the age compared the wrong *)
(* way round, and a save that leaves updated_at alone.                       *)
RequeueUnchecked(rows) ==
    /\ status' = [n \in Notifs |-> IF n \in rows THEN "PENDING" ELSE status[n]]
    /\ stale' = stale \ rows

RequeueFresh(rows) ==
    /\ status' = [n \in Notifs |-> IF n \in rows \ stale /\ status[n] = "DELIVERING"
                                   THEN "PENDING" ELSE status[n]]
    /\ UNCHANGED stale

RequeueUntouched(rows) ==
    /\ status' = [n \in Notifs |-> IF n \in rows \cap StaleRows THEN "PENDING" ELSE status[n]]
    /\ UNCHANGED stale

RequeueRows(rows) ==
    LET requeued == rows \cap StaleRows IN
    /\ status' = [n \in Notifs |-> IF n \in requeued THEN "PENDING" ELSE status[n]]
    /\ stale' = stale \ requeued

BeatRequeue ==
    /\ ~requeueDue
    /\ requeueDue' = TRUE
    /\ UNCHANGED <<rowVars, committed, tasks, worker, operator, ops, histVars>>

TakeRequeue(w) ==
    /\ requeueDue
    /\ worker[w].pc = "idle"
    /\ requeueDue' = FALSE
    /\ worker' = [worker EXCEPT ![w] = Requeueing(StaleRows)]
    /\ UNCHANGED <<rowVars, committed, tasks, operator, ops, histVars>>

ApplyRequeue(w) ==
    /\ worker[w].pc = "requeueing"
    /\ RequeueRows(worker[w].rows)
    /\ worker' = [worker EXCEPT ![w] = Idle]
    /\ UNCHANGED <<read, committed, tasks, requeueDue, operator, ops, histVars>>

-----------------------------------------------------------------------------
(* The operator's two commands run outside of the worker pool. *)

(* retry_pending_notifications: the --ids, --channel, --older-than-minutes *)
(* and --include-failed options select any set of PENDING or FAILED rows.  *)
OperatorQueuePending(rows) ==
    /\ operator = OperatorIdle
    /\ ops < MaxOps
    /\ rows # {}
    /\ \A n \in rows : status[n] \in {"PENDING", "FAILED"}
    /\ operator' = [job |-> "queueing", rows |-> rows]
    /\ ops' = ops + 1
    /\ UNCHANGED <<rowVars, committed, tasks, requeueDue, worker, histVars>>

OperatorDone(n) ==
    operator' = IF operator.rows = {n} THEN OperatorIdle
                ELSE [operator EXCEPT !.rows = @ \ {n}]

OperatorDispatch(n) ==
    /\ operator.job = "queueing"
    /\ n \in operator.rows
    /\ Publish(n, 0)
    /\ OperatorDone(n)
    /\ UNCHANGED <<rowVars, committed, requeueDue, worker, ops, histVars>>

(* The publish raises; the command logs it and goes on with the next row. *)
OperatorDispatchFails(n) ==
    /\ operator.job = "queueing"
    /\ n \in operator.rows
    /\ OperatorDone(n)
    /\ UNCHANGED <<rowVars, committed, tasks, requeueDue, worker, ops, histVars>>

OperatorRequeue ==
    /\ operator = OperatorIdle
    /\ ops < MaxOps
    /\ StaleRows # {}
    /\ operator' = [job |-> "requeueing", rows |-> StaleRows]
    /\ ops' = ops + 1
    /\ UNCHANGED <<rowVars, committed, tasks, requeueDue, worker, histVars>>

OperatorApplyRequeue ==
    /\ operator.job = "requeueing"
    /\ RequeueRows(operator.rows)
    /\ operator' = OperatorIdle
    /\ UNCHANGED <<read, committed, tasks, requeueDue, worker, ops, histVars>>

-----------------------------------------------------------------------------
(* The recipient's API, time, and crashes. *)

MarkRead(n) ==
    /\ Created(n)
    /\ n \notin read
    /\ read' = read \cup {n}
    /\ stale' = stale \ {n}
    /\ UNCHANGED <<status, committed, tasks, requeueDue, worker, operator, ops, histVars>>

(* A queryset update: updated_at stays as it is. *)
MarkAllRead ==
    /\ \E n \in Notifs : Created(n) /\ n \notin read
    /\ read' = {n \in Notifs : Created(n)}
    /\ UNCHANGED <<status, stale, committed, tasks, requeueDue, worker, operator, ops, histVars>>

(* Ten minutes pass since the last save.  A worker that holds the row keeps *)
(* it that long only inside the send of a channel without a timeout.        *)
BecomeStale(n) ==
    /\ status[n] = "DELIVERING"
    /\ n \notin stale
    /\ \A w \in Workers : Holds(w, n) => worker[w].pc = "sending" /\ ~Prompt(n)
    /\ stale' = stale \cup {n}
    /\ UNCHANGED <<status, read, committed, tasks, requeueDue, worker, operator, ops, histVars>>

(* The slot's process dies, or the except branch itself raises: the task   *)
(* was acknowledged when it was taken, so nothing brings it back.          *)
Crash(w) ==
    LET n == worker[w].n IN
    /\ worker[w].pc # "idle"
    /\ worker' = [worker EXCEPT ![w] = Idle]
    /\ mishap' = IF n = NoNotif THEN mishap ELSE mishap \cup {n}
    /\ lost' = IF worker[w].pc = "sent" THEN [lost EXCEPT ![n] = @ + 1] ELSE lost
    /\ UNCHANGED <<rowVars, committed, tasks, requeueDue, operator, ops, sends, attempts>>

-----------------------------------------------------------------------------

Deliver(w) == DeliverOk(w) \/ \E reached \in BOOLEAN : DeliverFails(w, reached)

WorkerStep(w) ==
    \/ \E n \in Notifs, r \in Retries : Take(w, n, r)
    \/ Claim(w)
    \/ ClaimRefused(w)
    \/ Deliver(w)
    \/ SaveSent(w)
    \/ SaveSentFails(w)
    \/ SaveFailed(w)
    \/ Retry(w)
    \/ GiveUp(w)
    \/ TakeRequeue(w)
    \/ ApplyRequeue(w)
    \/ Crash(w)

OperatorStep ==
    \/ \E rows \in SUBSET Notifs : OperatorQueuePending(rows)
    \/ \E n \in Notifs : OperatorDispatch(n) \/ OperatorDispatchFails(n)
    \/ OperatorRequeue
    \/ OperatorApplyRequeue

RowStep(n) ==
    \/ CreateNotification(n)
    \/ Dispatch(n)
    \/ DispatchLost(n)
    \/ MarkRead(n)
    \/ BecomeStale(n)

Next ==
    \/ \E n \in Notifs : RowStep(n)
    \/ \E w \in Workers : WorkerStep(w)
    \/ OperatorStep
    \/ BeatRequeue
    \/ MarkAllRead

Spec == Init /\ [][Next]_vars

(* The steps a live slot takes once it has a task.  A send is only sure to  *)
(* end on a channel with a timeout.                                         *)
SlotProgress(w) ==
    \/ Claim(w) \/ ClaimRefused(w)
    \/ (\E n \in Notifs : worker[w].n = n /\ Prompt(n)) /\ Deliver(w)
    \/ SaveSent(w) \/ SaveSentFails(w) \/ SaveFailed(w)
    \/ Retry(w) \/ GiveUp(w) \/ ApplyRequeue(w)

(* The Redis list is first in, first out: a message waits only while no     *)
(* slot is free, hence strong fairness of the two takes.  Slots may die for *)
(* ever, but not in every run of the requeue task.                          *)
Fairness ==
    /\ \A n \in Notifs : WF_vars(Dispatch(n) \/ DispatchLost(n))
    /\ \A n \in Notifs : WF_vars(BecomeStale(n))
    /\ \A w \in Workers : WF_vars(SlotProgress(w))
    /\ \A n \in Notifs, r \in Retries : SF_vars(\E w \in Workers : Take(w, n, r))
    /\ SF_vars(\E w \in Workers : TakeRequeue(w))
    /\ SF_vars(\E w \in Workers : ApplyRequeue(w))
    /\ WF_vars(BeatRequeue)

FairSpec == Spec /\ Fairness

-----------------------------------------------------------------------------
(* Properties. *)

Jobs == {Idle}
        \cup [pc : PCs \ {"idle", "requeueing"}, n : Notifs, r : Retries, rows : {{}}]
        \cup [pc : {"requeueing"}, n : {NoNotif}, r : {0}, rows : SUBSET Notifs]

(* The variables have their types; only rows in DELIVERING are timed, since *)
(* every save of the code refreshes updated_at.                             *)
TypeOK ==
    /\ status \in [Notifs -> Statuses]
    /\ stale \subseteq {n \in Notifs : status[n] = "DELIVERING"}
    /\ read \subseteq Notifs
    /\ committed \subseteq Notifs
    /\ tasks \in [Notifs -> [Retries -> Nat]]
    /\ requeueDue \in BOOLEAN
    /\ worker \in [Workers -> Jobs]
    /\ operator \in {OperatorIdle} \cup [job : {"queueing", "requeueing"}, rows : SUBSET Notifs]
    /\ ops \in Nat
    /\ sends \in [Notifs -> Nat]
    /\ lost \in [Notifs -> Nat]
    /\ attempts \in [Notifs -> Nat]
    /\ mishap \subseteq Notifs

(* claim_notification_for_delivery promises one sender per row.  It is so  *)
(* on every channel whose send ends before the stale cutoff: retries, the   *)
(* requeue task and the operator's commands never put a second worker on a  *)
(* row that a first one still holds.                                        *)
ExclusiveClaim ==
    \A n \in Notifs : Prompt(n) =>
        \A v, w \in Workers : Holds(v, n) /\ Holds(w, n) => v = w

(* Some worker has sent the row's message, and the row says so or will. *)
Accounted(n) ==
    \/ status[n] = "SENT"
    \/ \E w \in Workers : Holds(w, n) /\ worker[w].pc = "sent"

(* Messages are duplicated only when the record of one was lost: of all the *)
(* messages of a prompt row that reached the provider, every one but the    *)
(* one its SENT status stands for ended in a crash, an ambiguous provider   *)
(* error or a failed save.                                                  *)
SendsAccounted ==
    \A n \in Notifs : Prompt(n) =>
        sends[n] = lost[n] + (IF Accounted(n) THEN 1 ELSE 0)

(* On every channel a SENT row stands for a message that reached the        *)
(* provider and whose outcome a worker saw, whatever else was going on.     *)
SentWasDelivered ==
    \A n \in Notifs : status[n] = "SENT" => sends[n] > lost[n]

Carried(n) ==
    \/ n \in committed
    \/ \E r \in Retries : tasks[n][r] > 0
    \/ \E w \in Workers : worker[w].n = n

Settled(n) ==
    \/ status[n] = "SENT"
    \/ status[n] = "FAILED" /\ attempts[n] > MaxRetries

(* No row is abandoned without a mishap: one that no callback, task or      *)
(* worker carries any more is SENT, or is FAILED with all its attempts used *)
(* up, although tasks for it are dropped whenever the claim is refused.     *)
NotAbandoned ==
    \A n \in Notifs :
        Created(n) /\ n \notin mishap /\ ~Carried(n) => Settled(n)

(* A SENT row of a prompt channel keeps that status: the requeue's second   *)
(* look, the claim and the blind saves of the workers never undo it.        *)
SentIsFinal ==
    [][\A n \in Notifs : Prompt(n) /\ status[n] = "SENT" => status'[n] = "SENT"]_vars

(* On a prompt channel the delivery keeps the promise of DeliveryPromise: who *)
(* tries a row, what its status says and what the provider accepted agree     *)
(* after each step of any task, requeue, command or crash.                    *)
PromptRows == {n \in Notifs : Prompt(n)}

Promise == INSTANCE DeliveryPromise WITH
               Rows <- PromptRows,
               status <- [n \in PromptRows |-> status[n]],
               holders <- [n \in PromptRows |-> {w \in Workers : Holds(w, n)}],
               accepted <- [n \in PromptRows |-> sends[n] > lost[n]]

DeliveryPromised == Promise!Spec

(* Whatever dies, no row stays in DELIVERING: the worker ends its attempt,  *)
(* or the beat task finds the row.                                          *)
DeliveringEnds ==
    \A n \in Notifs : status[n] = "DELIVERING" ~> status[n] # "DELIVERING"

(* A created row settles for good, as SENT or as FAILED after the last      *)
(* attempt, or a mishap befell it (it may then stay PENDING for ever:       *)
(* nothing but the operator's command publishes it again).                  *)
CreatedSettles ==
    \A n \in Notifs : Created(n) ~> [](n \in mishap \/ Settled(n))
=============================================================================
