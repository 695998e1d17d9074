----------------------------- MODULE ReportJob -----------------------------
(***************************************************************************)
(* The life cycle of one report job: the workers of the reports queue that *)
(* generate it (apps/reports/services/generator.py), the REST requests     *)
(* that queue, cancel, edit and delete it (views.py, serializers.py), and  *)
(* the file storage.                                                       *)
(*                                                                         *)
(* Workers read and write the row under SELECT ... FOR UPDATE.  Requests   *)
(* read it without a lock, decide on what they read, and save later: the   *)
(* fields their update_fields name, or the whole row (edit).  Every save   *)
(* validates the object in memory (ReportJob.clean) and raises if it is    *)
(* not legal.  The storage knows no transactions.                          *)
(*                                                                         *)
(* Left out: what reports contain, times and messages beyond whether they  *)
(* are set, audit entries, access checks.  A file never takes the name of  *)
(* an earlier one (names carry the time to the second).                    *)
(***************************************************************************)
EXTENDS Integers

CONSTANTS
    Workers,        \* worker processes of the reports queue
    Users,          \* concurrent API requests
    NoWorker,       \* no worker
    Params,         \* values of the job's parameters
    MaxCalls,       \* bound: API requests
    MaxEdits,       \* bound: edits among them
    MaxDeaths,      \* bound: workers and requests that die half-way
    MaxLost         \* bound: publishes that fail

ASSUME JobAssumption ==
    /\ NoWorker \notin Workers
    /\ Params # {}
    /\ MaxCalls \in Nat /\ MaxEdits \in Nat /\ MaxDeaths \in Nat /\ MaxLost \in Nat

NoFile == 0                         \* files are numbered as they are stored
Final == {"COMPLETED", "FAILED", "CANCELLED"}
Statuses == Final \cup {"PENDING", "PROCESSING"}
Gone == "DELETED"                   \* the row is not there

VARIABLES
    row,            \* status, parameters, whether started_at and completed_at
                    \* are set, and file
    rowHolder,      \* the worker that holds the row's lock across steps
    store,          \* the files in the storage
    files,          \* how many were ever stored
    tasks,          \* generate_report_job_task messages in the queue
    worker,         \* the progress of each worker
    user,           \* the progress of each request, with the row it read
    calls, edits, deaths, lost,     \* what is used of the bounds
    widowed         \* history: files deleted by a worker that died before it had
                    \* replaced them or recorded that it could not

vars == <<row, rowHolder, store, files, tasks, worker, user,
          calls, edits, deaths, lost, widowed>>

Row(s, p) == [status |-> s, params |-> p, started |-> FALSE, completed |-> FALSE,
              file |-> NoFile]
IdleWorker == [pc |-> "idle", file |-> NoFile, dropped |-> NoFile]
IdleUser(p) == [op |-> "idle", seen |-> Row(Gone, p), new |-> p]

\* A job comes from the API, with nothing queued, or from a report schedule,
\* whose delivery generates it at once.
Init ==
    /\ \E p \in Params :
          row = Row("PENDING", p) /\ user = [u \in Users |-> IdleUser(p)]
    /\ rowHolder = NoWorker
    /\ store = {} /\ files = 0
    /\ tasks \in {0, 1}
    /\ worker = [w \in Workers |-> IdleWorker]
    /\ calls = 0 /\ edits = 0 /\ deaths = 0 /\ lost = 0
    /\ widowed = {}

storage == <<store, files>>
bounds == <<calls, edits, deaths, lost, widowed>>

\* ReportJob.clean, as far as it is about the life cycle.
Valid(job) ==
    CASE job.status = "PENDING" -> ~job.started /\ ~job.completed
      [] job.status = "PROCESSING" -> job.started /\ ~job.completed
      [] OTHER -> job.started /\ job.completed

-----------------------------------------------------------------------------
(* Workers: generate_report_job.                                           *)

\* The job as the claim saves it.
Claimed == [row EXCEPT !.status = "PROCESSING", !.started = TRUE]

\* The first transaction.  A FAILED job is eligible, but its completed_at is
\* still set, so the save raises and the task ends.
Claim(w) ==
    /\ worker[w].pc = "idle" /\ tasks > 0 /\ rowHolder = NoWorker
    /\ tasks' = tasks - 1
    /\ IF row.status \in {"PENDING", "FAILED"} /\ Valid(Claimed)
       THEN row' = Claimed /\ worker' = [worker EXCEPT ![w].pc = "building"]
       ELSE UNCHANGED <<row, worker>>
    /\ UNCHANGED <<rowHolder, storage, user, bounds>>

\* _build_report raises, or, in the second transaction, the deletion of the old file,
\* which is then still there.
BuildFails(w) ==
    /\ worker[w].pc = "building"
    /\ worker' = [worker EXCEPT ![w].pc = "failing"]
    /\ UNCHANGED <<row, rowHolder, storage, tasks, user, bounds>>

\* The second transaction finds the job cancelled.
FindCancelled(w) ==
    /\ worker[w].pc = "building" /\ rowHolder = NoWorker
    /\ row.status = "CANCELLED"
    /\ worker' = [worker EXCEPT ![w] = IdleWorker]
    /\ UNCHANGED <<row, rowHolder, storage, tasks, user, bounds>>

\* ... or deleted: get() raises.
FindDeleted(w) ==
    /\ worker[w].pc = "building" /\ rowHolder = NoWorker
    /\ row.status = Gone
    /\ worker' = [worker EXCEPT ![w].pc = "failing"]
    /\ UNCHANGED <<row, rowHolder, storage, tasks, user, bounds>>

\* (Mutated form of what follows.)  The row is read without a lock.
DropFileUnlocked(w) ==
    /\ worker[w].pc = "building" /\ rowHolder = NoWorker
    /\ row.status \notin {"CANCELLED", Gone}
    /\ store' = store \ {row.file}
    /\ worker' = [worker EXCEPT ![w].pc = "replacing", ![w].dropped = row.file]
    /\ UNCHANGED <<row, rowHolder, files, tasks, user, bounds>>

\* Otherwise, with the row locked, the old file goes, if there is one, ...
DropFile(w) ==
    /\ worker[w].pc = "building" /\ rowHolder = NoWorker
    /\ row.status \notin {"CANCELLED", Gone}
    /\ rowHolder' = w
    /\ store' = store \ {row.file}
    /\ worker' = [worker EXCEPT ![w].pc = "replacing", ![w].dropped = row.file]
    /\ UNCHANGED <<row, files, tasks, user, bounds>>

\* ... and the new one is stored.
StoreFile(w) ==
    /\ worker[w].pc = "replacing"
    /\ files' = files + 1
    /\ store' = store \cup {files'}
    /\ worker' = [worker EXCEPT ![w].pc = "storing", ![w].file = files']
    /\ UNCHANGED <<row, rowHolder, tasks, user, bounds>>

\* file.save raises: the row is rolled back to the name of a file that is gone.
StoreFails(w) ==
    /\ worker[w].pc = "replacing"
    /\ rowHolder' = NoWorker
    /\ worker' = [worker EXCEPT ![w].pc = "failing"]
    /\ UNCHANGED <<row, storage, tasks, user, bounds>>

Completed(w) == [row EXCEPT !.status = "COMPLETED", !.completed = TRUE,
                            !.file = worker[w].file]

\* The save and the commit; when the save raises (the row was reset to PENDING
\* and has no started_at) the transaction is rolled back, the storage is not.
Finish(w) ==
    /\ worker[w].pc = "storing"
    /\ rowHolder' = NoWorker
    /\ IF Valid(Completed(w))
       THEN row' = Completed(w) /\ worker' = [worker EXCEPT ![w] = IdleWorker]
       ELSE row' = row
            /\ worker' = [worker EXCEPT ![w].pc = "failing", ![w].file = NoFile]
    /\ UNCHANGED <<storage, tasks, user, bounds>>

\* (Mutated form of what follows.)  A status that ReportJobStatus does not have.
FailedMisspelt == [row EXCEPT !.status = "FAILURE", !.completed = TRUE]

Failed == [row EXCEPT !.status = "FAILED", !.completed = TRUE]

\* (Mutated form of what follows.)  The error is logged and not recorded.
SwallowFailure(w) ==
    /\ worker[w].pc = "failing" /\ rowHolder = NoWorker
    /\ worker' = [worker EXCEPT ![w] = IdleWorker]
    /\ UNCHANGED <<row, rowHolder, storage, tasks, user, bounds>>

\* The except branch: FAILED, whatever the status has become, unless the row is
\* gone or the save raises.
RecordFailure(w) ==
    /\ worker[w].pc = "failing" /\ rowHolder = NoWorker
    /\ row' = IF row.status # Gone /\ Valid(Failed) THEN Failed ELSE row
    /\ worker' = [worker EXCEPT ![w] = IdleWorker]
    /\ UNCHANGED <<rowHolder, storage, tasks, user, bounds>>

\* The worker is killed; its transaction is rolled back.  The task was
\* acknowledged when it was taken and does not come back.
Die(w) ==
    /\ worker[w].pc # "idle"
    /\ deaths < MaxDeaths
    /\ deaths' = deaths + 1
    /\ worker' = [worker EXCEPT ![w] = IdleWorker]
    /\ rowHolder' = IF rowHolder = w THEN NoWorker ELSE rowHolder
    /\ widowed' = widowed \cup ({worker[w].dropped} \ {NoFile})
    /\ UNCHANGED <<row, storage, tasks, user, calls, edits, lost>>

-----------------------------------------------------------------------------
(* Requests.                                                               *)

\* (Mutated form of what follows.)  generate accepts every job.
AllowedAny(op, p) ==
    CASE op = "enqueue" -> TRUE
      [] op = "cancel" -> row.status = "PENDING"
      [] op = "edit" -> p # row.params => row.status # "PROCESSING"

\* get_object and the tests on what it returned: generate and retry (a retry
\* also wants FAILED; what it goes on to do is the same), cancel, and edit.
Allowed(op, p) ==
    CASE op = "enqueue" -> row.status \in {"PENDING", "FAILED"}
      [] op = "cancel" -> row.status = "PENDING"
      [] op = "edit" -> p # row.params => row.status # "PROCESSING"

\* p is what an edit asks for; it may ask for the parameters the job has and
\* change some other field.
GetObject(u, op, p) ==
    /\ user[u].op = "idle"
    /\ row.status # Gone
    /\ op = "edit" \/ p = row.params
    /\ Allowed(op, p)
    /\ calls < MaxCalls
    /\ calls' = calls + 1
    /\ op = "edit" => edits < MaxEdits
    /\ edits' = IF op = "edit" THEN edits + 1 ELSE edits
    /\ user' = [user EXCEPT ![u] = [op |-> op, seen |-> row, new |-> p]]
    /\ UNCHANGED <<row, rowHolder, storage, tasks, worker, deaths, lost, widowed>>

\* An edit that changes the parameters drops the file, the others always do.
DropsFile(u) == user[u].op = "edit" => user[u].new # user[u].seen.params

\* file.delete(save=False), before anything is saved.
DeleteFile(u) ==
    /\ user[u].op # "idle" /\ DropsFile(u)
    /\ user[u].seen.file # NoFile
    /\ store' = store \ {user[u].seen.file}
    /\ user' = [user EXCEPT ![u].seen.file = NoFile]
    /\ UNCHANGED <<row, rowHolder, files, tasks, worker, bounds>>

\* Whether a request has nothing left to delete and no row lock to wait for.
Saving(u, op) ==
    /\ user[u].op = op
    /\ DropsFile(u) => user[u].seen.file = NoFile
    /\ rowHolder = NoWorker
    /\ user' = [user EXCEPT ![u] = IdleUser(user[u].new)]

\* What goes back to PENDING starts over.
Reset(job) == [job EXCEPT !.status = "PENDING", !.started = FALSE, !.completed = FALSE]

\* (Mutated form of what follows.)  completed_at is missing in update_fields.
EnqueueForgetful(u) ==
    LET seen == user[u].seen
        job == IF seen.status = "FAILED" THEN Reset(seen) ELSE seen
    IN  /\ Saving(u, "enqueue")
        /\ row' = IF row.status = Gone THEN row
                  ELSE [row EXCEPT !.status = job.status, !.started = job.started,
                                   !.file = job.file]
        /\ tasks' = IF row.status = Gone THEN tasks ELSE tasks + 1
        /\ UNCHANGED <<rowHolder, storage, worker, bounds>>

\* _enqueue_generation: the fields of update_fields, then the task, published
\* at once (no transaction is open), or lost when the broker is away.  Saving
\* to a deleted row raises.
Enqueue(u) ==
    LET seen == user[u].seen
        job == IF seen.status = "FAILED" THEN Reset(seen) ELSE seen
    IN  /\ Saving(u, "enqueue")
        /\ IF row.status # Gone /\ Valid(job)
           THEN /\ row' = [job EXCEPT !.params = row.params]
                /\ \/ tasks' = tasks + 1 /\ UNCHANGED lost
                   \/ lost < MaxLost /\ lost' = lost + 1 /\ UNCHANGED tasks
           ELSE UNCHANGED <<row, tasks, lost>>
        /\ UNCHANGED <<rowHolder, storage, worker, calls, edits, deaths, widowed>>

\* cancel.
Cancel(u) ==
    LET job == [user[u].seen EXCEPT !.status = "CANCELLED", !.started = TRUE,
                                    !.completed = TRUE]
    IN  /\ Saving(u, "cancel")
        /\ row' = IF row.status # Gone /\ Valid(job)
                  THEN [job EXCEPT !.params = row.params] ELSE row
        /\ UNCHANGED <<rowHolder, storage, tasks, worker, bounds>>

\* The update of the serializer.  It saves every field; if the row was deleted
\* meanwhile, Django inserts it again.
Edit(u) ==
    LET seen == user[u].seen
        changed == user[u].new # seen.params
        job == [(IF changed /\ seen.status \in Final THEN Reset(seen) ELSE seen)
                    EXCEPT !.params = user[u].new]
    IN  /\ Saving(u, "edit")
        /\ row' = IF Valid(job) THEN job ELSE row
        /\ UNCHANGED <<rowHolder, storage, tasks, worker, bounds>>

\* DELETE: the row goes, the file stays.
Destroy ==
    /\ row.status # Gone /\ rowHolder = NoWorker
    /\ calls < MaxCalls
    /\ calls' = calls + 1
    /\ row' = [row EXCEPT !.status = Gone]
    /\ UNCHANGED <<rowHolder, storage, tasks, worker, user, edits, deaths, lost, widowed>>

\* A request is cut off between its read and its save, or its deletion raises.
Abort(u) ==
    /\ user[u].op # "idle"
    /\ deaths < MaxDeaths
    /\ deaths' = deaths + 1
    /\ user' = [user EXCEPT ![u] = IdleUser(user[u].new)]
    /\ UNCHANGED <<row, rowHolder, storage, tasks, worker, calls, edits, lost, widowed>>

-----------------------------------------------------------------------------
Generate(w) ==
    \/ Claim(w) \/ BuildFails(w) \/ FindCancelled(w) \/ FindDeleted(w)
    \/ DropFile(w) \/ StoreFile(w) \/ StoreFails(w) \/ Finish(w) \/ RecordFailure(w)

Ops == {"enqueue", "cancel", "edit"}

Proceed(u) == DeleteFile(u) \/ Enqueue(u) \/ Cancel(u) \/ Edit(u)

Request(u) ==
    \/ \E op \in Ops, p \in Params : GetObject(u, op, p)
    \/ Proceed(u)
    \/ Abort(u)

Next ==
    \/ \E w \in Workers : Generate(w) \/ Die(w)
    \/ \E u \in Users : Request(u)
    \/ Destroy

Spec == Init /\ [][Next]_vars

(* Celery hands a queued task to a worker that is free, and a worker goes  *)
(* on with what it has begun.  Requests owe nothing.                       *)
Fairness == \A w \in Workers : WF_vars(Generate(w))

FairSpec == Spec /\ Fairness

-----------------------------------------------------------------------------
(* Properties.                                                             *)

Rows == [status : Statuses \cup {Gone}, params : Params, started : BOOLEAN,
         completed : BOOLEAN, file : Nat]

\* The type of the state.
TypeOK ==
    /\ row \in Rows
    /\ rowHolder \in Workers \cup {NoWorker}
    /\ store \subseteq 1 .. files
    /\ files \in Nat
    /\ tasks \in Nat
    /\ worker \in [Workers -> [pc : {"idle", "building", "replacing", "storing", "failing"},
                             file : Nat, dropped : Nat]]
    /\ user \in [Users -> [op : Ops \cup {"idle"}, seen : Rows, new : Params]]
    /\ calls \in 0 .. MaxCalls
    /\ edits \in 0 .. MaxEdits
    /\ deaths \in 0 .. MaxDeaths
    /\ lost \in 0 .. MaxLost
    /\ widowed \subseteq 1 .. files

\* The row satisfies ReportJob.clean, although saves validate an object read
\* earlier and write only some of its fields over what others wrote since.
RowLegal == row.status # Gone => Valid(row)

\* A job that nobody has edited and that offers its file for download (is_downloadable)
\* has it, however generations, deletions and cancellations overlap, the storage fails
\* and the row is rolled back: a file that is missing was deleted by a worker that is yet
\* to replace it or to record FAILED, or that died before it could.
DownloadWorks ==
    edits = 0 /\ row.status = "COMPLETED" /\ row.file # NoFile =>
        \/ row.file \in store
        \/ \E w \in Workers : worker[w].dropped = row.file
        \/ row.file \in widowed

\* No worker starts or completes a cancelled job, even one whose generation was
\* under way when it was cancelled.
CancelStops ==
    [][worker' # worker /\ row.status = "CANCELLED" =>
            row'.status \in {"CANCELLED", "FAILED"}]_vars

\* A generation that is queued or under way ends the job, however many of them
\* overlap, unless a worker died, a publish failed or somebody edited the job.
GenerationEnds ==
    (tasks > 0 \/ row.status = "PROCESSING") ~>
        \/ row.status \in Final \cup {Gone}
        \/ deaths > 0 \/ lost > 0 \/ edits > 0

\* What the serializer answers to an edit of the parameters of a running job:
\* "Processing report jobs cannot be edited."
EditsSpareProcessing ==
    [][row.status = "PROCESSING" => row'.params = row.params]_vars
=============================================================================
