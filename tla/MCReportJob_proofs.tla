-------------------------- MODULE MCReportJob_proofs --------------------------
(***************************************************************************)
(* Proofs about ReportJob, for every set of workers, users and parameters  *)
(* and every budget of requests and failures, and what follows for the     *)
(* specification that MCReportJob composes of it, ReportSchedule and       *)
(* ReportContents: what is proved of an instance's module is cited.        *)
(***************************************************************************)
EXTENDS MCReportJob, Sequences, TLAPS

WorkerTypes == [pc : {"idle", "building", "replacing", "storing", "failing"},
                file : Nat, dropped : Nat]
UserTypes == [op : Ops \cup {"idle"}, seen : Rows, new : Params]

-----------------------------------------------------------------------------
(* The inductive invariant.                                                *)

\* Files are numbered as they are stored: none that is referred to is numbered
\* beyond the count.  Generations are requested of jobs that may be generated.
Numbered ==
    /\ row.file <= files
    /\ \A w \in Workers : worker[w].dropped <= files
    /\ \A u \in Users :
          /\ user[u].seen.file <= files
          /\ user[u].op = "enqueue" => user[u].seen.status \in {"PENDING", "FAILED"}

\* A worker that replaces the file holds the row, and the row is neither
\* cancelled nor already showing the new file.
Locked ==
    \A w \in Workers :
        /\ worker[w].pc \in {"replacing", "storing"} <=> rowHolder = w
        /\ rowHolder = w => row.status # "CANCELLED"
        /\ worker[w].pc = "storing" =>
              row.file < worker[w].file /\ worker[w].file <= files

\* What holds of the files as long as nobody edits: what a request is going to
\* delete is not what a completed job offers, nor what a worker has just stored.
\* Of the file a completed job offers, if it is missing, somebody knows.
Safe ==
    /\ \A u \in Users : user[u].op # "edit"
    /\ \A u \in Users :
          user[u].seen.file # NoFile =>
             /\ row.file = user[u].seen.file => row.status # "COMPLETED"
             /\ \A w \in Workers :
                   worker[w].pc = "storing" => user[u].seen.file # worker[w].file
    /\ \A w \in Workers : worker[w].pc = "storing" => worker[w].file \in store
    /\ row.status = "COMPLETED" /\ row.file # NoFile =>
          \/ row.file \in store
          \/ \E w \in Workers : worker[w].dropped = row.file
          \/ row.file \in widowed

Storing(x) == x.pc \in {"replacing", "storing"}

IInv ==
    /\ TypeOK
    /\ RowLegal
    /\ Numbered
    /\ Locked
    /\ edits = 0 => Safe

-----------------------------------------------------------------------------
(* Types.                                                                  *)

LEMMA RowTypes ==
    ASSUME NEW job \in Rows, NEW s \in Statuses \cup {Gone}, NEW b \in BOOLEAN,
           NEW c \in BOOLEAN, NEW f \in Nat, NEW p \in Params
    PROVE  /\ [job EXCEPT !.status = s] \in Rows
           /\ [job EXCEPT !.file = f] \in Rows
           /\ [job EXCEPT !.params = p] \in Rows
           /\ [job EXCEPT !.status = s, !.completed = c] \in Rows
           /\ [job EXCEPT !.status = s, !.completed = c, !.file = f] \in Rows
           /\ [job EXCEPT !.status = s, !.started = b, !.completed = c] \in Rows
  BY DEF Rows

LEMMA NewRow == \A s \in Statuses \cup {Gone}, p \in Params : Row(s, p) \in Rows
  <1>1. NoFile \in Nat
    BY DEF NoFile
  <1>2. QED
    BY <1>1 DEF Row, Rows

LEMMA StatusNames ==
    /\ Gone \notin Statuses
    /\ {"PENDING", "PROCESSING", "COMPLETED", "FAILED", "CANCELLED"} = Statuses
  BY DEF Gone, Statuses, Final

LEMMA ResetType == \A job \in Rows : Reset(job) \in Rows
  BY StatusNames DEF Reset, Rows

LEMMA IdleTypes ==
    IdleWorker \in WorkerTypes /\ \A p \in Params : IdleUser(p) \in UserTypes
  BY NewRow DEF IdleWorker, IdleUser, WorkerTypes, UserTypes, NoFile

LEMMA IdleHasNothing ==
    IdleWorker.pc = "idle" /\ IdleWorker.dropped = 0 /\ ~Storing(IdleWorker)
  BY DEF IdleWorker, NoFile, Storing

LEMMA InitIInv == Init => IInv
  <1> SUFFICES ASSUME Init PROVE IInv
    OBVIOUS
  <1>1. PICK p \in Params : row = Row("PENDING", p) /\ user = [u \in Users |-> IdleUser(p)]
    BY DEF Init
  <1>2. /\ row \in Rows
        /\ row.status = "PENDING" /\ row.file = NoFile /\ ~row.started /\ ~row.completed
    BY <1>1, NewRow, StatusNames DEF Row
  <1>3. /\ user \in [Users -> UserTypes]
        /\ \A u \in Users : user[u].op = "idle" /\ user[u].seen.file = NoFile
    BY <1>1, IdleTypes DEF IdleUser, Row
  <1>4. /\ worker \in [Workers -> WorkerTypes]
        /\ \A w \in Workers : worker[w].pc = "idle" /\ worker[w].dropped = NoFile
    BY IdleTypes DEF Init, IdleWorker
  <1>5. TypeOK
    BY <1>2, <1>3, <1>4, JobAssumption DEF Init, TypeOK, UserTypes, WorkerTypes
  <1>6. RowLegal
    BY <1>2 DEF RowLegal, Valid
  <1>7. Numbered
    BY <1>2, <1>3, <1>4 DEF Numbered, Init, NoFile
  <1>8. Locked
    BY <1>4, JobAssumption DEF Locked, Init
  <1>9. Safe
    BY <1>2, <1>3, <1>4 DEF Safe
  <1>10. QED
    BY <1>5, <1>6, <1>7, <1>8, <1>9 DEF IInv

-----------------------------------------------------------------------------
(* The steps of workers.                                                   *)

LEMMA ClaimStep ==
    ASSUME IInv, NEW w \in Workers, Claim(w)
    PROVE  IInv'
  <1> USE DEF IInv
  <1>1. row \in Rows /\ Claimed \in Rows /\ Claimed.file = row.file
        /\ Claimed.status = "PROCESSING"
    <2>1. row \in Rows /\ "PROCESSING" \in Statuses \cup {Gone}
      BY StatusNames DEF TypeOK
    <2>2. QED
      BY <2>1 DEF Claimed, Rows
  <1>2. \/ row' = row /\ worker' = worker
        \/ /\ row' = Claimed /\ Valid(Claimed)
           /\ worker' = [worker EXCEPT ![w].pc = "building"]
    BY DEF Claim
  <1>3. /\ row' \in Rows /\ row'.file = row.file
        /\ row'.status \in {row.status, "PROCESSING"}
    BY <1>1, <1>2
  <1>4. /\ worker' \in [Workers -> WorkerTypes]
        /\ \A x \in Workers : /\ ~Storing(worker[x]) /\ ~Storing(worker'[x])
                              /\ worker'[x].dropped = worker[x].dropped
    BY <1>2, JobAssumption DEF Claim, TypeOK, WorkerTypes, Locked, Storing
  <1>5. tasks' \in Nat
    BY DEF Claim, TypeOK
  <1>6. TypeOK'
    BY <1>3, <1>4, <1>5 DEF Claim, TypeOK, WorkerTypes, storage, bounds
  <1>7. RowLegal'
    BY <1>1, <1>2 DEF RowLegal
  <1>8. Numbered'
    BY <1>3, <1>4 DEF Claim, Numbered, storage
  <1>9. Locked'
    BY <1>4, JobAssumption DEF Claim, Locked, Storing
  <1>10. (edits = 0 => Safe)'
    BY <1>3, <1>4 DEF Claim, Safe, Storing, storage, bounds
  <1>11. QED
    BY <1>6, <1>7, <1>8, <1>9, <1>10

(* A worker that leaves the row and the files alone and is not storing.     *)
LEMMA WorkerMoves ==
    ASSUME IInv, NEW w \in Workers, NEW x \in WorkerTypes,
           ~Storing(worker[w]), ~Storing(x), x.dropped <= files,
           x.dropped = worker[w].dropped \/ row.status # "COMPLETED",
           worker' = [worker EXCEPT ![w] = x],
           UNCHANGED <<row, rowHolder, storage, tasks, user, bounds>>
    PROVE  IInv'
  <1> USE DEF IInv
  <1>1. /\ worker' \in [Workers -> WorkerTypes]
        /\ worker'[w] = x /\ \A v \in Workers \ {w} : worker'[v] = worker[v]
    BY DEF TypeOK, WorkerTypes
  <1>2. TypeOK'
    BY <1>1 DEF TypeOK, WorkerTypes, storage, bounds
  <1>3. RowLegal' /\ Numbered'
    BY <1>1 DEF RowLegal, Numbered, storage
  <1>4. Locked'
    BY <1>1 DEF Locked, Storing, storage
  <1>5. (edits = 0 => Safe)'
    BY <1>1 DEF Safe, Storing, storage, bounds
  <1>6. QED
    BY <1>2, <1>3, <1>4, <1>5

LEMMA BuildStep ==
    ASSUME IInv, NEW w \in Workers,
           BuildFails(w) \/ FindCancelled(w) \/ FindDeleted(w)
    PROVE  IInv'
  <1>1. worker \in [Workers -> WorkerTypes] /\ worker[w].dropped <= files /\ files \in Nat
    BY DEF IInv, TypeOK, WorkerTypes, Numbered
  <1>2. PICK x \in WorkerTypes :
          /\ ~Storing(x) /\ x.dropped <= files
          /\ x.dropped = worker[w].dropped \/ row.status # "COMPLETED"
          /\ worker' = [worker EXCEPT ![w] = x]
    <2>1. CASE BuildFails(w) \/ FindDeleted(w)
      <3> DEFINE x == [worker[w] EXCEPT !.pc = "failing"]
      <3>1. x \in WorkerTypes /\ ~Storing(x) /\ x.dropped = worker[w].dropped
        BY <1>1 DEF WorkerTypes, Storing
      <3>2. worker' = [worker EXCEPT ![w] = x]
        BY <2>1 DEF BuildFails, FindDeleted
      <3>3. QED
        BY <1>1, <3>1, <3>2
    <2>2. CASE FindCancelled(w)
      <3>1. row.status # "COMPLETED" /\ worker' = [worker EXCEPT ![w] = IdleWorker]
        BY <2>2 DEF FindCancelled
      <3>2. IdleWorker \in WorkerTypes /\ IdleWorker.dropped <= files
        BY <1>1, IdleTypes, IdleHasNothing
      <3>3. QED
        BY <3>1, <3>2, IdleHasNothing
    <2>3. QED
      BY <2>1, <2>2
  <1>3. ~Storing(worker[w]) /\ UNCHANGED <<row, rowHolder, storage, tasks, user, bounds>>
    BY DEF BuildFails, FindCancelled, FindDeleted, Storing
  <1>4. QED
    BY <1>2, <1>3, WorkerMoves

(* The old file is deleted by a worker that knows its name.                *)
LEMMA DropFileStep ==
    ASSUME IInv, NEW w \in Workers, DropFile(w)
    PROVE  IInv'
  <1> USE DEF IInv
  <1>1. /\ row' = row /\ row \in Rows /\ row.file \in Nat /\ row.file <= files
        /\ files' = files /\ store' = store \ {row.file}
        /\ row.status # "CANCELLED"
        /\ UNCHANGED <<tasks, user, calls, edits, deaths, lost, widowed>>
    BY DEF DropFile, TypeOK, Rows, bounds, Numbered
  <1>2. /\ worker' \in [Workers -> WorkerTypes]
        /\ worker'[w].pc = "replacing" /\ worker'[w].dropped = row.file
        /\ \A x \in Workers \ {w} : worker'[x] = worker[x] /\ ~Storing(worker[x])
    <2>1. \A x \in Workers : ~Storing(worker[x])
      BY JobAssumption DEF DropFile, Locked, Storing
    <2> DEFINE next == [worker[w] EXCEPT !.pc = "replacing", !.dropped = row.file]
    <2>2. worker[w] \in WorkerTypes /\ worker \in [Workers -> WorkerTypes]
      BY DEF TypeOK, WorkerTypes
    <2>3. next \in WorkerTypes /\ next.pc = "replacing" /\ next.dropped = row.file
      BY <1>1, <2>2 DEF WorkerTypes
    <2>4. worker' = [worker EXCEPT ![w] = next]
      BY DEF DropFile
    <2> HIDE DEF next
    <2>5. QED
      BY <2>1, <2>2, <2>3, <2>4
  <1>3. TypeOK'
    BY <1>1, <1>2 DEF DropFile, TypeOK, WorkerTypes
  <1>4. RowLegal' /\ Numbered'
    BY <1>1, <1>2 DEF RowLegal, Numbered
  <1>5. Locked'
    BY <1>1, <1>2, JobAssumption DEF DropFile, Locked, Storing
  <1>6. (edits = 0 => Safe)'
    BY <1>1, <1>2 DEF Safe, Storing
  <1>7. QED
    BY <1>3, <1>4, <1>5, <1>6

(* The new file gets a number nothing refers to.                           *)
LEMMA StoreFileStep ==
    ASSUME IInv, NEW w \in Workers, StoreFile(w)
    PROVE  IInv'
  <1> USE DEF IInv
  <1>1. /\ row' = row /\ row \in Rows /\ row.file \in Nat
        /\ files \in Nat /\ files' = files + 1 /\ store' = store \cup {files'}
        /\ \A u \in Users : user[u].seen.file \in Nat
        /\ rowHolder = w
        /\ UNCHANGED <<tasks, user, calls, edits, deaths, lost, widowed, rowHolder>>
    BY DEF StoreFile, TypeOK, Rows, bounds, Locked
  <1>2. /\ worker' \in [Workers -> WorkerTypes]
        /\ worker'[w].pc = "storing" /\ worker'[w].file = files'
        /\ worker'[w].dropped = worker[w].dropped
        /\ \A x \in Workers \ {w} : worker'[x] = worker[x] /\ ~Storing(worker[x])
    <2>1. \A x \in Workers \ {w} : ~Storing(worker[x])
      BY <1>1 DEF Locked, Storing
    <2> DEFINE next == [worker[w] EXCEPT !.pc = "storing", !.file = files']
    <2>2. worker[w] \in WorkerTypes /\ worker \in [Workers -> WorkerTypes] /\ files' \in Nat
      BY <1>1 DEF TypeOK, WorkerTypes
    <2>3. /\ next \in WorkerTypes /\ next.pc = "storing" /\ next.file = files'
          /\ next.dropped = worker[w].dropped
      BY <2>2 DEF WorkerTypes
    <2>4. worker' = [worker EXCEPT ![w] = next]
      BY DEF StoreFile
    <2> HIDE DEF next
    <2>5. QED
      BY <2>1, <2>2, <2>3, <2>4
  <1>3. store' \subseteq 1 .. files' /\ widowed' \subseteq 1 .. files'
    BY <1>1 DEF TypeOK
  <1>4. TypeOK'
    BY <1>1, <1>2, <1>3 DEF TypeOK, WorkerTypes
  <1>5. RowLegal'
    BY <1>1 DEF RowLegal
  <1>6. Numbered'
    <2>1. \A x \in Workers : worker[x].dropped \in Nat
      BY DEF TypeOK
    <2>2. QED
      BY <1>1, <1>2, <2>1 DEF Numbered
  <1>7. Locked'
    BY <1>1, <1>2 DEF Locked, Numbered, Storing
  <1>8. (edits = 0 => Safe)'
    <2>1. \A u \in Users : user[u].seen.file # files'
      BY <1>1 DEF Numbered
    <2>2. files' \in store' /\ store \subseteq store'
      BY <1>1
    <2>3. \A x \in Workers : worker'[x].dropped = worker[x].dropped
      BY <1>2
    <2>4. QED
      BY <1>1, <1>2, <2>1, <2>2, <2>3 DEF Safe, Storing
  <1>9. QED
    BY <1>4, <1>5, <1>6, <1>7, <1>8

(* The storage fails: the worker goes on knowing what it has deleted.      *)
LEMMA StoreFailsStep ==
    ASSUME IInv, NEW w \in Workers, StoreFails(w)
    PROVE  IInv'
  <1> USE DEF IInv
  <1>1. /\ rowHolder = w /\ rowHolder' = NoWorker
        /\ UNCHANGED <<row, store, files, tasks, user, calls, edits, deaths, lost, widowed>>
    BY DEF StoreFails, Locked, storage, bounds
  <1>2. /\ worker' \in [Workers -> WorkerTypes]
        /\ \A x \in Workers : /\ ~Storing(worker'[x])
                              /\ worker'[x].dropped = worker[x].dropped
    <2> DEFINE next == [worker[w] EXCEPT !.pc = "failing"]
    <2>1. worker[w] \in WorkerTypes /\ worker \in [Workers -> WorkerTypes]
      BY DEF TypeOK, WorkerTypes
    <2>2. next \in WorkerTypes /\ ~Storing(next) /\ next.dropped = worker[w].dropped
      BY <2>1 DEF WorkerTypes, Storing
    <2>3. worker' = [worker EXCEPT ![w] = next]
      BY DEF StoreFails
    <2>4. \A x \in Workers \ {w} : ~Storing(worker[x])
      BY <1>1 DEF Locked, Storing
    <2> HIDE DEF next
    <2>5. QED
      BY <2>1, <2>2, <2>3, <2>4
  <1>3. TypeOK'
    BY <1>1, <1>2 DEF TypeOK, WorkerTypes
  <1>4. RowLegal' /\ Numbered'
    BY <1>1, <1>2 DEF RowLegal, Numbered
  <1>5. Locked'
    BY <1>1, <1>2, JobAssumption DEF Locked, Storing
  <1>6. (edits = 0 => Safe)'
    BY <1>1, <1>2 DEF Safe, Storing
  <1>7. QED
    BY <1>3, <1>4, <1>5, <1>6

LEMMA FinishStep ==
    ASSUME IInv, NEW w \in Workers, Finish(w)
    PROVE  IInv'
  <1> USE DEF IInv
  <1>1. /\ row \in Rows /\ worker[w] \in WorkerTypes /\ worker[w].file \in Nat
        /\ row.file \in Nat /\ files \in Nat
        /\ worker[w].file <= files /\ worker[w].file # NoFile
        /\ rowHolder = w /\ rowHolder' = NoWorker
        /\ worker[w].pc = "storing"
    BY DEF Finish, TypeOK, WorkerTypes, Rows, Locked, NoFile
  <1>2. /\ Completed(w) \in Rows
        /\ Completed(w).file = worker[w].file /\ Completed(w).status = "COMPLETED"
    <2>1. "COMPLETED" \in Statuses \cup {Gone}
      BY StatusNames
    <2>2. QED
      BY <1>1, <2>1 DEF Completed, Rows
  <1>3. PICK x \in WorkerTypes :
          ~Storing(x) /\ x.dropped <= files /\ worker' = [worker EXCEPT ![w] = x]
    <2>1. CASE worker' = [worker EXCEPT ![w] = IdleWorker]
      <3>1. IdleWorker \in WorkerTypes /\ IdleWorker.dropped <= files
        BY <1>1, IdleTypes, IdleHasNothing
      <3>2. QED
        BY <2>1, <3>1, IdleHasNothing
    <2>2. CASE worker' = [worker EXCEPT ![w].pc = "failing", ![w].file = NoFile]
      <3> DEFINE x == [worker[w] EXCEPT !.pc = "failing", !.file = NoFile]
      <3>1. x \in WorkerTypes /\ ~Storing(x) /\ x.dropped = worker[w].dropped
        BY <1>1 DEF WorkerTypes, NoFile, Storing
      <3>2. worker' = [worker EXCEPT ![w] = x]
        BY <2>2
      <3>3. QED
        BY <3>1, <3>2 DEF Numbered
    <2>3. QED
      BY <2>1, <2>2 DEF Finish
  <1>4. /\ worker' \in [Workers -> WorkerTypes]
        /\ \A v \in Workers : ~Storing(worker'[v])
        /\ \A v \in Workers : worker'[v].dropped <= files
    BY <1>1, <1>3 DEF TypeOK, WorkerTypes, Locked, Storing, Numbered
  <1>5. \/ row' = row /\ ~Valid(Completed(w))
        \/ row' = Completed(w) /\ Valid(Completed(w))
    BY DEF Finish
  <1>6. TypeOK'
    BY <1>1, <1>2, <1>4, <1>5 DEF Finish, TypeOK, WorkerTypes, storage, bounds
  <1>7. RowLegal'
    BY <1>5 DEF RowLegal
  <1>8. Numbered'
    BY <1>1, <1>2, <1>4, <1>5 DEF Finish, Numbered, storage
  <1>9. Locked'
    BY <1>1, <1>4, JobAssumption DEF Locked, Storing
  <1>10. ~Valid(Completed(w)) => row.status # "COMPLETED"
    BY <1>1 DEF RowLegal, Valid, Completed, Rows, Gone
  <1>11. (edits = 0 => Safe)'
    <2>1. CASE row' = row /\ ~Valid(Completed(w))
      BY <1>4, <1>10, <2>1 DEF Finish, Safe, Storing, storage, bounds
    <2>2. CASE row' = Completed(w)
      BY <1>1, <1>2, <1>4, <2>2 DEF Finish, Safe, Storing, storage, bounds
    <2>3. QED
      BY <1>5, <2>1, <2>2
  <1>12. QED
    BY <1>6, <1>7, <1>8, <1>9, <1>11

LEMMA RecordFailureStep ==
    ASSUME IInv, NEW w \in Workers, RecordFailure(w)
    PROVE  IInv'
  <1> USE DEF IInv
  <1>1. row \in Rows /\ Failed \in Rows /\ Failed.file = row.file /\ Failed.status = "FAILED"
    <2>1. row \in Rows /\ "FAILED" \in Statuses \cup {Gone}
      BY StatusNames DEF TypeOK
    <2>2. QED
      BY <2>1 DEF Failed, Rows
  <1>2. \/ row' = row /\ (row.status = Gone \/ ~Valid(Failed))
        \/ row' = Failed /\ Valid(Failed)
    BY DEF RecordFailure
  <1>3. row' \in Rows /\ row'.file = row.file /\ row'.status \in {row.status, "FAILED"}
    BY <1>1, <1>2
  <1>4. row'.status # "COMPLETED"
    BY <1>1, <1>2 DEF RowLegal, Valid, Failed, Rows, Gone
  <1>5. /\ worker' \in [Workers -> WorkerTypes]
        /\ \A x \in Workers : ~Storing(worker[x]) /\ ~Storing(worker'[x])
        /\ \A x \in Workers : worker'[x] = worker[x] \/ worker'[x].dropped = NoFile
    BY IdleTypes, JobAssumption
       DEF RecordFailure, TypeOK, WorkerTypes, Locked, IdleWorker, Storing
  <1>6. TypeOK'
    BY <1>3, <1>5 DEF RecordFailure, TypeOK, WorkerTypes, storage, bounds
  <1>7. RowLegal'
    BY <1>2 DEF RowLegal
  <1>8. Numbered'
    BY <1>3, <1>5 DEF RecordFailure, Numbered, storage, NoFile, TypeOK
  <1>9. Locked'
    BY <1>5, JobAssumption DEF RecordFailure, Locked, Storing
  <1>10. (edits = 0 => Safe)'
    BY <1>3, <1>4, <1>5 DEF RecordFailure, Safe, Storing, storage, bounds
  <1>11. QED
    BY <1>6, <1>7, <1>8, <1>9, <1>10

LEMMA DieStep ==
    ASSUME IInv, NEW w \in Workers, Die(w)
    PROVE  IInv'
  <1> USE DEF IInv
  <1>1. deaths' \in 0 .. MaxDeaths
    BY JobAssumption DEF Die, TypeOK
  <1>2. /\ worker' \in [Workers -> WorkerTypes]
        /\ worker'[w] = IdleWorker /\ \A x \in Workers \ {w} : worker'[x] = worker[x]
    BY IdleTypes DEF Die, TypeOK, WorkerTypes
  <1>3. rowHolder' \in Workers \cup {NoWorker} /\ rowHolder' # w
    BY JobAssumption DEF Die, TypeOK
  <1>4. worker[w].dropped \in 0 .. files /\ files \in Nat
    BY DEF TypeOK, Numbered
  <1>5. TypeOK'
    <2>1. widowed' \subseteq 1 .. files
      <3>1. {worker[w].dropped} \ {NoFile} \subseteq 1 .. files
        BY <1>4 DEF NoFile
      <3>2. widowed \subseteq 1 .. files
        BY DEF TypeOK
      <3>3. widowed' = widowed \cup ({worker[w].dropped} \ {NoFile})
        BY DEF Die
      <3>4. QED
        BY <3>1, <3>2, <3>3
    <2>2. QED
      BY <1>1, <1>2, <1>3, <2>1 DEF Die, TypeOK, WorkerTypes, storage
  <1>6. RowLegal' /\ Numbered'
    BY <1>2, <1>4 DEF Die, RowLegal, Numbered, storage, IdleWorker, NoFile
  <1>7. Locked'
    BY <1>2, <1>3, JobAssumption DEF Die, Locked, storage, IdleWorker
  <1>8. (edits = 0 => Safe)'
    BY <1>2 DEF Die, Safe, storage, IdleWorker
  <1>9. QED
    BY <1>5, <1>6, <1>7, <1>8

-----------------------------------------------------------------------------
(* The steps of requests.                                                  *)

LEMMA GetObjectStep ==
    ASSUME IInv, NEW u \in Users, NEW op \in Ops, NEW p \in Params, GetObject(u, op, p)
    PROVE  IInv'
  <1> USE DEF IInv
  <1> DEFINE x == [op |-> op, seen |-> row, new |-> p]
  <1>1. x \in UserTypes
    BY DEF TypeOK, UserTypes
  <1>2. /\ user \in [Users -> UserTypes] /\ user' \in [Users -> UserTypes]
        /\ user'[u].op = op /\ user'[u].seen = row
        /\ \A v \in Users \ {u} : user'[v] = user[v]
    BY <1>1 DEF GetObject, TypeOK, UserTypes
  <1>3. calls' \in 0 .. MaxCalls
    BY JobAssumption DEF GetObject, TypeOK
  <1>4. edits' \in 0 .. MaxEdits /\ (op = "edit" => edits' # 0) /\ (op # "edit" => edits' = edits)
    BY JobAssumption DEF GetObject, TypeOK
  <1>5. TypeOK'
    BY <1>2, <1>3, <1>4 DEF GetObject, TypeOK, UserTypes, storage
  <1>6. RowLegal'
    BY DEF GetObject, RowLegal
  <1>7. Numbered'
    BY <1>2 DEF GetObject, Allowed, Numbered, storage
  <1>8. Locked'
    BY DEF GetObject, Locked, storage
  <1>9. (edits = 0 => Safe)'
    <2>1. CASE op = "edit"
      BY <1>4, <2>1
    <2>2. CASE op # "edit"
      <3>1. row.status # "COMPLETED"
        BY <2>2 DEF GetObject, Allowed, Ops
      <3>2. \A w \in Workers : worker[w].pc = "storing" => row.file # worker[w].file
        <4>1. \A w \in Workers : row.file \in Nat /\ worker[w].file \in Nat
          BY DEF TypeOK, Rows
        <4>2. QED
          BY <4>1 DEF Locked
      <3>3. QED
        BY <1>2, <1>4, <2>2, <3>1, <3>2 DEF GetObject, Safe, storage
    <2>3. QED
      BY <2>1, <2>2
  <1>10. QED
    BY <1>5, <1>6, <1>7, <1>8, <1>9

LEMMA DeleteFileStep ==
    ASSUME IInv, NEW u \in Users, DeleteFile(u)
    PROVE  IInv'
  <1> USE DEF IInv
  <1>1. user \in [Users -> UserTypes] /\ user[u].seen \in Rows /\ user[u].seen.file \in Nat
    BY DEF TypeOK, UserTypes, Rows
  <1> DEFINE s == [user[u].seen EXCEPT !.file = NoFile]
  <1>2. s \in Rows /\ s.file = NoFile /\ s.status = user[u].seen.status /\ NoFile \in Nat
    BY <1>1 DEF Rows, NoFile
  <1>3. user' = [user EXCEPT ![u] = [user[u] EXCEPT !.seen = s]]
    BY <1>1 DEF DeleteFile, UserTypes
  <1> HIDE DEF s
  <1>4. /\ user' \in [Users -> UserTypes]
        /\ user'[u].op = user[u].op /\ user'[u].seen.file = NoFile
        /\ user'[u].seen.status = user[u].seen.status
        /\ \A v \in Users \ {u} : user'[v] = user[v]
    BY <1>1, <1>2, <1>3 DEF UserTypes
  <1>5. TypeOK'
    BY <1>4 DEF DeleteFile, TypeOK, UserTypes, bounds
  <1>6. RowLegal' /\ Locked'
    BY DEF DeleteFile, RowLegal, Locked
  <1>7. Numbered'
    BY <1>4 DEF DeleteFile, Numbered, NoFile, TypeOK
  <1>8. (edits = 0 => Safe)'
    BY <1>4 DEF DeleteFile, Safe, bounds
  <1>9. QED
    BY <1>5, <1>6, <1>7, <1>8

(* A request that ends has nothing to delete any more.                     *)
LEMMA RequestEnds ==
    ASSUME TypeOK, NEW u \in Users, user' = [user EXCEPT ![u] = IdleUser(user[u].new)]
    PROVE  /\ user' \in [Users -> UserTypes]
           /\ user'[u].op = "idle" /\ user'[u].seen.file = NoFile
           /\ \A v \in Users \ {u} : user'[v] = user[v]
  <1>1. user \in [Users -> UserTypes] /\ user[u].new \in Params
    BY DEF TypeOK, UserTypes
  <1>2. IdleUser(user[u].new) \in UserTypes
    BY <1>1, IdleTypes
  <1>3. IdleUser(user[u].new).op = "idle" /\ IdleUser(user[u].new).seen.file = NoFile
    BY DEF IdleUser, Row
  <1>4. QED
    BY <1>1, <1>2, <1>3

(* A save: what is written is legal, and offers no file in a job that has  *)
(* not been edited.                                                        *)
LEMMA SaveStep ==
    ASSUME IInv, NEW u \in Users, NEW op \in Ops, Saving(u, op),
           row' \in Rows, tasks' \in Nat, lost' \in 0 .. MaxLost,
           RowLegal',
           row'.file \in {row.file, user[u].seen.file},
           op # "edit" => row'.status = row.status \/ row'.status # "COMPLETED",
           op # "edit" => row'.file = row.file \/ row'.file = NoFile,
           UNCHANGED <<rowHolder, storage, worker, calls, edits, deaths, widowed>>
    PROVE  IInv'
  <1> USE DEF IInv
  <1>1. /\ user' \in [Users -> UserTypes]
        /\ user'[u].op = "idle" /\ user'[u].seen.file = NoFile
        /\ \A v \in Users \ {u} : user'[v] = user[v]
    BY RequestEnds DEF Saving
  <1>2. TypeOK'
    BY <1>1 DEF TypeOK, UserTypes, storage
  <1>3. Numbered'
    BY <1>1 DEF Numbered, storage, NoFile, TypeOK
  <1>4. rowHolder = NoWorker /\ \A w \in Workers : ~Storing(worker[w])
    BY JobAssumption DEF Saving, Locked, Storing
  <1>5. Locked'
    BY <1>4, JobAssumption DEF Saving, Locked
  <1>6. (edits = 0 => Safe)'
    <2>1. CASE op = "edit"
      BY <2>1 DEF Saving, Safe
    <2>2. CASE op # "edit"
      BY <1>1, <1>4, <2>2 DEF Saving, Safe, Storing, storage
    <2>3. QED
      BY <2>1, <2>2
  <1>7. QED
    BY <1>2, <1>3, <1>5, <1>6

LEMMA EnqueueStep ==
    ASSUME IInv, NEW u \in Users, Enqueue(u)
    PROVE  IInv'
  <1> DEFINE seen == user[u].seen
             job == IF seen.status = "FAILED" THEN Reset(seen) ELSE seen
  <1>1. /\ row \in Rows /\ seen \in Rows /\ RowLegal
        /\ tasks \in Nat /\ lost \in 0 .. MaxLost
    BY DEF IInv, TypeOK
  <1>2. /\ user[u].op = "enqueue" /\ seen.file = NoFile /\ "enqueue" \in Ops
        /\ Saving(u, "enqueue")
    BY DEF Enqueue, Saving, DropsFile, Ops
  <1>3. job \in Rows /\ job.file = NoFile
    BY <1>1, <1>2, ResetType DEF Reset, Rows
  <1>4. \/ row' = row
        \/ row' = [job EXCEPT !.params = row.params] /\ Valid(job) /\ row.status # Gone
    BY DEF Enqueue
  <1>5. [job EXCEPT !.params = row.params] \in Rows
    BY <1>1, <1>3 DEF Rows
  <1>6. row' \in Rows /\ RowLegal'
    BY <1>1, <1>3, <1>4, <1>5 DEF RowLegal, Valid, Rows
  <1>7. tasks' \in Nat /\ lost' \in 0 .. MaxLost
    BY <1>1, JobAssumption DEF Enqueue
  <1>8. row'.file = row.file \/ row'.file = NoFile
    BY <1>3, <1>4 DEF Rows
  <1>9. row'.status = row.status \/ row'.status # "COMPLETED"
    <2>1. seen.status \in {"PENDING", "FAILED"}
      BY <1>2 DEF IInv, Numbered
    <2>2. job.status = "PENDING"
      BY <1>1, <2>1 DEF Reset, Rows
    <2>3. QED
      BY <1>3, <1>4, <2>2 DEF Rows
  <1>10. QED
    BY <1>2, <1>6, <1>7, <1>8, <1>9, SaveStep DEF Enqueue

LEMMA CancelStep ==
    ASSUME IInv, NEW u \in Users, Cancel(u)
    PROVE  IInv'
  <1> DEFINE job == [user[u].seen EXCEPT !.status = "CANCELLED", !.started = TRUE,
                                         !.completed = TRUE]
  <1>1. /\ row \in Rows /\ user[u].seen \in Rows /\ RowLegal
        /\ tasks \in Nat /\ lost \in 0 .. MaxLost
    BY DEF IInv, TypeOK
  <1>2. /\ user[u].seen.file = NoFile /\ "cancel" \in Ops
        /\ Saving(u, "cancel")
    BY DEF Cancel, Saving, DropsFile, Ops
  <1>3. job \in Rows /\ job.file = NoFile /\ job.status = "CANCELLED"
    <2>1. "CANCELLED" \in Statuses \cup {Gone}
      BY StatusNames
    <2>2. QED
      BY <1>1, <1>2, <2>1 DEF Rows
  <1>4. \/ row' = row
        \/ row' = [job EXCEPT !.params = row.params] /\ Valid(job)
    BY DEF Cancel
  <1>5. row' \in Rows /\ RowLegal'
    BY <1>1, <1>3, <1>4 DEF Cancel, RowLegal, Valid, Rows
  <1>6. row'.file = row.file \/ row'.file = NoFile
    BY <1>3, <1>4 DEF Rows
  <1>7. row'.status = row.status \/ row'.status # "COMPLETED"
    BY <1>3, <1>4 DEF Rows
  <1>8. QED
    BY <1>1, <1>2, <1>5, <1>6, <1>7, SaveStep DEF Cancel, bounds

LEMMA EditStep ==
    ASSUME IInv, NEW u \in Users, Edit(u)
    PROVE  IInv'
  <1> DEFINE seen == user[u].seen
             changed == user[u].new # seen.params
             base == IF changed /\ seen.status \in Final THEN Reset(seen) ELSE seen
             job == [base EXCEPT !.params = user[u].new]
  <1>1. /\ row \in Rows /\ seen \in Rows /\ RowLegal /\ user[u].new \in Params
        /\ tasks \in Nat /\ lost \in 0 .. MaxLost
    BY DEF IInv, TypeOK
  <1>2. "edit" \in Ops /\ Saving(u, "edit")
    BY DEF Edit, Ops
  <1>3. base \in Rows /\ base.file = seen.file
    BY <1>1, ResetType DEF Reset, Rows
  <1>4. job \in Rows /\ job.file = seen.file
    BY <1>1, <1>3 DEF Rows
  <1>5. \/ row' = row
        \/ row' = job /\ Valid(job)
    BY DEF Edit
  <1>6. row' \in Rows /\ RowLegal' /\ row'.file \in {row.file, user[u].seen.file}
    BY <1>1, <1>4, <1>5 DEF RowLegal
  <1>7. QED
    BY <1>1, <1>2, <1>6, SaveStep DEF Edit, bounds

LEMMA DestroyStep ==
    ASSUME IInv, Destroy
    PROVE  IInv'
  <1> USE DEF IInv
  <1>1. row \in Rows /\ row' \in Rows /\ row'.status = Gone /\ row'.file = row.file
    BY DEF Destroy, TypeOK, Rows
  <1>2. calls' \in 0 .. MaxCalls
    BY JobAssumption DEF Destroy, TypeOK
  <1>3. TypeOK'
    BY <1>1, <1>2 DEF Destroy, TypeOK, storage
  <1>4. RowLegal' /\ Numbered'
    BY <1>1 DEF Destroy, RowLegal, Numbered, storage
  <1>5. Locked'
    BY JobAssumption DEF Destroy, Locked
  <1>6. (edits = 0 => Safe)'
    BY <1>1 DEF Destroy, Safe, storage, Gone
  <1>7. QED
    BY <1>3, <1>4, <1>5, <1>6

LEMMA AbortStep ==
    ASSUME IInv, NEW u \in Users, Abort(u)
    PROVE  IInv'
  <1> USE DEF IInv
  <1>1. /\ user' \in [Users -> UserTypes]
        /\ user'[u].op = "idle" /\ user'[u].seen.file = NoFile
        /\ \A v \in Users \ {u} : user'[v] = user[v]
    BY RequestEnds DEF Abort
  <1>2. deaths' \in 0 .. MaxDeaths
    BY JobAssumption DEF Abort, TypeOK
  <1>3. TypeOK'
    BY <1>1, <1>2 DEF Abort, TypeOK, UserTypes, storage
  <1>4. RowLegal' /\ Locked'
    BY DEF Abort, RowLegal, Locked, storage
  <1>5. Numbered'
    BY <1>1 DEF Abort, Numbered, NoFile, TypeOK, storage
  <1>6. (edits = 0 => Safe)'
    BY <1>1 DEF Abort, Safe, storage
  <1>7. QED
    BY <1>2, <1>3, <1>4, <1>5, <1>6

-----------------------------------------------------------------------------
(* The invariant holds.                                                    *)

LEMMA NextIInv == IInv /\ [Next]_vars => IInv'
  <1> SUFFICES ASSUME IInv, [Next]_vars PROVE IInv'
    OBVIOUS
  <1>1. ASSUME NEW w \in Workers, Generate(w) PROVE IInv'
    BY <1>1, ClaimStep, BuildStep, DropFileStep, StoreFileStep, StoreFailsStep, FinishStep,
       RecordFailureStep
       DEF Generate
  <1>2. ASSUME NEW w \in Workers, Die(w) PROVE IInv'
    BY <1>2, DieStep
  <1>3. ASSUME NEW u \in Users, Request(u) PROVE IInv'
    BY <1>3, GetObjectStep, DeleteFileStep, EnqueueStep, CancelStep, EditStep, AbortStep
       DEF Request, Proceed
  <1>4. CASE Destroy
    BY <1>4, DestroyStep
  <1>5. CASE UNCHANGED vars
    BY <1>5 DEF vars, IInv, TypeOK, RowLegal, Numbered, Locked, Safe
  <1>6. QED
    BY <1>1, <1>2, <1>3, <1>4, <1>5 DEF Next

LEMMA Invariance == Spec => []IInv
  BY InitIInv, NextIInv, PTL DEF Spec

-----------------------------------------------------------------------------
(* What follows from it.                                                   *)

\* Rows, files, queue and locals keep their types.
THEOREM JobTypes == Spec => []TypeOK
  <1>1. IInv => TypeOK
    BY DEF IInv
  <1>2. QED
    BY <1>1, Invariance, PTL

\* The row is legal in the sense of ReportJob.clean at every moment: validating
\* the object in memory is enough, because the fields each update_fields names
\* are all the fields clean relates.
THEOREM RowStaysLegal == Spec => []RowLegal
  <1>1. IInv => RowLegal
    BY DEF IInv
  <1>2. QED
    BY <1>1, Invariance, PTL

\* However many generations, cancellations and deletions of an unedited job overlap, no
\* request ever deletes the file of the completed job; a worker that deletes it replaces
\* it or, when file.save raises, records FAILED (generate_report_job), unless it dies.
THEOREM DownloadsWork == Spec => []DownloadWorks
  <1>1. IInv => DownloadWorks
    BY DEF IInv, Safe, DownloadWorks
  <1>2. QED
    BY <1>1, Invariance, PTL

\* The second look under the row's lock works: a cancelled job is never started
\* or completed by a worker.
THEOREM CancelStopsWorkers == Spec => CancelStops
  <1>1. IInv /\ [Next]_vars =>
            [worker' # worker /\ row.status = "CANCELLED" =>
                row'.status \in {"CANCELLED", "FAILED"}]_vars
    <2> SUFFICES ASSUME IInv, Next, worker' # worker, row.status = "CANCELLED"
                 PROVE  row'.status \in {"CANCELLED", "FAILED"}
      BY DEF vars
    <2>1. PICK w \in Workers : Generate(w) \/ Die(w)
      BY DEF Next, Request, Proceed, GetObject, DeleteFile, Enqueue, Cancel, Edit,
             Destroy, Abort
    <2>2. ~Finish(w)
      BY DEF Finish, IInv, Locked
    <2>3. CASE RecordFailure(w)
      <3>1. row \in Rows
        BY DEF IInv, TypeOK
      <3>2. QED
        BY <2>3, <3>1 DEF RecordFailure, Failed, Rows
    <2>4. CASE ~RecordFailure(w)
      BY <2>1, <2>2, <2>4
         DEF Generate, Claim, BuildFails, FindCancelled, FindDeleted, DropFile, StoreFile,
             StoreFails, Die
    <2>5. QED
      BY <2>3, <2>4
  <1>2. QED
    BY <1>1, Invariance, PTL DEF Spec, CancelStops

-----------------------------------------------------------------------------
(* The schedules that MCReportJob composes with the job, for any schedules,   *)
(* workers, requests and delivery times, and without their bounds.            *)
(*                                                                            *)
(* What the row says is not what protects it: claims, deliveries and edits    *)
(* overwrite each other.  But each of them writes a last_run_at that it read  *)
(* or that ends a window of its own, and all that lies before any of these is *)
(* reported, given up, or on its way.                                         *)

AnyWindows == [schedule : Schedules, from : Int, to : Nat]
AnyRows == [active : BOOLEAN, at : DeliveryTimes, next : Int, last : Int]
Works == [pc : {"building", "saving", "editing"}, window : AnyWindows, seen : AnyRows]

\* The types, without the bounds.
Types ==
    /\ now \in Int /\ now >= Planned!Day
    /\ schedule \in [Schedules -> AnyRows]
    /\ claimed \subseteq AnyWindows /\ queue \in Seq(AnyWindows)
    /\ proc \in [Planned!Processes -> {Planned!Idle} \cup Works]
    /\ reach \in [Schedules -> Int] /\ taken \in [Schedules -> Int]
    /\ settled \in [Schedules -> SUBSET Int] /\ skipped \in [Schedules -> SUBSET Int]

\* calculate_next_run_at returns a time.
LEMMA NextRunType ==
    ASSUME Planned!ScheduleAssumption, NEW reference \in Int, NEW at \in DeliveryTimes
    PROVE  Planned!NextRun(reference, at) \in Int
<1>1. at \in Int
  BY DEF Planned!ScheduleAssumption
<1>2. reference \div Planned!Day \in Int
  BY DEF Planned!Day
<1>. QED BY <1>1, <1>2 DEF Planned!NextRun, Planned!Day

\* What a busy process is at.
LEMMA WorkType ==
    ASSUME Types, NEW p \in Planned!Processes, proc[p] # Planned!Idle
    PROVE  /\ proc[p] \in Works
           /\ proc[p].window \in AnyWindows /\ proc[p].seen \in AnyRows
           /\ proc[p].window.schedule \in Schedules
BY DEF Types, Works, AnyWindows

\* The window of a claim or of a run at once, and what it leaves out.
LEMMA WindowType ==
    ASSUME Types, NEW s \in Schedules
    PROVE  /\ Planned!WindowOf(s, schedule[s]) \in AnyWindows
           /\ Planned!Skips(s) \in SUBSET Int
<1>1. now \in Nat /\ schedule[s] \in AnyRows /\ reach[s] \in Int
  BY DEF Types, Planned!Day
<1>2. now - Planned!Day \in Int /\ schedule[s].last \in Int
  BY <1>1 DEF AnyRows, Planned!Day
<1>. QED BY <1>1, <1>2
         DEF AnyWindows, Planned!WindowOf, Planned!Window, Planned!Skips

LEMMA BusyType ==
    ASSUME NEW pc \in {"building", "saving", "editing"}, NEW w \in AnyWindows, NEW r \in AnyRows
    PROVE  Planned!Busy(pc, w, r) \in Works
BY DEF Planned!Busy, Works

\* The row an edit or a delivery is going to save.
LEMMA RefreshedType ==
    ASSUME Planned!ScheduleAssumption, Types, NEW r \in AnyRows, NEW stored \in AnyRows
    PROVE  /\ Planned!Refreshed(r, stored) \in AnyRows
           /\ Planned!Refreshed(r, stored).last = r.last
<1>1. r.at \in DeliveryTimes /\ now \in Int
  BY DEF AnyRows, Types
<1>2. Planned!NextRun(now, r.at) \in Int
  BY <1>1, NextRunType
<1>. QED BY <1>2 DEF Planned!Refreshed, AnyRows

LEMMA DeliveredType ==
    ASSUME Planned!ScheduleAssumption, Types, NEW p \in Planned!Processes, proc[p] # Planned!Idle
    PROVE  /\ Planned!Delivered(p) \in AnyRows
           /\ Planned!Delivered(p).last = proc[p].window.to
<1>1. /\ proc[p].window \in AnyWindows /\ proc[p].seen \in AnyRows
      /\ proc[p].window.schedule \in Schedules /\ proc[p].window.to \in Int
  BY WorkType DEF AnyWindows
<1>2. Planned!NextRun(proc[p].window.to, proc[p].seen.at) \in Int
  BY <1>1, NextRunType DEF AnyRows
<1>3. [proc[p].seen EXCEPT !.last = proc[p].window.to,
                           !.next = Planned!NextRun(proc[p].window.to,
                               proc[p].seen.at)] \in AnyRows
  BY <1>1, <1>2 DEF AnyRows
<1>4. schedule[proc[p].window.schedule] \in AnyRows
  BY <1>1 DEF Types
<1>. QED BY <1>1, <1>3, <1>4, RefreshedType DEF Planned!Delivered, AnyRows

LEMMA EditedType ==
    ASSUME Planned!ScheduleAssumption, Types, NEW p \in Planned!Processes, proc[p] # Planned!Idle,
           NEW at \in DeliveryTimes, NEW active \in BOOLEAN
    PROVE  LET r == Planned!Refreshed([proc[p].seen EXCEPT !.at = at, !.active = active],
                              schedule[proc[p].window.schedule])
           IN  r \in AnyRows /\ r.last = proc[p].seen.last
<1>1. proc[p].seen \in AnyRows /\ proc[p].window.schedule \in Schedules
  BY WorkType
<1>2. [proc[p].seen EXCEPT !.at = at, !.active = active] \in AnyRows
  BY <1>1 DEF AnyRows
<1>3. schedule[proc[p].window.schedule] \in AnyRows
  BY <1>1 DEF Types
<1>. QED BY <1>1, <1>2, <1>3, RefreshedType DEF AnyRows

\* A window that is given up or reported.
LEMMA SettleType ==
    ASSUME Types, NEW w \in AnyWindows
    PROVE  /\ Planned!Settle(w) \in [Schedules -> SUBSET Int]
           /\ \A s \in Schedules : settled[s] \subseteq Planned!Settle(w)[s]
           /\ Planned!Ticks(w) \subseteq Planned!Settle(w)[w.schedule]
BY DEF Types, Planned!Settle, Planned!Ticks, AnyWindows

LEMMA RunType ==
    ASSUME Planned!ScheduleAssumption, Types, NEW s \in Schedules
    PROVE  Planned!Run(schedule[s]) \in AnyRows /\ Planned!Run(schedule[s]).last = now
<1>1. schedule[s] \in AnyRows /\ schedule[s].at \in DeliveryTimes /\ now \in Int
  BY DEF Types, AnyRows
<1>2. Planned!NextRun(now, schedule[s].at) \in Int
  BY <1>1, NextRunType
<1>. QED BY <1>1, <1>2 DEF Planned!Run, AnyRows

LEMMA Initially == ASSUME Planned!ScheduleAssumption, Planned!Init PROVE Types
<1>1. \A t \in DeliveryTimes : Planned!NextRun(Planned!Day, t) \in Int
  BY NextRunType DEF Planned!Day
<1>2. \A t \in DeliveryTimes :
         [active |-> TRUE, at |-> t, next |-> Planned!NextRun(Planned!Day, t),
             last |-> Planned!NoRun] \in AnyRows
  BY <1>1 DEF AnyRows, Planned!NoRun
<1>3. schedule \in [Schedules -> AnyRows]
  BY <1>2 DEF Planned!Init
<1>4. queue \in Seq(AnyWindows)
  BY DEF Planned!Init
<1>5. proc \in [Planned!Processes -> {Planned!Idle} \cup Works]
  BY DEF Planned!Init
<1>. QED BY <1>3, <1>4, <1>5 DEF Planned!Init, Types, Planned!Day, Planned!NoRun

LEMMA TypesStay ==
    ASSUME Planned!ScheduleAssumption, Types, [Planned!Next]_(Planned!vars)
    PROVE  Types'
<1>1. CASE Planned!Tick
  <2>1. now' \in Int /\ now' >= Planned!Day
    BY <1>1 DEF Types, Planned!Tick, Planned!Day
  <2>. QED BY <1>1, <2>1 DEF Types, Planned!Tick, Planned!claims, Planned!windows
<1>2. CASE Planned!Claim
  <2>1. claimed' \subseteq AnyWindows /\ schedule' \in [Schedules -> AnyRows]
    BY <1>2, WindowType, RunType DEF Planned!Claim, Planned!Due, Types
  <2>2. reach' \in [Schedules -> Int] /\ skipped' \in [Schedules -> SUBSET Int]
    <3>1. \A s \in Schedules : skipped[s] \cup Planned!Skips(s) \in SUBSET Int
      BY WindowType DEF Types
    <3>. QED BY <1>2, <3>1 DEF Planned!Claim, Types
  <2>. QED BY <1>2, <2>1, <2>2 DEF Planned!Claim, Types
<1>3. CASE Planned!ClaimRolledBack \/ UNCHANGED Planned!vars
  BY <1>3 DEF Types, Planned!ClaimRolledBack, Planned!vars, Planned!bounds, Planned!claims,
              Planned!windows
<1>4. ASSUME NEW w \in claimed, Planned!Publish(w) \/ Planned!PublishLost(w) PROVE Types'
  <2>1. w \in AnyWindows
    BY DEF Types
  <2>2. claimed' \subseteq AnyWindows
    BY <1>4 DEF Types, Planned!Publish, Planned!PublishLost
  <2>3. queue' \in Seq(AnyWindows)
    <3>1. queue \in Seq(AnyWindows)
      BY DEF Types
    <3>2. Append(queue, w) \in Seq(AnyWindows)
      BY <2>1, <3>1
    <3>3. queue' = Append(queue, w) \/ queue' = queue
      BY <1>4 DEF Planned!Publish, Planned!PublishLost
    <3>. QED BY <3>1, <3>2, <3>3
  <2>4. settled' \in [Schedules -> SUBSET Int]
    BY <1>4, <2>1, SettleType DEF Types, Planned!Publish, Planned!PublishLost
  <2>5. UNCHANGED <<now, schedule, proc, reach, skipped, taken>>
    BY <1>4 DEF Planned!Publish, Planned!PublishLost, Planned!claims, Planned!windows
  <2>. QED BY <2>2, <2>3, <2>4, <2>5 DEF Types
<1>5. ASSUME NEW p \in Planned!Processes, Planned!Take(p) PROVE Types'
  <2>1. Head(queue) \in AnyWindows /\ Tail(queue) \in Seq(AnyWindows)
    BY <1>5 DEF Types, Planned!Take
  <2>2. Head(queue).schedule \in Schedules
    BY <2>1 DEF AnyWindows
  <2>3. Planned!Busy("building", Head(queue), schedule[Head(queue).schedule]) \in Works
    BY <2>1, <2>2, BusyType DEF Types
  <2>4. /\ proc' \in [Planned!Processes -> {Planned!Idle} \cup Works]
        /\ settled' \in [Schedules -> SUBSET Int]
    BY <1>5, <2>1, <2>3, SettleType DEF Types, Planned!Take
  <2>. QED BY <1>5, <2>1, <2>4 DEF Types, Planned!Take, Planned!claims, Planned!windows
<1>6. ASSUME NEW p \in Planned!Processes, NEW s \in Schedules, Planned!RunNow(p,
             s) \/ Planned!Edit(p, s) PROVE Types'
  <2>1. /\ Planned!Busy("building", Planned!WindowOf(s, schedule[s]), schedule[s]) \in Works
        /\ Planned!Busy("editing", Planned!Window(s, now, now), schedule[s]) \in Works
    <3>1. schedule[s] \in AnyRows /\ now \in Nat
      BY DEF Types, Planned!Day
    <3>2. Planned!Window(s, now, now) \in AnyWindows
      BY <3>1 DEF AnyWindows, Planned!Window
    <3>. QED BY <3>1, <3>2, WindowType, BusyType
  <2>2. reach' \in [Schedules -> Int] /\ skipped' \in [Schedules -> SUBSET Int]
    <3>1. skipped[s] \cup Planned!Skips(s) \in SUBSET Int
      BY WindowType DEF Types
    <3>. QED BY <1>6, <3>1 DEF Planned!RunNow, Planned!Edit, Types, Planned!windows
  <2>3. proc' \in [Planned!Processes -> {Planned!Idle} \cup Works]
    BY <1>6, <2>1 DEF Planned!RunNow, Planned!Edit, Types
  <2>. QED BY <1>6, <2>2, <2>3 DEF Planned!RunNow, Planned!Edit, Types, Planned!claims,
                                   Planned!windows
<1>7. ASSUME NEW p \in Planned!Processes, Planned!Deliver(p) \/ Planned!Die(p) PROVE Types'
  <2>1. proc[p] \in Works /\ proc[p].window \in AnyWindows
    BY <1>7, WorkType DEF Planned!Deliver, Planned!Die, Planned!Idle
  <2>2. [proc[p] EXCEPT !.pc = "saving"] \in Works
    BY <2>1 DEF Works
  <2>. QED BY <1>7, <2>1, <2>2, SettleType
              DEF Types, Planned!Deliver, Planned!Die, Planned!bounds, Planned!claims,
                  Planned!windows
<1>8. ASSUME NEW p \in Planned!Processes, Planned!Save(p) PROVE Types'
  <2>1. /\ proc[p] # Planned!Idle /\ proc[p].window.schedule \in Schedules
        /\ Planned!Delivered(p).last \in Int /\ Planned!Delivered(p).next \in Int
    BY <1>8, WorkType, DeliveredType DEF Planned!Save, Planned!Idle, AnyRows
  <2>2. [schedule[proc[p].window.schedule] EXCEPT !.last = Planned!Delivered(p).last,
                                             !.next = Planned!Delivered(p).next] \in AnyRows
    BY <2>1 DEF Types, AnyRows
  <2>3. schedule' \in [Schedules -> AnyRows]
    BY <1>8, <2>2 DEF Types, Planned!Save, Planned!Store
  <2>. QED BY <1>8, <2>3 DEF Types, Planned!Save, Planned!bounds, Planned!claims,
                             Planned!windows
<1>9. ASSUME NEW p \in Planned!Processes, NEW at \in DeliveryTimes, NEW active \in BOOLEAN,
             Planned!SaveEdit(p, at, active)
      PROVE  Types'
  <2> DEFINE s == proc[p].window.schedule
             r == Planned!Refreshed([proc[p].seen EXCEPT !.at = at, !.active = active],
                 schedule[s])
  <2>1. proc[p] # Planned!Idle
    BY <1>9 DEF Planned!SaveEdit, Planned!Idle
  <2>2. r \in AnyRows
    BY <2>1, EditedType, Zenon
  <2>3. Planned!Store(s, r, r)
    BY <1>9 DEF Planned!SaveEdit
  <2>4. schedule' \in [Schedules -> AnyRows]
    <3>. HIDE DEF r, s
    <3>. QED BY <2>2, <2>3 DEF Types, Planned!Store
  <2>. QED BY <1>9, <2>4 DEF Types, Planned!SaveEdit, Planned!bounds, Planned!claims,
                             Planned!windows
<1>. QED BY <1>1, <1>2, <1>3, <1>4, <1>5, <1>6, <1>7, <1>8, <1>9 DEF Planned!Next

-----------------------------------------------------------------------------
(* What is written, and what is under way.                                 *)

\* An unlocked save: every other row stays, this one gets what is saved or stays,
\* and when its last_run_at moves back the schedule is rewound.
LEMMA StoreLast ==
    ASSUME Types, NEW s \in Schedules, NEW old, NEW new, Planned!Store(s, old, new),
           new.last \in Int,
           NEW c \in Schedules
    PROVE  /\ schedule'[c].last = schedule[c].last \/ (c = s /\ schedule'[c].last = new.last)
           /\ c \in rewound' \/ schedule'[c].last >= schedule[c].last
           /\ rewound \subseteq rewound'
<1>1. schedule[c].last \in Int /\ schedule \in [Schedules -> AnyRows]
  BY DEF Types, AnyRows
<1>. QED BY <1>1 DEF Planned!Store

\* What each save writes to last_run_at.
LEMMA SaveStores ==
    ASSUME Planned!ScheduleAssumption, Types, NEW p \in Planned!Processes, Planned!Save(p)
    PROVE  \E old, new : /\ Planned!Store(proc[p].window.schedule, old, new)
                         /\ new.last = proc[p].window.to /\ new.last \in Int
<1> DEFINE s == proc[p].window.schedule
           r == Planned!Delivered(p)
           new == [schedule[s] EXCEPT !.last = r.last, !.next = r.next]
<1>1. proc[p] # Planned!Idle
  BY DEF Planned!Save, Planned!Idle
<1>2. r.last = proc[p].window.to /\ r.last \in Int
  BY <1>1, DeliveredType DEF AnyRows
<1>3. s \in Schedules /\ schedule[s] \in AnyRows
  BY <1>1, WorkType DEF Types
<1>4. new.last = r.last
  BY <1>3 DEF AnyRows
<1>5. Planned!Store(s, r, new)
  BY DEF Planned!Save
<1>. QED BY <1>2, <1>4, <1>5

LEMMA EditStores ==
    ASSUME Planned!ScheduleAssumption, Types, NEW p \in Planned!Processes,
           NEW at \in DeliveryTimes,
           NEW active \in BOOLEAN, Planned!SaveEdit(p, at, active)
    PROVE  \E old, new : /\ Planned!Store(proc[p].window.schedule, old, new)
                         /\ new.last = proc[p].seen.last /\ new.last \in Int
<1> DEFINE s == proc[p].window.schedule
           r == Planned!Refreshed([proc[p].seen EXCEPT !.at = at, !.active = active], schedule[s])
<1>1. proc[p] # Planned!Idle
  BY DEF Planned!SaveEdit, Planned!Idle
<1>2. r \in AnyRows /\ r.last = proc[p].seen.last
  BY <1>1, EditedType, Zenon
<1>3. r.last \in Int
  BY <1>2 DEF AnyRows
<1>4. Planned!Store(s, r, r)
  BY DEF Planned!SaveEdit
<1>. QED BY <1>2, <1>3, <1>4

-----------------------------------------------------------------------------
(* A schedule is claimed twice only after a save moved last_run_at back.   *)

\* Nothing is claimed beyond last_run_at, unless a save moved it back.
ClaimedApart ==
    /\ doubled \subseteq rewound
    /\ \A s \in Schedules : s \in rewound \/ taken[s] <= schedule[s].last

LEMMA ClaimedStays ==
    ASSUME Planned!ScheduleAssumption, Types, ClaimedApart, [Planned!Next]_(Planned!vars)
    PROVE  ClaimedApart'
<1>1. CASE Planned!Claim
  <2>1. \A s \in Planned!Due : schedule'[s].last = now /\ taken'[s] = now
    BY <1>1, RunType DEF Planned!Claim, Planned!Due
  <2>2. \A s \in Schedules \ Planned!Due : schedule'[s] = schedule[s] /\ taken'[s] = taken[s]
    BY <1>1 DEF Planned!Claim
  <2>3. \A s \in Planned!Due : s \in rewound \/ ~(Planned!WindowOf(s,
            schedule[s]).from < taken[s])
    BY DEF ClaimedApart, Types, AnyRows, Planned!WindowOf, Planned!Window, Planned!NoRun,
           Planned!Day, Planned!Due
  <2>4. doubled' \subseteq rewound
    BY <1>1, <2>3 DEF Planned!Claim, ClaimedApart
  <2>5. rewound' = rewound /\ now \in Int
    BY <1>1 DEF Planned!Claim, Types
  <2>. QED BY <2>1, <2>2, <2>4, <2>5 DEF ClaimedApart
<1>2. CASE UNCHANGED <<schedule, taken, doubled, rewound>>
  BY <1>2 DEF ClaimedApart
<1>3. ASSUME NEW s \in Schedules, NEW old, NEW new, Planned!Store(s, old, new), new.last \in Int,
             UNCHANGED <<taken, doubled, now>>, schedule' \in [Schedules -> AnyRows]
      PROVE  ClaimedApart'
  <2>1. \A c \in Schedules : c \in rewound' \/ schedule'[c].last >= schedule[c].last
    BY <1>3, StoreLast
  <2>2. rewound \subseteq rewound'
    BY <1>3, StoreLast
  <2>3. \A c \in Schedules :
            schedule[c].last \in Int /\ schedule'[c].last \in Int /\ taken[c] \in Int
    BY <1>3 DEF Types, AnyRows
  <2>. QED BY <1>3, <2>1, <2>2, <2>3 DEF ClaimedApart
<1>4. ASSUME NEW p \in Planned!Processes, Planned!Save(p) PROVE ClaimedApart'
  <2>1. proc[p].window.schedule \in Schedules
    BY <1>4, WorkType DEF Planned!Save, Planned!Idle
  <2>2. UNCHANGED <<taken, doubled, now>>
    BY <1>4 DEF Planned!Save, Planned!claims
  <2>. QED BY <1>3, <1>4, <2>1, <2>2, SaveStores, TypesStay DEF Types
<1>5. ASSUME NEW p \in Planned!Processes, NEW at \in DeliveryTimes, NEW active \in BOOLEAN,
             Planned!SaveEdit(p, at, active)
      PROVE  ClaimedApart'
  <2>1. proc[p].window.schedule \in Schedules
    BY <1>5, WorkType DEF Planned!SaveEdit, Planned!Idle
  <2>2. UNCHANGED <<taken, doubled, now>>
    BY <1>5 DEF Planned!SaveEdit, Planned!claims
  <2>3. schedule' \in [Schedules -> AnyRows]
    BY TypesStay DEF Types
  <2>4. PICK old, new : /\ Planned!Store(proc[p].window.schedule, old, new)
                        /\ new.last = proc[p].seen.last /\ new.last \in Int
    BY <1>5, EditStores, Zenon
  <2>. QED BY <1>3, <2>1, <2>2, <2>3, <2>4
<1>6. ASSUME NEW w \in claimed, Planned!Publish(w) \/ Planned!PublishLost(w)
      PROVE  UNCHANGED <<schedule, taken, doubled, rewound>>
  BY <1>6 DEF Planned!Publish, Planned!PublishLost, Planned!claims
<1>7. ASSUME NEW p \in Planned!Processes, Planned!Take(p) \/ Planned!Deliver(p) \/ Planned!Die(p)
      PROVE  UNCHANGED <<schedule, taken, doubled, rewound>>
  BY <1>7 DEF Planned!Take, Planned!Deliver, Planned!Die, Planned!claims
<1>8. ASSUME NEW p \in Planned!Processes, NEW s \in Schedules, Planned!RunNow(p,
             s) \/ Planned!Edit(p, s)
      PROVE  UNCHANGED <<schedule, taken, doubled, rewound>>
  BY <1>8 DEF Planned!RunNow, Planned!Edit, Planned!claims
<1>9. Planned!Tick \/ Planned!ClaimRolledBack \/ UNCHANGED Planned!vars =>
          UNCHANGED <<schedule, taken, doubled, rewound>>
  BY DEF Planned!Tick, Planned!ClaimRolledBack, Planned!vars, Planned!claims
<1>. QED BY <1>1, <1>2, <1>4, <1>5, <1>6, <1>7, <1>8, <1>9 DEF Planned!Next

\* A schedule is claimed again for a time it was claimed for only after a save
\* without a lock moved its last_run_at back: claims by themselves, each under the
\* row lock, are never for the same time (claim_due_report_schedules).
THEOREM ClaimedOnce ==
    ASSUME Planned!ScheduleAssumption
    PROVE  Planned!Spec => []Planned!DoubledByRewind
<1>1. Planned!Init => Types /\ ClaimedApart
  <2>1. Planned!Init => ClaimedApart
    BY DEF Planned!Init, ClaimedApart, Planned!NoRun
  <2>. QED BY <2>1, Initially
<1>2. Types /\ ClaimedApart /\ [Planned!Next]_(Planned!vars) => (Types /\ ClaimedApart)'
  BY TypesStay, ClaimedStays
<1>3. ClaimedApart => Planned!DoubledByRewind
  BY DEF ClaimedApart, Planned!DoubledByRewind
<1>. QED BY <1>1, <1>2, <1>3, PTL DEF Planned!Spec

-----------------------------------------------------------------------------
(* What falls between two windows.                                         *)

Points == Schedules \X Int

\* The times that were reported, given up or skipped, or are on their way.
Held == {x \in Points : \/ x[2] \in settled[x[1]] \cup skipped[x[1]]
                        \/ \E w \in Planned!UnderWay :
                             w.schedule = x[1] /\ x[2] \in Planned!Ticks(w)}

\* The times before which nothing is missing.
SafePoints == {x \in Points : \A t \in 0 .. x[2] - 1 : <<x[1], t>> \in Held}

\* Every last_run_at that is stored, or that somebody is going to store, is one, and so
\* is the end of the latest window.  What has no last_run_at never had one, or an edit
\* has set it back.
Ends ==
    /\ \A s \in Schedules :
          /\ <<s, schedule[s].last>> \in SafePoints
          /\ <<s, reach[s]>> \in SafePoints
          /\ schedule[s].last = Planned!NoRun => s \in unset
    /\ \A w \in claimed : <<w.schedule, w.to>> \in SafePoints
    /\ \A i \in DOMAIN queue : <<queue[i].schedule, queue[i].to>> \in SafePoints
    /\ \A p \in Planned!Processes :
          /\ proc[p].pc \in {"building", "saving"} =>
                <<proc[p].window.schedule, proc[p].window.to>> \in SafePoints
          /\ proc[p].pc = "editing" =>
                <<proc[p].window.schedule, proc[p].seen.last>> \in SafePoints

\* A window that leaves is settled.
LEMMA WindowKept ==
    ASSUME Types, [Planned!Next]_(Planned!vars), NEW w \in Planned!UnderWay
    PROVE  \/ w \in Planned!UnderWay'
           \/ w.schedule \in Schedules /\ Planned!Ticks(w) \subseteq settled'[w.schedule]
<1>1. CASE w \in claimed
  <2>1. w \in AnyWindows /\ w.schedule \in Schedules
    BY <1>1 DEF Types, AnyWindows
  <2>2. w \in claimed' \/ Planned!Publish(w) \/ Planned!PublishLost(w)
    <3>1. ASSUME NEW v \in claimed, Planned!Publish(v) \/ Planned!PublishLost(v)
          PROVE  w \in claimed' \/ Planned!Publish(w) \/ Planned!PublishLost(w)
      BY <1>1, <3>1 DEF Planned!Publish, Planned!PublishLost
    <3>2. CASE Planned!Tick \/ Planned!Claim \/ Planned!ClaimRolledBack \/ UNCHANGED Planned!vars
      BY <1>1, <3>2 DEF Planned!Tick, Planned!Claim, Planned!ClaimRolledBack, Planned!vars
    <3>3. ASSUME NEW p \in Planned!Processes,
                 Planned!Take(p) \/ Planned!Deliver(p) \/ Planned!Save(p) \/ Planned!Die(p)
          PROVE  claimed' = claimed
      BY <3>3 DEF Planned!Take, Planned!Deliver, Planned!Save, Planned!Die
    <3>4. ASSUME NEW p \in Planned!Processes, NEW s \in Schedules, Planned!RunNow(p,
                 s) \/ Planned!Edit(p, s)
          PROVE  claimed' = claimed
      BY <3>4 DEF Planned!RunNow, Planned!Edit
    <3>5. ASSUME NEW p \in Planned!Processes, NEW at \in DeliveryTimes, NEW active \in BOOLEAN,
                 Planned!SaveEdit(p, at, active)
          PROVE  claimed' = claimed
      BY <3>5 DEF Planned!SaveEdit
    <3>. QED BY <1>1, <3>1, <3>2, <3>3, <3>4, <3>5 DEF Planned!Next
  <2>3. CASE Planned!Publish(w)
    <3>1. queue \in Seq(AnyWindows) /\ queue' = Append(queue, w)
      BY <2>3 DEF Types, Planned!Publish
    <3>2. queue'[Len(queue) + 1] = w /\ Len(queue) + 1 \in DOMAIN queue'
      BY <2>1, <3>1
    <3>. QED BY <3>2 DEF Planned!UnderWay
  <2>4. CASE Planned!PublishLost(w)
    BY <2>1, <2>4, SettleType DEF Planned!PublishLost
  <2>. QED BY <2>2, <2>3, <2>4 DEF Planned!UnderWay
<1>2. ASSUME NEW i \in DOMAIN queue, w = queue[i]
      PROVE  \/ w \in Planned!UnderWay'
             \/ w.schedule \in Schedules /\ Planned!Ticks(w) \subseteq settled'[w.schedule]
  <2>1. queue \in Seq(AnyWindows) /\ w \in AnyWindows /\ w.schedule \in Schedules
    <3>1. queue \in Seq(AnyWindows)
      BY DEF Types
    <3>2. w \in AnyWindows
      BY <1>2, <3>1
    <3>. QED BY <3>1, <3>2 DEF AnyWindows
  <2>2. ASSUME NEW v \in claimed, Planned!Publish(v) \/ Planned!PublishLost(v)
        PROVE  i \in DOMAIN queue' /\ queue'[i] = w
    <3>1. v \in AnyWindows
      BY DEF Types
    <3>2. queue' = queue \/ queue' = Append(queue, v)
      BY <2>2 DEF Planned!Publish, Planned!PublishLost
    <3>. QED BY <1>2, <2>1, <3>1, <3>2
  <2>3. ASSUME NEW p \in Planned!Processes, Planned!Take(p)
        PROVE  \/ w \in Planned!UnderWay'
               \/ Planned!Ticks(w) \subseteq settled'[w.schedule]
    <3>1. CASE i = 1
      <4>1. w = Head(queue) /\ proc[p] = Planned!Idle
        BY <1>2, <2>1, <2>3, <3>1 DEF Planned!Take
      <4>2. CASE schedule[w.schedule].active
        <5>1. proc' = [proc EXCEPT ![p] = Planned!Busy("building", w, schedule[w.schedule])]
          BY <2>3, <4>1, <4>2 DEF Planned!Take
        <5>2. proc'[p].pc = "building" /\ proc'[p].window = w
          BY <5>1 DEF Types, Planned!Busy
        <5>. QED BY <5>2 DEF Planned!UnderWay
      <4>3. CASE ~schedule[w.schedule].active
        <5>1. settled' = Planned!Settle(w)
          BY <2>3, <4>1, <4>3 DEF Planned!Take
        <5>. QED BY <2>1, <5>1, SettleType
      <4>. QED BY <4>2, <4>3
    <3>2. CASE i # 1
      <4>1. queue' = Tail(queue) /\ queue # <<>>
        BY <2>3 DEF Planned!Take
      <4>2. i - 1 \in DOMAIN queue' /\ queue'[i - 1] = w
        BY <1>2, <2>1, <3>2, <4>1
      <4>. QED BY <4>2 DEF Planned!UnderWay
    <3>. QED BY <3>1, <3>2
  <2>4. CASE Planned!Tick \/ Planned!Claim \/ Planned!ClaimRolledBack \/ UNCHANGED Planned!vars
    BY <1>2, <2>4
       DEF Planned!UnderWay, Planned!Tick, Planned!Claim, Planned!ClaimRolledBack, Planned!vars
  <2>5. ASSUME NEW p \in Planned!Processes,
               Planned!Deliver(p) \/ Planned!Save(p) \/ Planned!Die(p)
        PROVE  queue' = queue
    BY <2>5 DEF Planned!Deliver, Planned!Save, Planned!Die
  <2>6. ASSUME NEW p \in Planned!Processes, NEW s \in Schedules, Planned!RunNow(p,
               s) \/ Planned!Edit(p, s)
        PROVE  queue' = queue
    BY <2>6 DEF Planned!RunNow, Planned!Edit
  <2>7. ASSUME NEW p \in Planned!Processes, NEW at \in DeliveryTimes, NEW active \in BOOLEAN,
               Planned!SaveEdit(p, at, active)
        PROVE  queue' = queue
    BY <2>7 DEF Planned!SaveEdit
  <2>8. queue' = queue => w \in Planned!UnderWay'
    BY <1>2 DEF Planned!UnderWay
  <2>9. i \in DOMAIN queue' /\ queue'[i] = w => w \in Planned!UnderWay'
    BY DEF Planned!UnderWay
  <2>. QED BY <2>1, <2>2, <2>3, <2>4, <2>5, <2>6, <2>7, <2>8, <2>9 DEF Planned!Next
<1>3. ASSUME NEW q \in Planned!Processes, proc[q].pc = "building", w = proc[q].window
      PROVE  \/ w \in Planned!UnderWay'
             \/ w.schedule \in Schedules /\ Planned!Ticks(w) \subseteq settled'[w.schedule]
  <2>1. w \in AnyWindows /\ w.schedule \in Schedules /\ proc[q] # Planned!Idle
    BY <1>3, WorkType DEF Planned!Idle
  <2>2. CASE Planned!Deliver(q) \/ Planned!Die(q)
    BY <1>3, <2>1, <2>2, SettleType DEF Planned!Deliver, Planned!Die
  <2>3. proc'[q] = proc[q] => w \in Planned!UnderWay'
    BY <1>3 DEF Planned!UnderWay
  <2>4. ASSUME NEW p \in Planned!Processes,
               Planned!Take(p) \/ Planned!Deliver(p) \/ Planned!Save(p) \/ Planned!Die(p)
        PROVE  proc'[q] = proc[q] \/ Planned!Deliver(q) \/ Planned!Die(q)
    BY <1>3, <2>1, <2>4 DEF Planned!Take, Planned!Deliver, Planned!Save, Planned!Die, Types
  <2>5. ASSUME NEW p \in Planned!Processes, NEW s \in Schedules, Planned!RunNow(p,
               s) \/ Planned!Edit(p, s)
        PROVE  proc'[q] = proc[q]
    BY <2>1, <2>5 DEF Planned!RunNow, Planned!Edit, Types
  <2>6. ASSUME NEW p \in Planned!Processes, NEW at \in DeliveryTimes, NEW active \in BOOLEAN,
               Planned!SaveEdit(p, at, active)
        PROVE  proc'[q] = proc[q]
    BY <1>3, <2>6 DEF Planned!SaveEdit, Types
  <2>7. ASSUME NEW v \in claimed, Planned!Publish(v) \/ Planned!PublishLost(v)
        PROVE  proc' = proc
    BY <2>7 DEF Planned!Publish, Planned!PublishLost
  <2>8. Planned!Tick \/ Planned!Claim \/ Planned!ClaimRolledBack \/ UNCHANGED Planned!vars =>
            proc' = proc
    BY DEF Planned!Tick, Planned!Claim, Planned!ClaimRolledBack, Planned!vars
  <2>. QED BY <2>2, <2>3, <2>4, <2>5, <2>6, <2>7, <2>8 DEF Planned!Next
<1>. QED BY <1>1, <1>2, <1>3 DEF Planned!UnderWay

LEMMA SettledGrows ==
    ASSUME Types, [Planned!Next]_(Planned!vars), NEW s \in Schedules
    PROVE  settled[s] \subseteq settled'[s]
<1>1. ASSUME NEW w \in claimed, Planned!Publish(w) \/ Planned!PublishLost(w)
      PROVE  settled[s] \subseteq settled'[s]
  <2>1. w \in AnyWindows
    BY DEF Types
  <2>. QED BY <1>1, <2>1, SettleType DEF Planned!Publish, Planned!PublishLost
<1>2. ASSUME NEW p \in Planned!Processes, Planned!Take(p) PROVE settled[s] \subseteq settled'[s]
  <2>1. queue \in Seq(AnyWindows) /\ queue # <<>>
    BY <1>2 DEF Types, Planned!Take
  <2>2. Head(queue) \in AnyWindows
    BY <2>1
  <2>. QED BY <1>2, <2>2, SettleType DEF Planned!Take
<1>3. ASSUME NEW p \in Planned!Processes, Planned!Deliver(p) \/ Planned!Die(p)
      PROVE  settled[s] \subseteq settled'[s]
  <2>1. proc[p].window \in AnyWindows
    BY <1>3, WorkType DEF Planned!Deliver, Planned!Die, Planned!Idle
  <2>. QED BY <1>3, <2>1, SettleType DEF Planned!Deliver, Planned!Die
<1>4. ASSUME NEW p \in Planned!Processes, Planned!Save(p) PROVE settled' = settled
  BY <1>4 DEF Planned!Save
<1>5. ASSUME NEW p \in Planned!Processes, NEW c \in Schedules, Planned!RunNow(p,
             c) \/ Planned!Edit(p, c)
      PROVE  settled' = settled
  BY <1>5 DEF Planned!RunNow, Planned!Edit
<1>6. ASSUME NEW p \in Planned!Processes, NEW at \in DeliveryTimes, NEW active \in BOOLEAN,
             Planned!SaveEdit(p, at, active)
      PROVE  settled' = settled
  BY <1>6 DEF Planned!SaveEdit
<1>7. Planned!Tick \/ Planned!Claim \/ Planned!ClaimRolledBack \/ UNCHANGED Planned!vars =>
          settled' = settled
  BY DEF Planned!Tick, Planned!Claim, Planned!ClaimRolledBack, Planned!vars
<1>. QED BY <1>1, <1>2, <1>3, <1>4, <1>5, <1>6, <1>7 DEF Planned!Next

LEMMA SkippedGrows ==
    ASSUME Types, [Planned!Next]_(Planned!vars), NEW s \in Schedules
    PROVE  skipped[s] \subseteq skipped'[s]
<1>1. skipped \in [Schedules -> SUBSET Int]
  BY DEF Types
<1>2. CASE Planned!Claim
  BY <1>1, <1>2 DEF Planned!Claim
<1>3. ASSUME NEW p \in Planned!Processes, NEW c \in Schedules, Planned!RunNow(p, c)
      PROVE  skipped[s] \subseteq skipped'[s]
  BY <1>1, <1>3 DEF Planned!RunNow
<1>4. ASSUME NEW p \in Planned!Processes, NEW c \in Schedules, Planned!Edit(p, c)
      PROVE  skipped' = skipped
  BY <1>4 DEF Planned!Edit, Planned!windows
<1>5. ASSUME NEW p \in Planned!Processes,
             Planned!Take(p) \/ Planned!Deliver(p) \/ Planned!Save(p) \/ Planned!Die(p)
      PROVE  skipped' = skipped
  BY <1>5 DEF Planned!Take, Planned!Deliver, Planned!Save, Planned!Die, Planned!windows
<1>6. ASSUME NEW p \in Planned!Processes, NEW at \in DeliveryTimes, NEW active \in BOOLEAN,
             Planned!SaveEdit(p, at, active)
      PROVE  skipped' = skipped
  BY <1>6 DEF Planned!SaveEdit, Planned!windows
<1>7. ASSUME NEW w \in claimed, Planned!Publish(w) \/ Planned!PublishLost(w)
      PROVE  skipped' = skipped
  BY <1>7 DEF Planned!Publish, Planned!PublishLost, Planned!windows
<1>8. Planned!Tick \/ Planned!ClaimRolledBack \/ UNCHANGED Planned!vars => skipped' = skipped
  BY DEF Planned!Tick, Planned!ClaimRolledBack, Planned!vars, Planned!windows
<1>. QED BY <1>1, <1>2, <1>3, <1>4, <1>5, <1>6, <1>7, <1>8 DEF Planned!Next

\* So no step makes a hole.
LEMMA HeldStays == ASSUME Types, [Planned!Next]_(Planned!vars) PROVE Held \subseteq Held'
<1> SUFFICES ASSUME NEW s \in Schedules, NEW t \in Int, <<s, t>> \in Held
             PROVE  <<s, t>> \in Held'
  BY DEF Held, Points
<1>1. CASE t \in settled[s] \cup skipped[s]
  BY <1>1, SettledGrows, SkippedGrows DEF Held, Points
<1>2. ASSUME NEW w \in Planned!UnderWay, w.schedule = s, t \in Planned!Ticks(w)
      PROVE  <<s, t>> \in Held'
  <2>1. w \in Planned!UnderWay' \/ t \in settled'[s]
    BY <1>2, WindowKept
  <2>. QED BY <1>2, <2>1 DEF Held, Points, Planned!Ticks
<1>. QED BY <1>1, <1>2 DEF Held, Points

LEMMA SafeStays ==
    ASSUME Planned!ScheduleAssumption, Types, [Planned!Next]_(Planned!vars)
    PROVE  SafePoints \subseteq SafePoints'
<1> SUFFICES ASSUME NEW s \in Schedules, NEW v \in Int, <<s, v>> \in SafePoints
             PROVE  <<s, v>> \in SafePoints'
  BY DEF SafePoints, Points
<1>1. \A t \in 0 .. v - 1 : <<s, t>> \in Held'
  BY HeldStays DEF SafePoints
<1>. QED BY <1>1 DEF SafePoints, Points

\* A window from last_run_at to now leaves nothing out, and one from the day before now
\* only what it skips.
LEMMA NewWindow ==
    ASSUME Types, Ends, [Planned!Next]_(Planned!vars), NEW s \in Schedules,
           Planned!Skips(s) \subseteq skipped'[s],
           Planned!WindowOf(s, schedule[s]) \in Planned!UnderWay'
    PROVE  <<s, now>> \in SafePoints'
<1>1. /\ now \in Int /\ schedule[s] \in AnyRows /\ schedule[s].last \in Int
      /\ reach[s] \in Int /\ now - Planned!Day \in Int
  BY DEF Types, AnyRows, Planned!Day
<1>2. SUFFICES ASSUME NEW t \in 0 .. now - 1 PROVE <<s, t>> \in Held'
  BY <1>1 DEF SafePoints, Points
<1>3. t \in Int /\ 0 <= t /\ t <= now - 1
  BY <1>1
<1>4. CASE t \in Planned!Ticks(Planned!WindowOf(s, schedule[s]))
  BY <1>3, <1>4 DEF Held, Points, Planned!WindowOf, Planned!Window
<1>5. CASE t \notin Planned!Ticks(Planned!WindowOf(s, schedule[s]))
  <2>1. CASE schedule[s].last # Planned!NoRun
    <3>1. t < schedule[s].last
      BY <1>1, <1>3, <1>5, <2>1 DEF Planned!Ticks, Planned!WindowOf, Planned!Window
    <3>2. <<s, schedule[s].last>> \in SafePoints
      BY DEF Ends
    <3>3. <<s, t>> \in Held
      BY <1>1, <1>3, <3>1, <3>2 DEF SafePoints
    <3>. QED BY <3>3, HeldStays
  <2>2. CASE schedule[s].last = Planned!NoRun
    <3>1. t <= now - Planned!Day - 1
      BY <1>1, <1>3, <1>5, <2>2 DEF Planned!Ticks, Planned!WindowOf, Planned!Window
    <3>2. CASE t < reach[s]
      <4>1. <<s, reach[s]>> \in SafePoints
        BY DEF Ends
      <4>2. <<s, t>> \in Held
        BY <1>1, <1>3, <3>2, <4>1 DEF SafePoints
      <4>. QED BY <4>2, HeldStays
    <3>3. CASE reach[s] <= t
      <4>1. s \in unset
        BY <2>2 DEF Ends
      <4>2. t \in reach[s] .. now - Planned!Day - 1
        BY <1>1, <1>3, <3>1, <3>3
      <4>3. t \in Planned!Skips(s)
        BY <2>2, <4>1, <4>2 DEF Planned!Skips
      <4>. QED BY <1>3, <4>3 DEF Held, Points
    <3>. QED BY <1>1, <1>3, <3>2, <3>3
  <2>. QED BY <2>1, <2>2
<1>. QED BY <1>4, <1>5

LEMMA EndsStay ==
    ASSUME Planned!ScheduleAssumption, Types, Ends, [Planned!Next]_(Planned!vars)
    PROVE  Ends'
<1>1. SafePoints \subseteq SafePoints'
  BY SafeStays
<1>2. CASE Planned!Claim
  <2>1. \A s \in Planned!Due : <<s, now>> \in SafePoints'
    <3>1. SUFFICES ASSUME NEW s \in Planned!Due PROVE <<s, now>> \in SafePoints'
      OBVIOUS
    <3>2. s \in Schedules
      BY DEF Planned!Due
    <3>3. /\ Planned!Skips(s) \subseteq skipped'[s]
          /\ Planned!WindowOf(s, schedule[s]) \in Planned!UnderWay'
      BY <1>2, <3>2 DEF Planned!Claim, Planned!UnderWay
    <3>. QED BY <3>2, <3>3, NewWindow
  <2>2. \A s \in Schedules : /\ <<s, schedule'[s].last>> \in SafePoints'
                             /\ schedule'[s].last = Planned!NoRun => s \in unset'
    <3>1. now # Planned!NoRun
      BY DEF Types, Planned!Day, Planned!NoRun
    <3>2. \A s \in Schedules \ Planned!Due :
             schedule'[s] = schedule[s] /\ (s \in unset => s \in unset')
      BY <1>2 DEF Planned!Claim
    <3>3. \A s \in Planned!Due : schedule'[s].last = now
      BY <1>2, RunType DEF Planned!Claim, Planned!Due
    <3>. QED BY <1>1, <2>1, <3>1, <3>2, <3>3 DEF Ends
  <2>3. \A s \in Schedules : <<s, reach'[s]>> \in SafePoints'
    <3>1. \A s \in Schedules : \/ s \in Planned!Due /\ reach'[s] = now
                               \/ reach'[s] = reach[s]
      BY <1>2 DEF Planned!Claim
    <3>. QED BY <1>1, <2>1, <3>1 DEF Ends
  <2>4. \A w \in claimed' : w.schedule \in Planned!Due /\ w.to = now
    BY <1>2 DEF Planned!Claim, Planned!WindowOf, Planned!Window
  <2>5. \A w \in claimed' : <<w.schedule, w.to>> \in SafePoints'
    BY <2>1, <2>4
  <2>6. queue' = queue /\ proc' = proc
    BY <1>2 DEF Planned!Claim
  <2>. QED BY <1>1, <2>2, <2>3, <2>5, <2>6 DEF Ends
<1>3. CASE Planned!Tick \/ Planned!ClaimRolledBack \/ UNCHANGED Planned!vars
  <2>1. UNCHANGED <<schedule, claimed, queue, proc, reach, unset>>
    BY <1>3 DEF Planned!Tick, Planned!ClaimRolledBack, Planned!vars, Planned!windows
  <2>. QED BY <1>1, <2>1 DEF Ends
<1>4. ASSUME NEW w \in claimed, Planned!Publish(w) \/ Planned!PublishLost(w) PROVE Ends'
  <2>1. /\ claimed' \subseteq claimed /\ UNCHANGED <<schedule, proc, reach, unset>>
        /\ queue' = queue \/ queue' = Append(queue, w)
    BY <1>4 DEF Planned!Publish, Planned!PublishLost, Planned!windows
  <2>2. queue \in Seq(AnyWindows) /\ w \in AnyWindows
    BY DEF Types
  <2>3. \A i \in DOMAIN queue' : queue'[i] = w \/ (i \in DOMAIN queue /\ queue'[i] = queue[i])
    BY <2>1, <2>2
  <2>4. \A i \in DOMAIN queue' : <<queue'[i].schedule, queue'[i].to>> \in SafePoints'
    BY <1>1, <2>3 DEF Ends
  <2>. QED BY <1>1, <2>1, <2>4 DEF Ends
<1>5. ASSUME NEW p \in Planned!Processes, Planned!Take(p) PROVE Ends'
  <2>1. queue \in Seq(AnyWindows) /\ queue # <<>> /\ queue' = Tail(queue)
    BY <1>5 DEF Planned!Take, Types
  <2>2. \A i \in DOMAIN queue' : i + 1 \in DOMAIN queue /\ queue'[i] = queue[i + 1]
    BY <2>1
  <2>3. \A i \in DOMAIN queue' : <<queue'[i].schedule, queue'[i].to>> \in SafePoints'
    BY <1>1, <2>2 DEF Ends
  <2>4. 1 \in DOMAIN queue /\ Head(queue) = queue[1]
    BY <2>1
  <2>5. <<Head(queue).schedule, Head(queue).to>> \in SafePoints'
    BY <1>1, <2>4 DEF Ends
  <2>6. \A q \in Planned!Processes :
            \/ proc'[q] = proc[q]
            \/ proc'[q].pc = "building" /\ proc'[q].window = Head(queue)
    BY <1>5 DEF Planned!Take, Planned!Busy, Types
  <2>7. UNCHANGED <<schedule, claimed, reach, unset>>
    BY <1>5 DEF Planned!Take, Planned!windows
  <2>8. \A q \in Planned!Processes :
          /\ proc'[q].pc \in {"building", "saving"} =>
                <<proc'[q].window.schedule, proc'[q].window.to>> \in SafePoints'
          /\ proc'[q].pc = "editing" =>
                <<proc'[q].window.schedule, proc'[q].seen.last>> \in SafePoints'
    BY <1>1, <2>5, <2>6 DEF Ends
  <2>. QED BY <1>1, <2>3, <2>7, <2>8 DEF Ends
<1>6. ASSUME NEW p \in Planned!Processes, NEW s \in Schedules, Planned!RunNow(p, s) PROVE Ends'
  <2>1. proc'[p].pc = "building" /\ proc'[p].window = Planned!WindowOf(s, schedule[s])
    BY <1>6 DEF Planned!RunNow, Planned!Busy, Types
  <2>2. /\ Planned!Skips(s) \subseteq skipped'[s]
        /\ Planned!WindowOf(s, schedule[s]) \in Planned!UnderWay'
    BY <1>6, <2>1 DEF Planned!RunNow, Planned!UnderWay, Types
  <2>3. <<s, now>> \in SafePoints'
    BY <2>2, NewWindow
  <2>4. proc'[p].window.schedule = s /\ proc'[p].window.to = now
    BY <2>1 DEF Planned!WindowOf, Planned!Window
  <2>5. \A q \in Planned!Processes \ {p} : proc'[q] = proc[q]
    BY <1>6 DEF Planned!RunNow, Types
  <2>6. UNCHANGED <<schedule, claimed, queue, unset>>
    BY <1>6 DEF Planned!RunNow
  <2>7. \A c \in Schedules : (c = s /\ reach'[c] = now) \/ reach'[c] = reach[c]
    BY <1>6 DEF Planned!RunNow, Types
  <2>. QED BY <1>1, <2>1, <2>3, <2>4, <2>5, <2>6, <2>7 DEF Ends
<1>7. ASSUME NEW p \in Planned!Processes, NEW s \in Schedules, Planned!Edit(p, s) PROVE Ends'
  <2>1. /\ proc'[p].pc = "editing" /\ proc'[p].window.schedule = s
        /\ proc'[p].seen.last = schedule[s].last
    BY <1>7 DEF Planned!Edit, Planned!Busy, Planned!Window, Types
  <2>2. \A q \in Planned!Processes \ {p} : proc'[q] = proc[q]
    BY <1>7 DEF Planned!Edit, Types
  <2>3. UNCHANGED <<schedule, claimed, queue, reach, unset>>
    BY <1>7 DEF Planned!Edit, Planned!windows
  <2>. QED BY <1>1, <2>1, <2>2, <2>3 DEF Ends
<1>8. ASSUME NEW p \in Planned!Processes, Planned!Deliver(p) \/ Planned!Die(p) PROVE Ends'
  <2>1. \A q \in Planned!Processes :
            \/ proc'[q] = proc[q]
            \/ proc'[q].pc = "idle"
            \/ q = p /\ proc[q].pc = "building" /\ proc'[q].pc = "saving"
               /\ proc'[q].window = proc[q].window
    <3>1. proc[p] \in Works
      BY <1>8, WorkType DEF Planned!Deliver, Planned!Die, Planned!Idle
    <3>2. [proc[p] EXCEPT !.pc = "saving"].window = proc[p].window
      BY <3>1 DEF Works
    <3>3. [proc[p] EXCEPT !.pc = "saving"].pc = "saving"
      BY <3>1 DEF Works
    <3>4. \/ Planned!Deliver(p) /\ proc[p].pc = "building"
             /\ proc' = [proc EXCEPT ![p].pc = "saving"]
          \/ proc' = [proc EXCEPT ![p] = Planned!Idle]
      BY <1>8 DEF Planned!Deliver, Planned!Die
    <3>5. Planned!Idle.pc = "idle"
      BY DEF Planned!Idle
    <3>. QED BY <3>2, <3>3, <3>4, <3>5 DEF Types
  <2>2. UNCHANGED <<schedule, claimed, queue, reach, unset>>
    BY <1>8 DEF Planned!Deliver, Planned!Die, Planned!windows
  <2>3. \A q \in Planned!Processes :
          /\ proc'[q].pc \in {"building", "saving"} =>
                <<proc'[q].window.schedule, proc'[q].window.to>> \in SafePoints'
          /\ proc'[q].pc = "editing" =>
                <<proc'[q].window.schedule, proc'[q].seen.last>> \in SafePoints'
    BY <1>1, <2>1 DEF Ends
  <2>. QED BY <1>1, <2>2, <2>3 DEF Ends
<1>9. ASSUME NEW p \in Planned!Processes, NEW old, NEW new, NEW last,
             proc[p].window.schedule \in Schedules,
             Planned!Store(proc[p].window.schedule, old, new), new.last = last, new.last \in Int,
             <<proc[p].window.schedule, last>> \in SafePoints,
             \A s \in Schedules :
                schedule'[s].last = Planned!NoRun /\ s \in unset => s \in unset',
             last = Planned!NoRun
                /\ schedule'[proc[p].window.schedule].last = Planned!NoRun =>
                   proc[p].window.schedule \in unset',
             proc' = [proc EXCEPT ![p] = Planned!Idle], UNCHANGED <<claimed, queue, reach>>
      PROVE  Ends'
  <2>1. \A s \in Schedules : \/ schedule'[s].last = schedule[s].last
                             \/ s = proc[p].window.schedule /\ schedule'[s].last = last
    BY <1>9, StoreLast
  <2>2. \A s \in Schedules : /\ <<s, schedule'[s].last>> \in SafePoints'
                             /\ <<s, reach'[s]>> \in SafePoints'
                             /\ schedule'[s].last = Planned!NoRun => s \in unset'
    BY <1>1, <1>9, <2>1 DEF Ends
  <2>3. \A q \in Planned!Processes : proc'[q] = proc[q] \/ proc'[q].pc = "idle"
    BY <1>9 DEF Planned!Idle, Types
  <2>. QED BY <1>1, <1>9, <2>2, <2>3 DEF Ends
<1>10. ASSUME NEW p \in Planned!Processes, Planned!Save(p) PROVE Ends'
  <2>1. /\ proc[p].pc = "saving" /\ proc[p].window.schedule \in Schedules
        /\ proc' = [proc EXCEPT ![p] = Planned!Idle] /\ UNCHANGED <<claimed, queue, reach>>
    BY <1>10, WorkType DEF Planned!Save, Planned!Idle, Planned!windows
  <2>2. <<proc[p].window.schedule, proc[p].window.to>> \in SafePoints
    BY <2>1 DEF Ends
  <2>3. proc[p].window.to # Planned!NoRun
    <3>1. proc[p].window \in AnyWindows
      BY <2>1, WorkType DEF Planned!Idle
    <3>. QED BY <3>1 DEF AnyWindows, Planned!NoRun
  <2>4. \A s \in Schedules : schedule'[s].last = Planned!NoRun /\ s \in unset => s \in unset'
    BY <1>10 DEF Planned!Save
  <2>5. PICK old, new : /\ Planned!Store(proc[p].window.schedule, old, new)
                        /\ new.last = proc[p].window.to /\ new.last \in Int
    BY <1>10, SaveStores, Zenon
  <2>. QED BY <1>9, <2>1, <2>2, <2>3, <2>4, <2>5
<1>11. ASSUME NEW p \in Planned!Processes, NEW at \in DeliveryTimes, NEW active \in BOOLEAN,
              Planned!SaveEdit(p, at, active)
       PROVE  Ends'
  <2>1. /\ proc[p].pc = "editing" /\ proc[p].window.schedule \in Schedules
        /\ proc' = [proc EXCEPT ![p] = Planned!Idle] /\ UNCHANGED <<claimed, queue, reach>>
    BY <1>11, WorkType DEF Planned!SaveEdit, Planned!Idle, Planned!windows
  <2>2. <<proc[p].window.schedule, proc[p].seen.last>> \in SafePoints
    BY <2>1 DEF Ends
  <2>3. PICK old, new : /\ Planned!Store(proc[p].window.schedule, old, new)
                        /\ new.last = proc[p].seen.last /\ new.last \in Int
    BY <1>11, EditStores, Zenon
  <2>4. \A s \in Schedules :
          schedule'[s].last = Planned!NoRun /\ (s \in unset \/ s = proc[p].window.schedule) =>
              s \in unset'
    BY <1>11, <2>1 DEF Planned!SaveEdit
  <2>. QED BY <1>9, <2>1, <2>2, <2>3, <2>4
<1>. QED BY <1>2, <1>3, <1>4, <1>5, <1>6, <1>7, <1>8, <1>10, <1>11 DEF Planned!Next

\* Rows that never ran.
NewRows == {r \in AnyRows : r.last = Planned!NoRun}

LEMMA EndsInitially == ASSUME Planned!ScheduleAssumption, Planned!Init PROVE Ends
<1>1. \A t \in DeliveryTimes :
         [active |-> TRUE, at |-> t, next |-> Planned!NextRun(Planned!Day, t),
             last |-> Planned!NoRun] \in NewRows
  BY NextRunType DEF NewRows, AnyRows, Planned!NoRun, Planned!Day
<1>2. schedule \in [Schedules -> NewRows]
  BY <1>1 DEF Planned!Init
<1>3. reach \in [Schedules -> {0}] /\ unset = Schedules
  BY DEF Planned!Init
<1>4. ASSUME NEW s \in Schedules
      PROVE  /\ <<s, schedule[s].last>> \in SafePoints /\ <<s, reach[s]>> \in SafePoints
             /\ s \in unset
  <2>1. schedule[s].last = -1 /\ reach[s] = 0
    BY <1>2, <1>3 DEF NewRows, Planned!NoRun
  <2>. QED BY <1>3, <2>1 DEF SafePoints, Points
<1>. QED BY <1>4 DEF Planned!Init, Ends, Planned!Idle

\* What lies before the end of the latest window and before last_run_at was reported,
\* was given up after a failure, or is part of a window under way, however claims,
\* deliveries, requests at once and edits overwrite one another
\* (claim_due_report_schedules, execute_report_schedule): except that after an edit has
\* set last_run_at back to NULL, and before it has had a value, a window begins a day
\* before itself and skips what lies between the windows before it and that day.
THEOREM NothingBetween ==
    ASSUME Planned!ScheduleAssumption
    PROVE  Planned!Spec => []Planned!WindowsCovered
<1>1. Planned!Init => Types /\ Ends
  <2>1. Planned!Init => Ends
    BY EndsInitially
  <2>. QED BY <2>1, Initially
<1>2. Types /\ Ends /\ [Planned!Next]_(Planned!vars) => (Types /\ Ends)'
  BY TypesStay, EndsStay
<1>3. Types /\ Ends => Planned!WindowsCovered
  BY DEF Types, Ends, SafePoints, Held, Points, Planned!WindowsCovered
<1>. QED BY <1>1, <1>2, <1>3, PTL DEF Planned!Spec

-----------------------------------------------------------------------------
(* What is proved about the schedules holds of what the runs check.           *)

(* One part moves at a time and the others stay as they are: whatever happens *)
(* is a behaviour of the job and one of the schedules.                        *)
LEMMA ReportsOfParts == MCSpec => Spec /\ Planned!Spec
  <1>1. MCInit => Init /\ Planned!Init
    BY DEF MCInit
  <1>2. [MCNext]_<<part, asked, vars, scheduleVars, countVars>> =>
            [Next]_vars /\ [Planned!Next]_(Planned!vars)
    BY DEF MCNext, scheduleVars, Planned!vars
  <1>3. QED
    BY <1>1, <1>2, PTL DEF MCSpec, Spec, Planned!Spec

(* However claims, deliveries, runs at once and edits overtake one another,   *)
(* no time is lost between two windows of a schedule but by an edit that sets *)
(* last_run_at back to NULL, or before last_run_at has a value.               *)
THEOREM ReportsCoverWindows == MCSpec => []WindowsCovered
  BY NothingBetween, ReportsOfParts, PlannedAssumption DEF WindowsCovered

(* claim_due_report_schedules claims a time twice only after a save without a *)
(* row lock has moved last_run_at back.                                       *)
THEOREM ReportsDoubleByRewind == MCSpec => []DoubledByRewind
  BY ClaimedOnce, ReportsOfParts, PlannedAssumption DEF DoubledByRewind

-----------------------------------------------------------------------------
(* What is proved about the contents of reports, likewise.                    *)

ContentProofs == INSTANCE ReportContents_proofs WITH
                     CenterOrg <- [d1 |-> "a", d2 |-> "a", d3 |-> "b"],
                     RoomCenter <- [r1 |-> "d1", r2 |-> "d2", r3 |-> "d3"],
                     RackCenter <- [k1 |-> "d1", k2 |-> "d2", k3 |-> "d3"],
                     Device <- MCDevice,
                     Active <- [pac_room_temperature |-> TRUE, load |-> TRUE, old |-> FALSE],
                     World <- MCWorld

(* Two instances of one module with the same parameters say the same.         *)
LEMMA SameContentsAssumption == ContentProofs!ContentsAssumption <=> Contents!ContentsAssumption
  BY DEF ContentProofs!Unset, ContentProofs!ContentsAssumption, Contents!Unset,
     Contents!ContentsAssumption

LEMMA SameSummaryAgrees == ContentProofs!SummaryAgrees <=> Contents!SummaryAgrees
  BY DEF ContentProofs!Statuses, ContentProofs!GroupOrder, ContentProofs!Groups,
     ContentProofs!Figure, ContentProofs!PerStatus, ContentProofs!AllOf, ContentProofs!PerGroup,
     ContentProofs!AlertFigures, ContentProofs!NotificationFigures, ContentProofs!Figures,
     ContentProofs!Value, ContentProofs!Differ, ContentProofs!Added, ContentProofs!SummaryAgrees,
     ContentProofs!ToSet, Contents!Statuses, Contents!GroupOrder, Contents!Groups, Contents!Figure,
     Contents!PerStatus, Contents!AllOf, Contents!PerGroup, Contents!AlertFigures,
     Contents!NotificationFigures, Contents!Figures, Contents!Value, Contents!Differ,
     Contents!Added, Contents!SummaryAgrees, Contents!ToSet

LEMMA SameTemplates == ContentProofs!Templates = Contents!Templates
  BY DEF ContentProofs!Dates, ContentProofs!Template, ContentProofs!Everywhere,
     ContentProofs!Templates, Contents!Dates, Contents!Template, Contents!Everywhere,
     Contents!Templates

LEMMA SameGiven == \A job : ContentProofs!Given(job) = Contents!Given(job)
  BY DEF ContentProofs!Dates, ContentProofs!Located, ContentProofs!AlertSummary,
     ContentProofs!AlertExport, ContentProofs!NotificationDelivery, ContentProofs!DeviceInventory,
     ContentProofs!AuditExport, ContentProofs!TelemetryExport, ContentProofs!RoomEnvironment,
     ContentProofs!Reads, ContentProofs!Given, Contents!Dates, Contents!Located,
     Contents!AlertSummary, Contents!AlertExport, Contents!NotificationDelivery,
     Contents!DeviceInventory, Contents!AuditExport, Contents!TelemetryExport,
     Contents!RoomEnvironment, Contents!Reads, Contents!Given

LEMMA SameFrom == \A job : ContentProofs!From(job) = Contents!From(job)
  BY DEF ContentProofs!Day, ContentProofs!Instant, ContentProofs!From, Contents!Day,
     Contents!Instant, Contents!From

LEMMA SameTo == \A job : ContentProofs!To(job) = Contents!To(job)
  BY DEF ContentProofs!Day, ContentProofs!Instant, ContentProofs!To, Contents!Day,
     Contents!Instant, Contents!To

LEMMA SameLimit == \A job : ContentProofs!Limit(job) = Contents!Limit(job)
  BY DEF ContentProofs!Limit, Contents!Limit

LEMMA SameDatesWrong ==
    \A job, required : ContentProofs!DatesWrong(job, required)
        <=> Contents!DatesWrong(job, required)
  BY DEF ContentProofs!Day, ContentProofs!Dates, ContentProofs!Instant, ContentProofs!From,
     ContentProofs!To, ContentProofs!DatesWrong, Contents!Day, Contents!Dates, Contents!Instant,
     Contents!From, Contents!To, Contents!DatesWrong

LEMMA SameRefuses ==
    \A name, job : ContentProofs!Refuses(name, job) <=> Contents!Refuses(name, job)
  BY DEF ContentProofs!Unset, ContentProofs!Known, ContentProofs!AsksForCenter,
     ContentProofs!ScopeWrong, ContentProofs!Scope, ContentProofs!PlaceWrong, ContentProofs!UsedIn,
     ContentProofs!Aliases, ContentProofs!Canonical, ContentProofs!Enumerated,
     ContentProofs!People, ContentProofs!Refuses, ContentProofs!Malformed, Contents!Malformed,
     Contents!Unset, Contents!Known, Contents!AsksForCenter, Contents!ScopeWrong, Contents!Scope, Contents!PlaceWrong,
     Contents!UsedIn, Contents!Aliases, Contents!Canonical, Contents!Enumerated, Contents!People,
     Contents!Refuses

LEMMA SameRefused == \A job : ContentProofs!Refused(job) <=> Contents!Refused(job)
  BY DEF ContentProofs!Unset, ContentProofs!Known, ContentProofs!Day, ContentProofs!Types,
     ContentProofs!Dates, ContentProofs!Instant, ContentProofs!From, ContentProofs!To,
     ContentProofs!DatesRequired, ContentProofs!DatesWrong, ContentProofs!Limit,
     ContentProofs!TooLong, ContentProofs!AsksForCenter, ContentProofs!ScopeWrong,
     ContentProofs!Scope, ContentProofs!PlaceWrong, ContentProofs!UsedIn, ContentProofs!Aliases,
     ContentProofs!Canonical, ContentProofs!EnvironmentMetrics, ContentProofs!Located,
     ContentProofs!AlertSummary, ContentProofs!AlertExport, ContentProofs!NotificationDelivery,
     ContentProofs!DeviceInventory, ContentProofs!AuditExport, ContentProofs!TelemetryExport,
     ContentProofs!RoomEnvironment, ContentProofs!Reads, ContentProofs!Given,
     ContentProofs!Enumerated, ContentProofs!People, ContentProofs!Refuses,
     ContentProofs!FormatWrong, ContentProofs!NoMetrics, ContentProofs!Refused, Contents!Unset,
     Contents!Known, Contents!Day, Contents!Types, Contents!Dates, Contents!Instant, Contents!From,
     Contents!To, Contents!DatesRequired, Contents!DatesWrong, Contents!Limit, Contents!TooLong,
     Contents!AsksForCenter, Contents!ScopeWrong, Contents!Scope, Contents!PlaceWrong,
     Contents!UsedIn, Contents!Aliases, Contents!Canonical, Contents!EnvironmentMetrics,
     Contents!Located, Contents!AlertSummary, Contents!AlertExport, Contents!NotificationDelivery,
     Contents!DeviceInventory, Contents!AuditExport, Contents!TelemetryExport,
     Contents!RoomEnvironment, Contents!Reads, Contents!Given, Contents!Enumerated,
     Contents!People, Contents!Refuses, Contents!FormatWrong, Contents!NoMetrics, Contents!Refused,
     ContentProofs!Malformed, Contents!Malformed

LEMMA SameSound == \A name, job : ContentProofs!Sound(name, job) <=> Contents!Sound(name, job)
  BY DEF ContentProofs!Unset, ContentProofs!Known, ContentProofs!Dates,
     ContentProofs!AsksForCenter, ContentProofs!Aliases, ContentProofs!Canonical,
     ContentProofs!Located, ContentProofs!AlertSummary, ContentProofs!AlertExport,
     ContentProofs!NotificationDelivery, ContentProofs!DeviceInventory, ContentProofs!AuditExport,
     ContentProofs!TelemetryExport, ContentProofs!RoomEnvironment, ContentProofs!Reads,
     ContentProofs!Reach, ContentProofs!Sound, Contents!Unset, Contents!Known, Contents!Dates,
     Contents!AsksForCenter, Contents!Aliases, Contents!Canonical, Contents!Located,
     Contents!AlertSummary, Contents!AlertExport, Contents!NotificationDelivery,
     Contents!DeviceInventory, Contents!AuditExport, Contents!TelemetryExport,
     Contents!RoomEnvironment, Contents!Reads, Contents!Reach, Contents!Sound,
     ContentProofs!Malformed, Contents!Malformed, ContentProofs!Leaves, Contents!Leaves

LEMMA SameRows == \A job : ContentProofs!Rows(job) = Contents!Rows(job)
  BY DEF ContentProofs!Unset, ContentProofs!Day, ContentProofs!Dates, ContentProofs!Instant,
     ContentProofs!From, ContentProofs!To, ContentProofs!AsksForCenter, ContentProofs!Scope,
     ContentProofs!Aliases, ContentProofs!Canonical, ContentProofs!EnvironmentMetrics,
     ContentProofs!Located, ContentProofs!AlertSummary, ContentProofs!AlertExport,
     ContentProofs!NotificationDelivery, ContentProofs!DeviceInventory, ContentProofs!AuditExport,
     ContentProofs!TelemetryExport, ContentProofs!RoomEnvironment, ContentProofs!Reads,
     ContentProofs!Given, ContentProofs!Keeps, ContentProofs!InScope, ContentProofs!Rows,
     Contents!Unset, Contents!Day, Contents!Dates, Contents!Instant, Contents!From, Contents!To,
     Contents!AsksForCenter, Contents!Scope, Contents!Aliases, Contents!Canonical,
     Contents!EnvironmentMetrics, Contents!Located, Contents!AlertSummary, Contents!AlertExport,
     Contents!NotificationDelivery, Contents!DeviceInventory, Contents!AuditExport,
     Contents!TelemetryExport, Contents!RoomEnvironment, Contents!Reads, Contents!Given,
     Contents!Keeps, Contents!InScope, Contents!Rows

LEMMA SameSelected == \A job : ContentProofs!Selected(job) = Contents!Selected(job)
  BY DEF ContentProofs!Unset, ContentProofs!Day, ContentProofs!Dates, ContentProofs!Instant,
     ContentProofs!From, ContentProofs!To, ContentProofs!Aliases, ContentProofs!Canonical,
     ContentProofs!Keeps, ContentProofs!Template, ContentProofs!Everywhere,
     ContentProofs!Templates, ContentProofs!Selected, Contents!Unset, Contents!Day, Contents!Dates,
     Contents!Instant, Contents!From, Contents!To, Contents!Aliases, Contents!Canonical,
     Contents!Keeps, Contents!Template, Contents!Everywhere, Contents!Templates, Contents!Selected

LEMMA SameSeeded == \A job : ContentProofs!Seeded(job) = Contents!Seeded(job)
  BY DEF ContentProofs!Dates, ContentProofs!Template, ContentProofs!Everywhere,
     ContentProofs!Templates, ContentProofs!Seeded, Contents!Dates, Contents!Template,
     Contents!Everywhere, Contents!Templates, Contents!Seeded

LEMMA SameTypeOf == \A label : ContentProofs!TypeOf(label) = Contents!TypeOf(label)
  BY DEF ContentProofs!Labels, ContentProofs!TypeOf, Contents!Labels, Contents!TypeOf

LEMMA SameScheduledJob ==
    \A job, from, days, late : ContentProofs!ScheduledJob(job, from, days, late)
        = Contents!ScheduledJob(job, from, days, late)
  BY DEF ContentProofs!NoConfig, ContentProofs!Day, ContentProofs!Dates,
     ContentProofs!ScheduledJob, ContentProofs!countVars, Contents!NoConfig, Contents!Day,
     Contents!Dates, Contents!ScheduledJob, Contents!countVars

LEMMA SameStaysInside == \A job : ContentProofs!StaysInside(job) <=> Contents!StaysInside(job)
  BY SameRefused, SameRows, SameGiven DEF ContentProofs!Unset, ContentProofs!StaysInside,
     Contents!Unset, Contents!StaysInside

LEMMA SameWindowsMeet ==
    \A job, t : ContentProofs!WindowsMeet(job, t) <=> Contents!WindowsMeet(job, t)
  BY SameRefused, SameRows, SameGiven, SameDatesWrong, SameFrom, SameTo DEF ContentProofs!Dates,
     ContentProofs!WindowsMeet, Contents!Dates, Contents!WindowsMeet

LEMMA SamePromised == \A job : ContentProofs!Promised(job) <=> Contents!Promised(job)
  BY SameRefused, SameDatesWrong, SameSound, SameRows, SameSelected, SameSeeded, SameFrom,
     SameTo, SameLimit, SameTemplates DEF ContentProofs!Day, ContentProofs!Dates,
     ContentProofs!Promised, Contents!Day, Contents!Dates, Contents!Promised

LEMMA SameCardinality == \A S : ContentProofs!Cardinality(S) = Contents!Cardinality(S)
  BY DEF ContentProofs!Cardinality, Contents!Cardinality

LEMMA SameScheduledReported ==
    \A job, label, from, frequency, days, late :
        ContentProofs!ScheduledReported(job, label, from, frequency, days, late) <=>
            Contents!ScheduledReported(job, label, from, frequency, days, late)
  BY SameCardinality, SameRefused, SameRefuses, SameGiven, SameLimit, SameTypeOf,
     SameScheduledJob DEF ContentProofs!Day, ContentProofs!ScheduledReported, Contents!Day,
     Contents!ScheduledReported

LEMMA SameCountSpec == ContentProofs!CountSpec <=> Contents!CountSpec
  <1>1. ContentProofs!CountInit <=> Contents!CountInit
    BY DEF ContentProofs!Statuses, ContentProofs!GroupOrder, ContentProofs!Groups,
       ContentProofs!AllOf, ContentProofs!CountInit, ContentProofs!ToSet, Contents!Statuses,
       Contents!GroupOrder, Contents!Groups, Contents!AllOf, Contents!CountInit, Contents!ToSet
  <1>2. ContentProofs!Count <=> Contents!Count
    BY DEF ContentProofs!Statuses, ContentProofs!GroupOrder, ContentProofs!Groups,
       ContentProofs!Figure, ContentProofs!PerStatus, ContentProofs!AllOf, ContentProofs!PerGroup,
       ContentProofs!AlertFigures, ContentProofs!NotificationFigures, ContentProofs!Figures,
       ContentProofs!Count, ContentProofs!Cardinality, ContentProofs!ToSet, Contents!Statuses,
       Contents!GroupOrder, Contents!Groups, Contents!Figure, Contents!PerStatus, Contents!AllOf,
       Contents!PerGroup, Contents!AlertFigures, Contents!NotificationFigures, Contents!Figures,
       Contents!Count, Contents!Cardinality, Contents!ToSet
  <1>3. ContentProofs!Change <=> Contents!Change
    BY DEF ContentProofs!Statuses, ContentProofs!GroupOrder, ContentProofs!Groups,
       ContentProofs!Figure, ContentProofs!PerStatus, ContentProofs!AllOf, ContentProofs!PerGroup,
       ContentProofs!AlertFigures, ContentProofs!NotificationFigures, ContentProofs!Figures,
       ContentProofs!Change, ContentProofs!Cardinality, ContentProofs!ToSet, Contents!Statuses,
       Contents!GroupOrder, Contents!Groups, Contents!Figure, Contents!PerStatus, Contents!AllOf,
       Contents!PerGroup, Contents!AlertFigures, Contents!NotificationFigures, Contents!Figures,
       Contents!Change, Contents!Cardinality, Contents!ToSet
  <1>4. [ContentProofs!CountNext]_(ContentProofs!countVars) <=>
            [Contents!CountNext]_(Contents!countVars)
    BY <1>2, <1>3 DEF ContentProofs!CountNext, ContentProofs!countVars, Contents!CountNext,
       Contents!countVars
  <1>. QED BY <1>1, <1>4, PTL DEF ContentProofs!CountSpec, Contents!CountSpec

(* The jobs that are tried are jobs: filters are functions and bounds of      *)
(* dates are dates, instants or neither.                                      *)
IsFilters(f) ==
    /\ f = [name \in DOMAIN f |-> f[name]]
    /\ \A d \in ContentProofs!Dates \cap DOMAIN f : ContentProofs!IsBound(f[d])

LEMMA OneFilter ==
    ASSUME NEW name, NEW f \in Singles(name) PROVE IsFilters(f)
  <1>1. PICK v \in ValuesOf(name) : f = [n \in {name} |-> v]
    BY DEF Singles
  <1>2. name \in {"date_from", "date_to"} => ContentProofs!IsBound(v)
    BY DEF ValuesOf, Instants, LocalDates, Times, ContentProofs!IsBound
  <1>. QED BY <1>1, <1>2 DEF IsFilters, ContentProofs!Dates

LEMMA MergedFilters ==
    ASSUME NEW f, NEW g, IsFilters(f), IsFilters(g) PROVE IsFilters(Merged(f, g))
  BY DEF Merged, IsFilters

LEMMA TriedFilters == \A f \in FilterSets : IsFilters(f)
  <1>1. ASSUME NEW n1, NEW n2, NEW h \in Pairs(n1, n2) PROVE IsFilters(h)
    <2>1. PICK f \in Singles(n1), g \in Singles(n2) : h = Merged(f, g)
      BY DEF Pairs
    <2>. QED BY <2>1, OneFilter, MergedFilters
  <1>. QED BY <1>1, OneFilter DEF FilterSets

LEMMA WholeFilters == IsFilters(Whole) /\ IsFilters([date_to |-> Whole.date_to])
  BY DEF IsFilters, Whole, ContentProofs!Dates, ContentProofs!IsBound

LEMMA TriedJobs == \A job \in Jobs : ContentProofs!IsJob(job)
  <1>. SUFFICES ASSUME NEW type \in Contents!Types, NEW job \in JobsOf(type)
                PROVE  ContentProofs!IsJob(job)
    BY DEF Jobs
  <1>1. IsFilters(job.filters)
    <2>1. CASE Contents!DatesRequired(type)
      <3>1. job.filters \in {Whole, [date_to |-> Whole.date_to]}
                               \cup {Merged(f, Whole) : f \in FilterSets}
        BY <2>1 DEF JobsOf
      <3>2. \A f \in FilterSets : IsFilters(Merged(f, Whole))
        BY TriedFilters, WholeFilters, MergedFilters
      <3>. QED BY <3>1, <3>2, WholeFilters
    <2>2. CASE ~Contents!DatesRequired(type)
      <3>1. job.filters \in {[name \in {} |-> 0]} \cup FilterSets
        BY <2>2 DEF JobsOf
      <3>2. IsFilters([name \in {} |-> 0])
        BY DEF IsFilters
      <3>. QED BY <3>1, <3>2, TriedFilters
    <2>. QED BY <2>1, <2>2
  <1>2. /\ job = [type |-> job.type, org |-> job.org, center |-> job.center,
                  config |-> job.config, filters |-> job.filters]
        /\ job.type = type
    BY DEF JobsOf
  <1>3. type \in ContentProofs!Types
    BY DEF ContentProofs!Types, Contents!Types
  <1>. QED BY <1>1, <1>2, <1>3 DEF IsFilters, ContentProofs!IsJob

LEMMA LateTimes == 3 \in Int /\ \A late \in {0, 1} : late \in 0 .. ContentProofs!Day
  BY DEF ContentProofs!Day

(* What is true of any job is true of one that is tried.                      *)
LEMMA TriedRight ==
    ASSUME NEW job \in Jobs
    PROVE  /\ Contents!StaysInside(job)
           /\ job.type \in DOMAIN Contents!Templates => Contents!Promised(job)
           /\ \A t \in {4, 7} : Contents!WindowsMeet(job, t)
           /\ \A label \in {"alert summary report", "telemetry export", "audit export",
                            "room environment", "device inventory"},
                 frequency \in {"DAILY", "WEEKLY", "MONTHLY", "QUARTERLY"} :
                 \A days \in Contents!Between(frequency), late \in {0, 1} :
                    Contents!ScheduledReported(job, label, 3, frequency, days, late)
  <1>1. ContentProofs!ContentsAssumption /\ ContentProofs!IsJob(job)
    BY ContentsAssumption, SameContentsAssumption, TriedJobs
  <1>2. Contents!StaysInside(job)
    BY <1>1, ContentProofs!NothingFromElsewhere, SameStaysInside
  <1>3. job.type \in DOMAIN Contents!Templates => Contents!Promised(job)
    <2>1. DOMAIN Contents!Templates = DOMAIN ContentProofs!Templates
      BY DEF Contents!Templates, ContentProofs!Templates
    <2>. QED BY <1>1, <2>1, ContentProofs!TemplatesKeepPromises, SamePromised
  <1>4. \A t \in {4, 7} : Contents!WindowsMeet(job, t)
    <2>1. \A t \in Int : ContentProofs!WindowsMeet(job, t)
      BY <1>1, ContentProofs!NothingBetweenReports
    <2>. QED BY <2>1, SameWindowsMeet
  <1>5. ASSUME NEW label \in {"alert summary report", "telemetry export", "audit export",
                              "room environment", "device inventory"},
               NEW frequency \in {"DAILY", "WEEKLY", "MONTHLY", "QUARTERLY"},
               NEW days \in Contents!Between(frequency), NEW late \in {0, 1}
        PROVE  Contents!ScheduledReported(job, label, 3, frequency, days, late)
    <2>1. PICK saved \in DOMAIN ContentProofs!Labels : label \in ContentProofs!Labels[saved]
      <3>1. \E saved \in DOMAIN ContentProofs!Labels : label \in ContentProofs!Labels[saved]
        BY DEF ContentProofs!Labels
      <3>. QED BY <3>1
    <2>2. days \in ContentProofs!Between(frequency)
      BY DEF Contents!Between, ContentProofs!Between
    <2>3. late \in 0 .. ContentProofs!Day /\ 3 \in Int
      BY LateTimes
    <2>4. ContentProofs!ScheduledReported(job, label, 3, frequency, days, late)
      BY <1>1, <2>1, <2>2, <2>3, ContentProofs!SchedulesReport
    <2>. QED BY <2>4, SameScheduledReported
  <1>. QED BY <1>2, <1>3, <1>4, <1>5

(* Reports show nothing from elsewhere, keep what their templates promise,    *)
(* leave no time out between them, are generated for every schedule that can  *)
(* be saved, and their figures agree (generator.py, seed_report_templates).   *)
THEOREM ReportsAreRight == MCSpec => []ReportsRight
  <1>1. MCInit => asked \in Jobs \cup {NoJob} /\ Contents!CountInit
    BY DEF MCInit, NothingCounted
  <1>2. [MCNext]_<<part, asked, vars, scheduleVars, countVars>> =>
            asked' = asked /\ [Contents!CountNext]_(Contents!countVars)
    BY DEF MCNext, countVars, Contents!countVars
  <1>3. Contents!CountSpec => []Contents!SummaryAgrees
    BY ContentsAssumption, SameContentsAssumption, SameCountSpec, SameSummaryAgrees,
       ContentProofs!FiguresAgree, PTL
  <1>4. MCSpec => Contents!CountSpec
    BY <1>1, <1>2, PTL DEF MCSpec, Contents!CountSpec
  <1>5. asked \in Jobs \cup {NoJob} /\ asked' = asked => (asked \in Jobs \cup {NoJob})'
    OBVIOUS
  <1>6. asked \in Jobs \cup {NoJob} /\ Contents!SummaryAgrees => ReportsRight
    BY TriedRight DEF ReportsRight
  <1>. QED BY <1>1, <1>2, <1>3, <1>4, <1>5, <1>6, PTL DEF MCSpec
=============================================================================
