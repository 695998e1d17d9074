--------------------------- MODULE ReportSchedule ---------------------------
(***************************************************************************)
(* Report schedules: the task that claims the due ones every minute, the   *)
(* deliveries it queues (apps/reports/services/schedules.py, tasks.py) and *)
(* the requests that run a schedule at once or edit it (views.py).         *)
(*                                                                         *)
(* A claim and a delivery agree on nothing but the row: the claim writes   *)
(* last_run_at and next_run_at under a row lock, a delivery and a request  *)
(* write back what they read without one.                                  *)
(*                                                                         *)
(* Time is a UTC tick of six hours, so that Dhaka (TIME_ZONE) is one tick  *)
(* ahead; "now" is just after its tick, a delivery time just on one.       *)
(* Schedules are DAILY.  Left out: the job a delivery builds (ReportJob),  *)
(* recipients, last_delivery_status, last_sent_at and last_job, which      *)
(* nothing reads back, deletion, and the limit of 100 schedules a claim.   *)
(***************************************************************************)
EXTENDS Integers, Sequences

CONSTANTS
    Schedules,
    Workers,        \* processes of report-worker
    Users,          \* concurrent API requests
    DeliveryTimes,  \* the delivery times in use, in local ticks of the day
    Until,          \* bound: the last tick
    MaxCalls,       \* bound: API requests
    MaxFaults       \* bound: failed deliveries and deaths

Day == 4
NoRun == -1         \* last_run_at is NULL

\* A hosted module states its assumptions as a definition.
ScheduleAssumption ==
    /\ Workers \cap Users = {}
    /\ DeliveryTimes \subseteq 0 .. Day - 1
    /\ Until \in Nat /\ MaxCalls \in Nat /\ MaxFaults \in Nat

VARIABLES
    now,            \* the tick
    row,            \* per schedule, is_active, delivery_time, next_run_at and last_run_at
    claimed,        \* windows the claim task has yet to publish
    queue,          \* deliver_report_schedule_task messages
    proc,           \* the progress of each worker and request, with the row it read
    calls, faults,  \* what is used of the bounds
    \* history, read by the properties only
    reach,          \* the end of the latest window, of a claim or a run at once; or 0
    settled,        \* ticks that were reported, or given up after a failure
    unset,          \* schedules that have had no last_run_at yet, or whose edit
                    \* set it back to NULL
    skipped,        \* ticks before a window that began a day before now for that
                    \* reason, and after the windows before it
    taken,          \* the end of the latest window that was claimed
    doubled,        \* schedules that were claimed for a tick twice
    rewound,        \* schedules whose last_run_at an unlocked save moved back
    left            \* the due schedules that the latest claim task left

vars == <<now, row, claimed, queue, proc, calls, faults,
          reach, settled, unset, skipped, taken, doubled, rewound, left>>
bounds == <<calls, faults>>
claims == <<taken, doubled, left>>
windows == <<reach, skipped>>

Processes == Workers \cup Users
Idle == [pc |-> "idle"]

Window(s, from, to) == [schedule |-> s, from |-> from, to |-> to]
Ticks(w) == w.from .. w.to - 1

\* calculate_next_run_at combines the date in UTC with the local delivery time.
NextRun(reference, at) ==
    LET run == Day * (reference \div Day) + at - 1
    IN  IF run <= reference THEN run + Day ELSE run

\* (Mutated form of what follows.)  last_run_at was already set to now.
WindowAfterSave(s, r) == Window(s, now, now)

\* calculate_execution_window: from the end of the window before.
WindowOf(s, r) == Window(s, IF r.last = NoRun THEN now - Day ELSE r.last, now)

\* What the next window of a schedule leaves out, if it does not begin at last_run_at.
Skips(s) ==
    IF row[s].last = NoRun /\ s \in unset THEN reach[s] .. now - Day - 1 ELSE {}

\* ReportSchedule.clean: last_run_at, just after its tick, is not after next_run_at.
Valid(r) == r.last < r.next

\* ReportSchedule.save: next_run_at is computed anew when what is saved differs
\* from what is stored in the delivery time, or makes the schedule active.
Refreshed(r, stored) ==
    IF r.at # stored.at \/ (r.active /\ ~stored.active)
    THEN [r EXCEPT !.next = NextRun(now, r.at)]
    ELSE r

Settle(w) == [settled EXCEPT ![w.schedule] = @ \cup Ticks(w)]

Init ==
    /\ now = Day
    /\ row \in [Schedules -> {[active |-> TRUE, at |-> t, next |-> NextRun(Day, t),
                               last |-> NoRun] : t \in DeliveryTimes}]
    /\ claimed = {} /\ queue = <<>>
    /\ proc = [p \in Processes |-> Idle]
    /\ calls = 0 /\ faults = 0
    /\ reach = [s \in Schedules |-> 0] /\ settled = [s \in Schedules |-> {}]
    /\ unset = Schedules /\ skipped = [s \in Schedules |-> {}]
    /\ taken = [s \in Schedules |-> NoRun]
    /\ doubled = {} /\ rewound = {} /\ left = {}

-----------------------------------------------------------------------------
(* The beat, and the task it starts every minute in the one scheduler slot. *)

Tick ==
    /\ now < Until
    /\ now' = now + 1
    /\ UNCHANGED <<row, claimed, queue, proc, bounds, windows, settled, unset, rewound, claims>>

Due == {s \in Schedules : row[s].active /\ row[s].next <= now}

\* (Mutated form of what follows.)  last_run_at is left to the delivery.
RunLater(r) == [r EXCEPT !.next = NextRun(now, r.at)]

Run(r) == [r EXCEPT !.last = now, !.next = NextRun(now, r.at)]

\* claim_due_report_schedules, one transaction.
Claim ==
    /\ claimed = {} /\ Due # {}
    /\ \A s \in Due : Valid(Run(row[s]))
    /\ claimed' = {WindowOf(s, row[s]) : s \in Due}
    /\ reach' = [s \in Schedules |-> IF s \in Due THEN now ELSE reach[s]]
    /\ skipped' = [s \in Schedules |-> IF s \in Due THEN skipped[s] \cup Skips(s)
                                       ELSE skipped[s]]
    /\ unset' = unset \ Due
    /\ taken' = [s \in Schedules |-> IF s \in Due THEN now ELSE taken[s]]
    /\ doubled' = doubled \cup {s \in Due : WindowOf(s, row[s]).from < taken[s]}
    /\ row' = [s \in Schedules |-> IF s \in Due THEN Run(row[s]) ELSE row[s]]
    /\ left' = {}
    /\ UNCHANGED <<now, queue, proc, bounds, settled, rewound>>

\* A row that is not valid rolls back all of them and ends the task.
ClaimRolledBack ==
    /\ claimed = {}
    /\ \E s \in Due : ~Valid(Run(row[s]))
    /\ left' = Due
    /\ UNCHANGED <<now, row, claimed, queue, proc, bounds, windows, settled, unset, rewound,
                   taken, doubled>>

Publish(w) ==
    /\ w \in claimed
    /\ claimed' = claimed \ {w}
    /\ queue' = Append(queue, w)
    /\ UNCHANGED <<now, row, proc, bounds, windows, settled, unset, rewound, claims>>

\* The claim is committed; the process dies before, or cannot publish, a window.
PublishLost(w) ==
    /\ w \in claimed /\ faults < MaxFaults
    /\ claimed' = claimed \ {w}
    /\ settled' = Settle(w)
    /\ faults' = faults + 1
    /\ UNCHANGED <<now, row, queue, proc, calls, windows, unset, rewound, claims>>

-----------------------------------------------------------------------------
(* execute_report_schedule, in the report worker or in a request.          *)

Busy(pc, w, r) == [pc |-> pc, window |-> w, seen |-> r]

\* deliver_report_schedule_task begins; nothing is delivered while inactive.
Take(p) ==
    /\ p \in Workers /\ proc[p] = Idle /\ queue # <<>>
    /\ queue' = Tail(queue)
    /\ LET w == Head(queue) IN
       IF row[w.schedule].active
       THEN proc' = [proc EXCEPT ![p] = Busy("building", w, row[w.schedule])]
            /\ settled' = settled
       ELSE proc' = proc /\ settled' = Settle(w)
    /\ UNCHANGED <<now, row, claimed, bounds, windows, unset, rewound, claims>>

\* run_now: a window of its own, from the last_run_at it reads.
RunNow(p, s) ==
    /\ p \in Users /\ proc[p] = Idle /\ calls < MaxCalls
    /\ row[s].active
    /\ proc' = [proc EXCEPT ![p] = Busy("building", WindowOf(s, row[s]), row[s])]
    /\ reach' = [reach EXCEPT ![s] = now]
    /\ skipped' = [skipped EXCEPT ![s] = @ \cup Skips(s)]
    /\ calls' = calls + 1
    /\ UNCHANGED <<now, row, claimed, queue, faults, settled, unset, rewound, claims>>

\* The report is built and sent, or one of both fails, which the row will tell.
Deliver(p) ==
    /\ proc[p].pc = "building"
    /\ proc' = [proc EXCEPT ![p].pc = "saving"]
    /\ settled' = Settle(proc[p].window)
    /\ UNCHANGED <<now, row, claimed, queue, bounds, windows, unset, rewound, claims>>

\* The schedule as the delivery saves it: last_run_at and next_run_at follow from
\* the end of its window and the delivery time it read.
Delivered(p) ==
    LET w == proc[p].window
        r == proc[p].seen
    IN  Refreshed([r EXCEPT !.last = w.to, !.next = NextRun(w.to, r.at)], row[w.schedule])

\* What an unlocked save writes; one that is not valid raises.
Store(s, old, new) ==
    /\ row' = [row EXCEPT ![s] = IF Valid(old) THEN new ELSE @]
    /\ rewound' = IF row'[s].last < row[s].last THEN rewound \cup {s} ELSE rewound

Save(p) ==
    /\ proc[p].pc = "saving"
    /\ LET s == proc[p].window.schedule
           r == Delivered(p)
       IN  /\ Store(s, r, [row[s] EXCEPT !.last = r.last, !.next = r.next])
           /\ unset' = {c \in unset : row'[c].last = NoRun}
    /\ proc' = [proc EXCEPT ![p] = Idle]
    /\ UNCHANGED <<now, claimed, queue, bounds, windows, settled, claims>>

-----------------------------------------------------------------------------
(* Requests that edit a schedule, and processes that die.                  *)

\* The request reads the row ...
Edit(p, s) ==
    /\ p \in Users /\ proc[p] = Idle /\ calls < MaxCalls
    /\ proc' = [proc EXCEPT ![p] = Busy("editing", Window(s, now, now), row[s])]
    /\ calls' = calls + 1
    /\ UNCHANGED <<now, row, claimed, queue, faults, windows, settled, unset, rewound,
                   claims>>

\* ... and saves all of it, with its own delivery time and is_active.
SaveEdit(p, at, active) ==
    /\ proc[p].pc = "editing"
    /\ LET s == proc[p].window.schedule
           r == Refreshed([proc[p].seen EXCEPT !.at = at, !.active = active], row[s])
       IN  /\ Store(s, r, r)
           /\ unset' = {c \in unset \cup {s} : row'[c].last = NoRun}
    /\ proc' = [proc EXCEPT ![p] = Idle]
    /\ UNCHANGED <<now, claimed, queue, bounds, windows, settled, claims>>

\* A process dies, or generate_report_job raises, before the save.
Die(p) ==
    /\ proc[p].pc \in {"building", "saving"} /\ faults < MaxFaults
    /\ proc' = [proc EXCEPT ![p] = Idle]
    /\ settled' = Settle(proc[p].window)
    /\ faults' = faults + 1
    /\ UNCHANGED <<now, row, claimed, queue, calls, windows, unset, rewound, claims>>

-----------------------------------------------------------------------------
Next ==
    \/ Tick \/ Claim \/ ClaimRolledBack
    \/ \E w \in claimed : Publish(w) \/ PublishLost(w)
    \/ \E p \in Processes :
          \/ Take(p) \/ Deliver(p) \/ Save(p) \/ Die(p)
          \/ \E s \in Schedules : RunNow(p, s) \/ Edit(p, s)
          \/ \E at \in DeliveryTimes, active \in BOOLEAN : SaveEdit(p, at, active)

Spec == Init /\ [][Next]_vars

-----------------------------------------------------------------------------
Times == 0 .. Until
Windows == [schedule : Schedules, from : Times, to : Times]
Rows == [active : BOOLEAN, at : DeliveryTimes, next : 0 .. Until + Day,
         last : Times \cup {NoRun}]

\* The types of the variables.
TypeOK ==
    /\ now \in Times /\ row \in [Schedules -> Rows]
    /\ claimed \subseteq Windows /\ queue \in Seq(Windows)
    /\ \A p \in Processes :
          \/ proc[p] = Idle
          \/ /\ proc[p].pc \in {"building", "saving", "editing"}
             /\ proc[p].window \in Windows /\ proc[p].seen \in Rows
    /\ calls \in 0 .. MaxCalls /\ faults \in 0 .. MaxFaults
    /\ reach \in [Schedules -> Times] /\ settled \in [Schedules -> SUBSET Times]
    /\ unset \subseteq Schedules /\ skipped \in [Schedules -> SUBSET Times]
    /\ taken \in [Schedules -> Times \cup {NoRun}]
    /\ doubled \subseteq Schedules /\ rewound \subseteq Schedules /\ left \subseteq Schedules

\* The windows that are still under way.
UnderWay ==
    claimed \cup {queue[i] : i \in DOMAIN queue} \cup
    {proc[p].window : p \in {q \in Processes : proc[q].pc = "building"}}

\* Between the windows of a schedule no time is lost to overtaking claims, deliveries,
\* requests at once and edits: what lies before the end of the latest window, and before
\* last_run_at, is reported, on its way to be, or part of a window that was given up.
\* There is one way to lose time, and it is the only one: an edit that read the
\* schedule before its first run saves the NULL it read over last_run_at, and the next
\* window begins a day before itself, wherever the one before it ended.  (Before the
\* first last_run_at that is how every window begins, also after a run at once that
\* was never saved.)
WindowsCovered ==
    \A s \in Schedules : \A t \in (0 .. reach[s] - 1) \cup (0 .. row[s].last - 1) :
        \/ t \in settled[s] \cup skipped[s]
        \/ \E w \in UnderWay : w.schedule = s /\ t \in Ticks(w)

\* A schedule is claimed again for a time it was claimed for only after a save
\* without a lock has moved its last_run_at back.
DoubledByRewind == doubled \subseteq rewound

\* "enqueue-due-report-schedules-every-minute" (config/settings/base.py): after a
\* run of the task no schedule is left due.
NothingLeft == left = {}
=============================================================================
