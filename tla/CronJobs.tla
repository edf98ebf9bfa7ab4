------------------------------ MODULE CronJobs ------------------------------
(***************************************************************************)
(* One scheduled job of the cron service: its row in the database, its     *)
(* timer in the scheduler's map, the ticks the timer spawns, and the       *)
(* requests that change the job while ticks run.  Jobs share neither rows  *)
(* nor timers, so one job stands for all.                                  *)
(*                                                                         *)
(* A tick, a request and the resume handler each work on a copy of the     *)
(* job they read at their beginning, and arm the timer from that copy at   *)
(* their end.  schedule_job removes the old handle and inserts the new one *)
(* in two steps; a timer whose handle is overwritten goes on as an orphan. *)
(*                                                                         *)
(* Requests and the resume handler run in the handler of an HTTP request   *)
(* and end where they wait when the client goes or the database fails.     *)
(*                                                                         *)
(* Time is counted from 0 to MaxTime and stands still there: what is due   *)
(* then is due for good, and a recurring timer may fire again and again.   *)
(***************************************************************************)
EXTENDS Naturals, FiniteSets

CONSTANTS
  Tickers,         \* bound: ticks under way at one time
  AtTimes,         \* times of the one-shot schedules (At)
  Periods,         \* periods of the recurring ones (Every, Cron)
  CronEnds,        \* last times of the Cron expressions that have one; 0: "manual only"
  RetryInterval,   \* RETRY_INTERVAL_MS
  MaxRetries,      \* max_retries of the job
  MaxTime,         \* bound: the clock
  MaxOrphans,      \* bound: timers without a handle
  MaxUpdates       \* bound: update requests

ASSUME CronAssumption ==
  /\ MaxRetries \in Nat /\ MaxTime \in Nat /\ MaxUpdates \in Nat
  /\ RetryInterval \in Nat
  /\ AtTimes \subseteq 0..MaxTime /\ Periods \subseteq 1..MaxTime
  /\ CronEnds \subseteq 0..MaxTime
  /\ "user" \notin Tickers /\ "resume" \notin Tickers

Time == 0..MaxTime
Never == MaxTime + 1                      \* next_run_at: None
Recurrent == [kind : {"every"}, n : Periods] \cup [kind : {"cron"}, n : CronEnds]
Schedule == [kind : {"at"}, n : Time] \cup Recurrent
At(t) == [kind |-> "at", n |-> t]
Requested == [kind : {"at"}, n : AtTimes] \cup Recurrent
Row == [sched : Schedule, enabled : BOOLEAN, next : Time \cup {Never}, retry : 0..MaxRetries]
Timer == [sched : Schedule, due : Time, live : BOOLEAN]

\* What a task knows of the job: the copy it read and what it is to do next.
\* Of one that will not arm the timer, stale says that another task has written
\* the row meanwhile (history).
Phase == {"idle", "load", "run", "settle", "retrying", "reschedule",   \* a tick
          "write", "delete",                                           \* a request
          "mark", "remiss",                                            \* the resume handler
          "schedule", "arm"}                                           \* schedule_job
Proc == [at : Phase, sched : Schedule, enabled : BOOLEAN, next : Time \cup {Never},
         retry : 0..MaxRetries, stale : BOOLEAN]
Procs == Tickers \cup {"user", "resume"}
Idle == [at |-> "idle", sched |-> At(0), enabled |-> FALSE, next |-> Never, retry |-> 0,
         stale |-> FALSE]
NoChange == [sched |-> {}, enabled |-> {}]

VARIABLES
  now,
  added,    \* the job has been created
  row,      \* its row, if it is stored
  handle,   \* its timer in the map of the scheduler, if there is one
  orphans,  \* timers that run without a handle
  proc,     \* the ticks, the request and the resume handler under way
  change,   \* what the update under way sets
  up,       \* the process is running
  lost,     \* the timer is gone by a stale copy, an error or a dropped request (history)
  updates

vars == <<now, added, row, handle, orphans, proc, change, up, lost, updates>>

TypeOK ==
  /\ now \in Time
  /\ added \in BOOLEAN /\ up \in BOOLEAN /\ lost \in BOOLEAN
  /\ row \subseteq Row /\ \A r, s \in row : r = s
  /\ handle \subseteq Timer /\ \A t, u \in handle : t = u
  /\ orphans \subseteq {t \in Timer : t.live}
  /\ proc \in [Procs -> Proc]
  /\ change \in [sched : SUBSET Requested, enabled : SUBSET BOOLEAN]
  /\ updates \in 0..MaxUpdates

Init ==
  /\ now = 0 /\ added = FALSE
  /\ row = {} /\ handle = {} /\ orphans = {}
  /\ proc = [p \in Procs |-> Idle]
  /\ change = NoChange
  /\ up = TRUE /\ lost = FALSE
  /\ updates = 0

-----------------------------------------------------------------------------
Later(d) == IF now + d < MaxTime THEN now + d ELSE MaxTime

\* A Cron expression is matched at every time up to its last one.
ComputeNextRun(s) ==
  CASE s.kind = "at" -> s.n
    [] s.kind = "every" -> Later(s.n)
    [] s.kind = "cron" -> IF now < s.n THEN now + 1 ELSE Never

Becomes(p, r) == proc' = [proc EXCEPT ![p] = r]
GoesTo(p, phase) == Becomes(p, [proc[p] EXCEPT !.at = phase])

WillArm(x) == x.enabled /\ x.next # Never
Staled(x) ==
  IF x.at \in {"write", "schedule"} /\ ~WillArm(x) THEN [x EXCEPT !.stale = TRUE] ELSE x

\* p goes on as r after it has written the schedule, the next run or the enabled flag.
HasWritten(p, r) == proc' = [q \in Procs |-> IF q = p THEN r ELSE Staled(proc[q])]

\* repo.update fails when the row is gone; the callers log that and go on.
Store(fields(_)) == row' = {fields(r) : r \in row}

Recurring == {r \in row : r.enabled /\ r.sched.kind # "at" /\ r.next # Never}
NoTimer == \A t \in handle : ~t.live

-----------------------------------------------------------------------------
(* schedule_job.                                                           *)

\* Bound: no second orphan; the race that makes one is between two tasks here.
MayRace == Cardinality(orphans) < MaxOrphans \/ \A q \in Procs : proc[q].at # "arm"

\* cancel_job, and the end for a job that is disabled or has no next run.
Cancels(p) ==
  /\ proc[p].at = "schedule" /\ MayRace
  /\ handle' = {}
  /\ IF WillArm(proc[p]) THEN GoesTo(p, "arm") ELSE Becomes(p, Idle)
  /\ lost' = (lost \/ (proc[p].stale /\ Recurring # {}))
  /\ UNCHANGED <<now, added, row, orphans, change, up, updates>>

NewTimer(p) == [sched |-> proc[p].sched, due |-> proc[p].next, live |-> TRUE]

\* A handle that is overwritten is dropped, which does not stop its timer.
Arms(p) ==
  /\ proc[p].at = "arm"
  /\ handle' = {NewTimer(p)}
  /\ orphans' = orphans \cup {t \in handle : t.live}
  /\ Becomes(p, Idle)
  /\ lost' = FALSE
  /\ UNCHANGED <<now, added, row, change, up, updates>>

-----------------------------------------------------------------------------
(* A timer fires and spawns a tick; it does not wait for it.               *)

IdleTickers == {p \in Tickers : proc[p].at = "idle"}
Due(t) == t.live /\ t.due <= now /\ IdleTickers # {}

SpawnsTick ==
  Becomes(CHOOSE p \in IdleTickers : TRUE, [Idle EXCEPT !.at = "load"])

\* An At timer has run to its end, and a Cron timer that matches no later time;
\* the handle stays in the map.
AfterFiring(t) ==
  LET next == ComputeNextRun(t.sched) IN
  IF t.sched.kind = "at" \/ next = Never THEN [t EXCEPT !.live = FALSE] ELSE [t EXCEPT !.due = next]

HandleFires ==
  /\ \E t \in handle : Due(t) /\ handle' = {AfterFiring(t)}
  /\ SpawnsTick
  /\ UNCHANGED <<now, added, row, orphans, change, up, lost, updates>>

OrphanFires ==
  /\ \E t \in orphans :
       /\ Due(t)
       /\ orphans' = (orphans \ {t}) \cup {u \in {AfterFiring(t)} : u.live}
  /\ SpawnsTick
  /\ UNCHANGED <<now, added, row, handle, change, up, lost, updates>>

-----------------------------------------------------------------------------
(* tick.                                                                   *)

\* The tick of a removed job leaves the timer alone (mutant).
TickLoadsQuietly(p) ==
  /\ proc[p].at = "load"
  /\ IF \E r \in row : r.enabled
     THEN \E r \in row : Becomes(p, [at |-> "run", sched |-> r.sched, enabled |-> TRUE,
                                     next |-> Never, retry |-> r.retry, stale |-> FALSE])
     ELSE Becomes(p, Idle)
  /\ UNCHANGED <<now, added, row, handle, orphans, change, up, lost, updates>>

\* The tick of a job that is gone cancels the timer, that of a disabled one ends.
TickLoads(p) ==
  /\ proc[p].at = "load"
  /\ handle' = IF row = {} THEN {} ELSE handle
  /\ IF \E r \in row : r.enabled
     THEN \E r \in row : Becomes(p, [at |-> "run", sched |-> r.sched, enabled |-> TRUE,
                                     next |-> Never, retry |-> r.retry, stale |-> FALSE])
     ELSE Becomes(p, Idle)
  /\ UNCHANGED <<now, added, row, orphans, change, up, lost, updates>>

\* The row cannot be read, or the runtime of its assistant not be resolved.
TickFails(p) ==
  /\ proc[p].at = "load" /\ row # {}
  /\ Becomes(p, Idle)
  /\ lost' = (lost \/ NoTimer)
  /\ UNCHANGED <<now, added, row, handle, orphans, change, up, updates>>

\* JobExecutor::execute succeeds or fails.
Executes(p) ==
  /\ proc[p].at = "run"
  /\ GoesTo(p, "settle")
  /\ UNCHANGED <<now, added, row, handle, orphans, change, up, lost, updates>>

\* A busy conversation is tried again for ever (mutant).
FindsBusyForever(p) ==
  /\ proc[p].at = "run"
  /\ GoesTo(p, "retrying")
  /\ UNCHANGED <<now, added, row, handle, orphans, change, up, lost, updates>>

\* A run that is given up does not reschedule the job (mutant).
FindsBusyAndDrops(p) ==
  /\ proc[p].at = "run"
  /\ IF proc[p].retry >= MaxRetries THEN Becomes(p, Idle) ELSE GoesTo(p, "retrying")
  /\ UNCHANGED <<now, added, row, handle, orphans, change, up, lost, updates>>

\* The conversation has a turn already: handle_busy.
FindsBusy(p) ==
  /\ proc[p].at = "run"
  /\ GoesTo(p, IF proc[p].retry >= MaxRetries THEN "settle" ELSE "retrying")
  /\ UNCHANGED <<now, added, row, handle, orphans, change, up, lost, updates>>

\* Success, Error and Skipped: the status is stored, the retry count reset.
TickSettles(p) ==
  /\ proc[p].at = "settle"
  /\ Store(LAMBDA r : [r EXCEPT !.retry = 0])
  /\ GoesTo(p, "reschedule")
  /\ UNCHANGED <<now, added, handle, orphans, change, up, lost, updates>>

\* reschedule_after_execution, with the schedule the tick has read.
TickReschedules(p) ==
  /\ proc[p].at = "reschedule"
  /\ IF proc[p].sched.kind = "at"
     THEN /\ Store(LAMBDA r : [r EXCEPT !.enabled = FALSE, !.next = Never])
          /\ HasWritten(p, [proc[p] EXCEPT !.at = "schedule", !.enabled = FALSE])
     ELSE LET next == ComputeNextRun(proc[p].sched) IN
          /\ Store(LAMBDA r : [r EXCEPT !.next = next])
          /\ HasWritten(p, [proc[p] EXCEPT !.at = "schedule", !.next = next])
  /\ UNCHANGED <<now, added, handle, orphans, change, up, lost, updates>>

\* The retry is not counted (mutant).
TickRetriesUncounted(p) ==
  /\ proc[p].at = "retrying"
  /\ Becomes(p, [proc[p] EXCEPT !.at = "schedule", !.sched = At(Later(RetryInterval)),
                                !.next = Later(RetryInterval)])
  /\ UNCHANGED <<now, added, row, handle, orphans, change, up, lost, updates>>

\* schedule_retry: a one-shot timer takes the place of the job's own.
TickRetries(p) ==
  /\ proc[p].at = "retrying"
  /\ Store(LAMBDA r : [r EXCEPT !.retry = proc[p].retry + 1])
  /\ Becomes(p, [proc[p] EXCEPT !.at = "schedule", !.sched = At(Later(RetryInterval)),
                                !.next = Later(RetryInterval)])
  /\ UNCHANGED <<now, added, handle, orphans, change, up, lost, updates>>

-----------------------------------------------------------------------------
(* Requests, one at a time.                                                *)

UserIsFree == up /\ proc["user"].at = "idle"

AddJob(s) ==
  /\ UserIsFree /\ ~added
  /\ added' = TRUE
  /\ row' = {[sched |-> s, enabled |-> TRUE, next |-> ComputeNextRun(s), retry |-> 0]}
  /\ Becomes("user", [at |-> "schedule", sched |-> s, enabled |-> TRUE,
                      next |-> ComputeNextRun(s), retry |-> 0, stale |-> FALSE])
  /\ UNCHANGED <<now, handle, orphans, change, up, lost, updates>>

\* What the update sets; each of the two sets has at most one element.
Changes == [sched : {{}} \cup {{s} : s \in Requested}, enabled : {{}, {TRUE}, {FALSE}}]

Chosen(new, old) == CHOOSE x \in (IF new = {} THEN {old} ELSE new) : TRUE

UpdateReads ==
  /\ UserIsFree /\ updates < MaxUpdates
  /\ updates' = updates + 1
  /\ \E r \in row : \E c \in Changes :
       /\ change' = c
       /\ Becomes("user",
            [at |-> "write", sched |-> Chosen(c.sched, r.sched),
             enabled |-> Chosen(c.enabled, r.enabled),
             next |-> IF c = NoChange THEN r.next ELSE ComputeNextRun(Chosen(c.sched, r.sched)),
             retry |-> 0, stale |-> FALSE])
  /\ UNCHANGED <<now, added, row, handle, orphans, up, lost>>

\* Only what the request names is written; the timer is then armed from the copy.
UpdateWrites ==
  /\ proc["user"].at = "write"
  /\ Store(LAMBDA r : [r EXCEPT !.sched = Chosen(change.sched, r.sched),
                                !.enabled = Chosen(change.enabled, r.enabled),
                                !.next = IF change = NoChange THEN r.next ELSE proc["user"].next])
  /\ IF row = {} THEN Becomes("user", Idle)
     ELSE IF change = NoChange THEN GoesTo("user", "schedule")
     ELSE HasWritten("user", [proc["user"] EXCEPT !.at = "schedule", !.stale = FALSE])
  /\ change' = NoChange
  /\ UNCHANGED <<now, added, handle, orphans, up, lost, updates>>

\* remove_job and the cascade of a deleted conversation: the timer first.
RemoveCancels ==
  /\ UserIsFree /\ row # {}
  /\ handle' = {}
  /\ GoesTo("user", "delete")
  /\ UNCHANGED <<now, added, row, orphans, change, up, lost, updates>>

RemoveDeletes ==
  /\ proc["user"].at = "delete"
  /\ row' = {}
  /\ Becomes("user", Idle)
  /\ UNCHANGED <<now, added, handle, orphans, change, up, lost, updates>>

\* The client of a request goes, or the database refuses: the handler ends where
\* it waits.  schedule_job itself does not wait.
DropRequest(p) ==
  /\ p \in {"user", "resume"} /\ proc[p].at \notin {"idle", "arm"}
  /\ Becomes(p, Idle)
  /\ change' = IF p = "user" THEN NoChange ELSE change
  /\ lost' = (lost \/ (proc[p].at \in {"schedule", "delete"} /\ NoTimer))
  /\ UNCHANGED <<now, added, row, handle, orphans, up, updates>>

\* run_now executes beside the ticks, for a disabled job too; all it leaves
\* behind, at its end, is the status and the retry count.
RunNowEnds ==
  /\ up /\ row # {}
  /\ Store(LAMBDA r : [r EXCEPT !.retry = 0])
  /\ UNCHANGED <<now, added, handle, orphans, proc, change, up, lost, updates>>

-----------------------------------------------------------------------------
(* handle_system_resume.                                                   *)

Missed(r) == r.next # Never /\ r.next < now

ResumeLists ==
  /\ up /\ proc["resume"].at = "idle"
  /\ \E r \in row :
       /\ r.enabled
       /\ Becomes("resume", [at |-> IF Missed(r) THEN "mark" ELSE "schedule", sched |-> r.sched,
                             enabled |-> TRUE, next |-> r.next, retry |-> 0, stale |-> FALSE])
  /\ UNCHANGED <<now, added, row, handle, orphans, change, up, lost, updates>>

\* The row says "missed", and a tips message that it was not run.
ResumeMarks ==
  /\ proc["resume"].at = "mark"
  /\ Store(LAMBDA r : [r EXCEPT !.retry = 0])
  /\ GoesTo("resume", "remiss")
  /\ UNCHANGED <<now, added, handle, orphans, change, up, lost, updates>>

\* reschedule_after_missed: the only caller that stops when the row is gone.
ResumeReschedules ==
  /\ proc["resume"].at = "remiss"
  /\ LET me == proc["resume"] IN
     IF me.sched.kind = "at"
     THEN /\ Store(LAMBDA r : [r EXCEPT !.enabled = FALSE, !.next = Never])
          /\ HasWritten("resume", [me EXCEPT !.at = "schedule", !.enabled = FALSE])
     ELSE LET next == ComputeNextRun(me.sched) IN
          /\ Store(LAMBDA r : [r EXCEPT !.next = next])
          /\ HasWritten("resume", IF row = {} THEN Idle
                                  ELSE [me EXCEPT !.at = "schedule", !.next = next])
  /\ UNCHANGED <<now, added, handle, orphans, change, up, lost, updates>>

-----------------------------------------------------------------------------
(* The process and the clock.                                              *)

Crash ==
  /\ up /\ up' = FALSE
  /\ handle' = {} /\ orphans' = {}
  /\ proc' = [p \in Procs |-> Idle]
  /\ change' = NoChange /\ lost' = FALSE
  /\ UNCHANGED <<now, added, row, updates>>

\* init: a job whose conversation is gone is deleted, an enabled one is armed,
\* for a time that may have passed.
Restart ==
  /\ ~up
  /\ up' = TRUE
  /\ LET enabled == {r \in row : r.enabled} IN
     \/ enabled # {} /\ row' = {} /\ handle' = {}
     \/ /\ row' = row
        /\ handle' = {[sched |-> r.sched, due |-> r.next, live |-> TRUE] :
                        r \in {e \in enabled : e.next # Never}}
  /\ UNCHANGED <<now, added, orphans, proc, change, lost, updates>>

TimePasses ==
  /\ now < MaxTime
  /\ now' = now + 1
  /\ UNCHANGED <<added, row, handle, orphans, proc, change, up, lost, updates>>

-----------------------------------------------------------------------------
Tick(p) ==
  \/ TickLoads(p) \/ TickFails(p) \/ Executes(p) \/ FindsBusy(p)
  \/ TickSettles(p) \/ TickReschedules(p) \/ TickRetries(p)
ScheduleJob(p) == Cancels(p) \/ Arms(p)
Request ==
  \/ \E s \in Requested : AddJob(s)
  \/ UpdateReads \/ RemoveCancels \/ RunNowEnds
Resume == ResumeMarks \/ ResumeReschedules

\* The next step of what is under way, which may be its end.
TaskStep(p) ==
  \/ p \in Tickers /\ Tick(p)
  \/ p = "user" /\ (UpdateWrites \/ RemoveDeletes)
  \/ p = "resume" /\ Resume
  \/ ScheduleJob(p) \/ DropRequest(p)

Next ==
  \/ HandleFires \/ OrphanFires
  \/ \E p \in Procs : TaskStep(p)
  \/ Request \/ ResumeLists
  \/ Crash \/ Restart \/ TimePasses

\* Time passes, a timer that is due fires, and a task that has begun goes on;
\* strongly fair, because the bounds on ticks and orphans may keep them waiting.
\* Nothing is assumed of requests, of the outcome of an execution, or of restarts.
Fairness ==
  /\ WF_vars(TimePasses) /\ SF_vars(HandleFires)
  /\ \A p \in Procs : SF_vars(TaskStep(p))

Spec == Init /\ [][Next]_vars /\ Fairness

-----------------------------------------------------------------------------
(* Properties.                                                             *)

Quiet == up /\ \A p \in Procs : proc[p].at = "idle"

\* When nothing is under way, a job that is enabled, recurs and has a next run
\* has a timer that will fire: whatever ticks, retries, updates of any kind, the
\* removal and the resume handler have done to it in between, the job does not
\* fall silent (schedule_job, reschedule_after_execution, schedule_retry).
\* Excepted is a job whose timer was lost, until it is armed again: a request was
\* dropped between the row and the timer, a tick failed after a retry timer, or
\* a task with a stale copy cancelled a timer that was armed after it had read.
EnabledIsScheduled == Quiet /\ Recurring # {} /\ ~lost => \E t \in handle : t.live

\* A tick that ends after its job was removed may arm the timer again; the
\* next tick then finds no row and cancels it.  Nobody arms it for ever: from
\* some time on no timer of the job is in the map.
RemovedGoesQuiet == (added /\ row = {}) ~> []NoTimer

\* The timer of a recurring job is off its schedule while it is a retry timer,
\* and when a tick or the resume handler that read the job before an update has
\* armed it after that update.  It does not stay so: a conversation that is
\* busy each time is given up after max_retries, and a timer with the schedule
\* of the row is armed and runs, unless the process ends, the timer is lost or
\* the job no longer recurs (handle_busy, schedule_retry,
\* reschedule_after_execution).  Runs by hand start the retries anew and a tick
\* that fails counts none, so they are taken to stop.
OffSchedule == \E r \in Recurring : \E t \in handle : t.live /\ t.sched # r.sched
OnSchedule == \E r \in Recurring : \E t \in handle : t.live /\ t.sched = r.sched
Undisturbed == ~RunNowEnds /\ \A p \in Tickers : ~TickFails(p)
BackOnSchedule ==
  <>[][Undisturbed]_vars =>
    (OffSchedule ~> (OnSchedule \/ ~up \/ lost \/ Recurring = {}))

=============================================================================
