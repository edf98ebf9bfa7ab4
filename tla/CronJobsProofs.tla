--------------------------- MODULE CronJobsProofs ---------------------------
(***************************************************************************)
(* Proofs about CronJobs, for any number of ticks, schedules, retries,     *)
(* updates and crashes: types, and that a job that recurs stays scheduled. *)
(***************************************************************************)
EXTENDS CronJobs, TLAPS

-----------------------------------------------------------------------------
(* Types.                                                                  *)

LEMMA TimeFacts ==
  /\ \A t \in Time : t # Never
  /\ 0 \in Time /\ At(0) \in Schedule
  /\ \A d \in Nat : now \in Time => Later(d) \in Time
  /\ \A s \in Schedule : now \in Time => ComputeNextRun(s) \in Time \cup {Never}
  /\ Requested \subseteq Schedule
  /\ Idle \in Proc
  /\ NoChange \in [sched : SUBSET Requested, enabled : SUBSET BOOLEAN]
<1> USE CronAssumption DEF Time, Never, Schedule, At
<1>1. 0 \in Time /\ At(0) \in Schedule
  OBVIOUS
<1>0. Periods \subseteq Nat
  OBVIOUS
<1>2. \A d \in Nat : now \in Time => Later(d) \in Time
  BY DEF Later
<1>3. ASSUME NEW s \in Schedule, now \in Time PROVE ComputeNextRun(s) \in Time \cup {Never}
  <2>1. CASE s \in [kind : {"at"}, n : Time]
    BY <2>1 DEF ComputeNextRun
  <2>2. CASE s \in [kind : {"every"}, n : Periods]
    <3>1. s.kind = "every" /\ s.n \in Periods
      BY <2>2
    <3>2. Later(s.n) \in Time
      BY <1>2, <1>3, <1>0, <3>1
    <3> QED
      BY <3>1, <3>2 DEF ComputeNextRun
  <2>3. CASE s \in [kind : {"cron"}, n : CronEnds]
    <3>1. s.kind = "cron" /\ s.n \in 0..MaxTime
      BY <2>3
    <3>2. now < s.n => now + 1 \in Time
      BY <1>3, <3>1
    <3> QED
      BY <3>1, <3>2 DEF ComputeNextRun
  <2> QED
    BY <2>1, <2>2, <2>3 DEF Recurrent
<1>4. Requested \subseteq Schedule
  BY DEF Requested, Recurrent
<1>5. Idle \in Proc
  BY <1>1 DEF Idle, Proc, Phase
<1>6. \A t \in Time : t # Never
  OBVIOUS
<1> QED
  BY <1>1, <1>2, <1>3, <1>4, <1>5, <1>6 DEF NoChange

LEMMA ChosenIsEither ==
  ASSUME NEW new, NEW old PROVE Chosen(new, old) \in new \cup {old}
BY DEF Chosen

\* Which phases each task goes through, and what a retry and an armed timer need.
PhaseOf(p) ==
  IF p = "user" THEN {"idle", "write", "delete", "schedule", "arm"}
  ELSE IF p = "resume" THEN {"idle", "mark", "remiss", "schedule", "arm"}
  ELSE {"idle", "load", "run", "settle", "retrying", "reschedule", "schedule", "arm"}

TaskOK(p, x) ==
  /\ x.at \in PhaseOf(p)
  /\ x.at = "retrying" => x.retry < MaxRetries
  /\ x.at = "arm" => x.next # Never

Types ==
  /\ TypeOK
  /\ \A p \in Procs : TaskOK(p, proc[p])

\* The row may be written as p goes on, which makes other copies stale.
Goes(p, x) == Becomes(p, x) \/ HasWritten(p, x)

LEMMA StaledKeeps ==
  ASSUME NEW x \in Proc
  PROVE  /\ Staled(x) \in Proc
         /\ Staled(x).at = x.at /\ Staled(x).enabled = x.enabled
         /\ Staled(x).next = x.next /\ Staled(x).retry = x.retry
BY DEF Staled, Proc

\* What an action that makes p go on leaves to show of the tasks.
LEMMA TasksKept ==
  ASSUME Types, NEW p \in Procs, NEW x \in Proc, Goes(p, x), TaskOK(p, x)
  PROVE  /\ proc' \in [Procs -> Proc]
         /\ \A q \in Procs : TaskOK(q, proc'[q])
<1>1. \A q \in Procs : proc[q] \in Proc /\ TaskOK(q, proc[q])
  BY DEF Types, TypeOK
<1>2. CASE Becomes(p, x)
  BY <1>1, <1>2 DEF Types, TypeOK, Becomes
<1>3. CASE HasWritten(p, x)
  <2>1. \A q \in Procs : proc'[q] = IF q = p THEN x ELSE Staled(proc[q])
    BY <1>3 DEF HasWritten
  <2>2. \A q \in Procs : Staled(proc[q]) \in Proc /\ TaskOK(q, Staled(proc[q]))
    BY <1>1, StaledKeeps DEF TaskOK
  <2>3. proc' = [q \in Procs |-> IF q = p THEN x ELSE Staled(proc[q])]
    BY <1>3 DEF HasWritten
  <2> QED
    BY <2>1, <2>2, <2>3
<1> QED
  BY <1>2, <1>3 DEF Goes

LEMMA TaskTypes ==
  ASSUME Types, NEW p \in Procs
  PROVE  /\ proc[p] \in Proc /\ TaskOK(p, proc[p])
         /\ proc[p].sched \in Schedule /\ proc[p].enabled \in BOOLEAN
         /\ proc[p].next \in Time \cup {Never} /\ proc[p].retry \in 0..MaxRetries
BY DEF Types, TypeOK, Proc

LEMMA MoveTypes ==
  ASSUME Types, NEW p \in Procs, NEW a \in PhaseOf(p),
         a = "retrying" => proc[p].retry < MaxRetries,
         a = "arm" => proc[p].next # Never
  PROVE  /\ [proc[p] EXCEPT !.at = a] \in Proc
         /\ TaskOK(p, [proc[p] EXCEPT !.at = a])
BY TaskTypes DEF Proc, TaskOK, PhaseOf, Phase


LEMMA ScheduleFacts ==
  ASSUME Types, NEW s \in Schedule
  PROVE  /\ s.kind \in {"at", "every", "cron"}
         /\ ComputeNextRun(s) \in Time \cup {Never}
<1>1. now \in Time
  BY DEF Types, TypeOK
<1>2. s.kind \in {"at", "every", "cron"}
  BY DEF Schedule, Recurrent
<1> QED
  BY <1>1, <1>2, TimeFacts

LEMMA RowFacts ==
  ASSUME Types, NEW r \in row
  PROVE  /\ r \in Row /\ r.sched \in Schedule /\ r.enabled \in BOOLEAN
         /\ r.next \in Time \cup {Never} /\ r.retry \in 0..MaxRetries
         /\ row = {r}
BY DEF Types, TypeOK, Row

\* What an action leaves to show when it moves p on and keeps the rest.
LEMMA TaskStepTypes ==
  ASSUME Types, NEW p \in Procs, NEW x \in Proc, Goes(p, x), TaskOK(p, x),
         row' \subseteq Row, \A r, s \in row' : r = s,
         handle' \subseteq Timer, \A t, u \in handle' : t = u,
         orphans' \subseteq {t \in Timer : t.live},
         UNCHANGED <<now, up, updates>>, added' \in BOOLEAN, lost' \in BOOLEAN,
         change' \in [sched : SUBSET Requested, enabled : SUBSET BOOLEAN]
  PROVE  Types'
<1>1. proc' \in [Procs -> Proc] /\ \A q \in Procs : TaskOK(q, proc'[q])
  BY TasksKept
<1> QED
  BY <1>1 DEF Types, TypeOK, TaskOK

LEMMA MapTypes ==
  ASSUME Types
  PROVE  /\ row \subseteq Row /\ \A r, s \in row : r = s
         /\ handle \subseteq Timer /\ \A t, u \in handle : t = u
         /\ orphans \subseteq {t \in Timer : t.live}
         /\ added \in BOOLEAN /\ lost \in BOOLEAN
         /\ change \in [sched : SUBSET Requested, enabled : SUBSET BOOLEAN]
BY DEF Types, TypeOK

LEMMA InitTypes == Init => Types
<1> SUFFICES ASSUME Init PROVE Types
  OBVIOUS
<1>1. Idle \in Proc /\ NoChange \in [sched : SUBSET Requested, enabled : SUBSET BOOLEAN]
  BY TimeFacts
<1>2. 0 \in Time /\ 0 \in 0..MaxUpdates
  BY TimeFacts, CronAssumption
<1>3. \A p \in Procs : TaskOK(p, Idle)
  BY DEF TaskOK, PhaseOf, Idle
<1> QED
  BY <1>1, <1>2, <1>3 DEF Init, Types, TypeOK

LEMMA IdleTask == \A p \in Procs : Idle \in Proc /\ TaskOK(p, Idle)
BY TimeFacts DEF TaskOK, PhaseOf, Idle

LEMMA CancelsTypes ==
  ASSUME Types, NEW p \in Procs, Cancels(p) PROVE Types'
<1>1. {} \subseteq Timer /\ \A t, u \in {} : t = u
  OBVIOUS
<1>2. CASE WillArm(proc[p])
  <2>1. "arm" \in PhaseOf(p)
    BY DEF PhaseOf
  <2>2. /\ [proc[p] EXCEPT !.at = "arm"] \in Proc
        /\ TaskOK(p, [proc[p] EXCEPT !.at = "arm"])
    BY <1>2, <2>1, MoveTypes DEF WillArm
  <2> QED
    BY <1>1, <1>2, <2>2, TaskStepTypes, MapTypes DEF Cancels, GoesTo, Goes
<1>3. CASE ~WillArm(proc[p])
  BY <1>1, <1>3, IdleTask, TaskStepTypes, MapTypes DEF Cancels, Goes
<1> QED
  BY <1>2, <1>3

LEMMA ArmsTypes ==
  ASSUME Types, NEW p \in Procs, Arms(p) PROVE Types'
<1>1. proc[p].next \in Time
  BY TaskTypes DEF Arms, TaskOK
<1>2. NewTimer(p) \in Timer
  BY <1>1, TaskTypes DEF NewTimer, Timer
<1>3. orphans' \subseteq {t \in Timer : t.live}
  BY MapTypes DEF Arms
<1> QED
  BY <1>2, <1>3, IdleTask, TaskStepTypes, MapTypes DEF Arms, Goes

LEMMA SpawnsOne ==
  ASSUME Types, IdleTickers # {}, SpawnsTick
  PROVE  \E p \in Tickers :
           /\ p \in Procs /\ proc[p].at = "idle"
           /\ [Idle EXCEPT !.at = "load"] \in Proc
           /\ TaskOK(p, [Idle EXCEPT !.at = "load"])
           /\ Becomes(p, [Idle EXCEPT !.at = "load"])
<1> DEFINE p == CHOOSE q \in IdleTickers : TRUE
<1>1. p \in IdleTickers
  OBVIOUS
<1>2. p \in Tickers /\ p \in Procs /\ proc[p].at = "idle" /\ p # "user" /\ p # "resume"
  BY <1>1, CronAssumption DEF IdleTickers, Procs
<1>3. [Idle EXCEPT !.at = "load"] \in Proc
  BY TimeFacts DEF Proc, Phase
<1>4. TaskOK(p, [Idle EXCEPT !.at = "load"])
  BY <1>2 DEF TaskOK, PhaseOf, Idle
<1>5. Becomes(p, [Idle EXCEPT !.at = "load"])
  BY DEF SpawnsTick
<1> QED
  BY <1>2, <1>3, <1>4, <1>5

LEMMA AfterFiringTypes ==
  ASSUME Types, NEW t \in Timer PROVE AfterFiring(t) \in Timer
<1>1. t.sched \in Schedule /\ ComputeNextRun(t.sched) \in Time \cup {Never}
  BY ScheduleFacts DEF Timer
<1> DEFINE n == ComputeNextRun(t.sched)
<1>2. CASE t.sched.kind = "at" \/ n = Never
  <2>1. AfterFiring(t) = [t EXCEPT !.live = FALSE]
    BY <1>2 DEF AfterFiring
  <2> QED
    BY <2>1 DEF Timer
<1>3. CASE ~(t.sched.kind = "at" \/ n = Never)
  <2>1. AfterFiring(t) = [t EXCEPT !.due = n] /\ n \in Time
    BY <1>1, <1>3 DEF AfterFiring
  <2> HIDE DEF n
  <2> QED
    BY <2>1 DEF Timer
<1> QED
  BY <1>2, <1>3

LEMMA FiresTypes ==
  ASSUME Types, HandleFires \/ OrphanFires PROVE Types'
<1>1. CASE HandleFires
  <2>1. IdleTickers # {} /\ SpawnsTick
    BY <1>1 DEF HandleFires, Due
  <2>2. handle' \subseteq Timer /\ \A t, u \in handle' : t = u
    BY <1>1, AfterFiringTypes, MapTypes DEF HandleFires
  <2> QED
    BY <1>1, <2>1, <2>2, SpawnsOne, TaskStepTypes, MapTypes DEF HandleFires, Goes
<1>2. CASE OrphanFires
  <2>1. IdleTickers # {} /\ SpawnsTick
    BY <1>2 DEF OrphanFires, Due
  <2>2. orphans' \subseteq {t \in Timer : t.live}
    BY <1>2, AfterFiringTypes, MapTypes DEF OrphanFires
  <2> QED
    BY <1>2, <2>1, <2>2, SpawnsOne, TaskStepTypes, MapTypes DEF OrphanFires, Goes
<1> QED
  BY <1>1, <1>2

\* The rows the handlers write in the place of the one they find.
LEMMA WrittenRows ==
  ASSUME Types, NEW r \in row
  PROVE  /\ [r EXCEPT !.retry = 0] \in Row
         /\ [r EXCEPT !.enabled = FALSE, !.next = Never] \in Row
         /\ \A t \in Time \cup {Never} : [r EXCEPT !.next = t] \in Row
         /\ \A n \in 0..MaxRetries : [r EXCEPT !.retry = n] \in Row
<1>1. r = [sched |-> r.sched, enabled |-> r.enabled, next |-> r.next, retry |-> r.retry]
  BY RowFacts DEF Row
<1>2. r.sched \in Schedule /\ r.enabled \in BOOLEAN
      /\ r.next \in Time \cup {Never} /\ r.retry \in 0..MaxRetries
  BY RowFacts
<1>3. 0 \in 0..MaxRetries
  BY CronAssumption
<1>4. ASSUME NEW n \in 0..MaxRetries PROVE [r EXCEPT !.retry = n] \in Row
  <2>1. [r EXCEPT !.retry = n]
          = [sched |-> r.sched, enabled |-> r.enabled, next |-> r.next, retry |-> n]
    BY <1>1
  <2> QED
    BY <2>1, <1>2 DEF Row
<1>5. ASSUME NEW t \in Time \cup {Never} PROVE [r EXCEPT !.next = t] \in Row
  <2>1. [r EXCEPT !.next = t]
          = [sched |-> r.sched, enabled |-> r.enabled, next |-> t, retry |-> r.retry]
    BY <1>1
  <2> QED
    BY <2>1, <1>2 DEF Row
<1>6. [r EXCEPT !.enabled = FALSE, !.next = Never] \in Row
  BY RowFacts DEF Row
<1> QED
  BY <1>3, <1>4, <1>5, <1>6

\* What a task that goes on to arm the timer knows of the job.
LEMMA ProcChanges ==
  ASSUME Types, NEW p \in Procs
  PROVE  /\ [proc[p] EXCEPT !.at = "schedule", !.enabled = FALSE] \in Proc
         /\ [proc[p] EXCEPT !.at = "schedule", !.enabled = FALSE].at = "schedule"
         /\ [proc[p] EXCEPT !.at = "schedule", !.stale = FALSE] \in Proc
         /\ [proc[p] EXCEPT !.at = "schedule", !.stale = FALSE].at = "schedule"
         /\ \A t \in Time \cup {Never} :
              /\ [proc[p] EXCEPT !.at = "schedule", !.next = t] \in Proc
              /\ [proc[p] EXCEPT !.at = "schedule", !.next = t].at = "schedule"
         /\ \A s \in Schedule : \A t \in Time :
              /\ [proc[p] EXCEPT !.at = "schedule", !.sched = s, !.next = t] \in Proc
              /\ [proc[p] EXCEPT !.at = "schedule", !.sched = s, !.next = t].at = "schedule"
<1>1. proc[p] \in Proc /\ "schedule" \in Phase
  BY TaskTypes DEF Phase
<1>2. /\ [proc[p] EXCEPT !.at = "schedule", !.enabled = FALSE] \in Proc
      /\ [proc[p] EXCEPT !.at = "schedule", !.enabled = FALSE].at = "schedule"
      /\ [proc[p] EXCEPT !.at = "schedule", !.stale = FALSE] \in Proc
      /\ [proc[p] EXCEPT !.at = "schedule", !.stale = FALSE].at = "schedule"
  BY <1>1 DEF Proc
<1>3. ASSUME NEW t \in Time \cup {Never}
      PROVE  /\ [proc[p] EXCEPT !.at = "schedule", !.next = t] \in Proc
             /\ [proc[p] EXCEPT !.at = "schedule", !.next = t].at = "schedule"
  BY <1>1 DEF Proc
<1>4. ASSUME NEW s \in Schedule, NEW t \in Time
      PROVE  /\ [proc[p] EXCEPT !.at = "schedule", !.sched = s, !.next = t] \in Proc
             /\ [proc[p] EXCEPT !.at = "schedule", !.sched = s, !.next = t].at = "schedule"
  BY <1>1 DEF Proc
<1> QED
  BY <1>2, <1>3, <1>4

\* Those whose task is a tick, and those whose task goes to a phase of a tick.
TickPhase == {"load", "run", "settle", "retrying", "reschedule"}

LEMMA TickerFacts ==
  ASSUME NEW p \in Tickers
  PROVE  /\ p \in Procs /\ p # "user" /\ p # "resume"
         /\ TickPhase \cup {"idle", "schedule"} \subseteq PhaseOf(p)
BY CronAssumption DEF Procs, PhaseOf, TickPhase

LEMMA TickLoadsTypes ==
  ASSUME Types, NEW p \in Tickers, TickLoads(p) PROVE Types'
<1>1. handle' \subseteq Timer /\ \A t, u \in handle' : t = u
  BY MapTypes DEF TickLoads
<1>2. p \in Procs
  BY TickerFacts
<1>3. CASE \E r \in row : r.enabled
  <2>1. PICK r \in row : Becomes(p, [at |-> "run", sched |-> r.sched, enabled |-> TRUE,
                                     next |-> Never, retry |-> r.retry, stale |-> FALSE])
    BY <1>3 DEF TickLoads
  <2> DEFINE x == [at |-> "run", sched |-> r.sched, enabled |-> TRUE,
                   next |-> Never, retry |-> r.retry, stale |-> FALSE]
  <2>2. x \in Proc
    BY RowFacts DEF Proc, Phase
  <2>3. TaskOK(p, x)
    BY TickerFacts DEF TaskOK, TickPhase
  <2> HIDE DEF x
  <2>4. Becomes(p, x)
    BY <2>1 DEF x
  <2> QED
    BY <1>1, <1>2, <2>2, <2>3, <2>4, TaskStepTypes, MapTypes DEF TickLoads, Goes
<1>4. CASE ~\E r \in row : r.enabled
  BY <1>1, <1>2, <1>4, IdleTask, TaskStepTypes, MapTypes DEF TickLoads, Goes
<1> QED
  BY <1>3, <1>4

LEMMA TickFailsTypes ==
  ASSUME Types, NEW p \in Tickers, TickFails(p) PROVE Types'
<1>1. p \in Procs
  BY TickerFacts
<1> QED
  BY <1>1, IdleTask, TaskStepTypes, MapTypes DEF TickFails, Goes

LEMMA TickMovesTypes ==
  ASSUME Types, NEW p \in Tickers, Executes(p) \/ FindsBusy(p) \/ TickSettles(p)
  PROVE  Types'
<1>1. p \in Procs
  BY TickerFacts
<1>2. row' \subseteq Row /\ \A r, s \in row' : r = s
  BY MapTypes, WrittenRows DEF Executes, FindsBusy, TickSettles, Store
<1>3. PICK a \in TickPhase : /\ GoesTo(p, a)
                             /\ a = "retrying" => proc[p].retry < MaxRetries
  <2>1. CASE Executes(p)
    BY <2>1 DEF Executes, TickPhase
  <2>2. CASE FindsBusy(p)
    BY <2>2, TaskTypes, TickerFacts, CronAssumption DEF FindsBusy, TickPhase
  <2>3. CASE TickSettles(p)
    BY <2>3 DEF TickSettles, TickPhase
  <2> QED
    BY <2>1, <2>2, <2>3
<1>4. a \in PhaseOf(p) /\ a # "arm"
  BY TickerFacts DEF TickPhase
<1>5. [proc[p] EXCEPT !.at = a] \in Proc /\ TaskOK(p, [proc[p] EXCEPT !.at = a])
  BY <1>1, <1>3, <1>4, MoveTypes
<1>6. UNCHANGED <<now, added, handle, orphans, change, up, lost, updates>>
  BY DEF Executes, FindsBusy, TickSettles
<1> QED
  BY <1>1, <1>2, <1>3, <1>5, <1>6, TaskStepTypes, MapTypes DEF GoesTo, Goes

\* A store changes the row of the job, or finds none.
LEMMA DisabledRows ==
  ASSUME Types, row' = {[r EXCEPT !.enabled = FALSE, !.next = Never] : r \in row}
  PROVE  row' \subseteq Row /\ \A r, s \in row' : r = s
<1>1. \A r \in row : [r EXCEPT !.enabled = FALSE, !.next = Never] \in Row
  BY WrittenRows
<1>2. \A r, s \in row : r = s
  BY MapTypes
<1> QED
  BY <1>1, <1>2

LEMMA TickReschedulesTypes ==
  ASSUME Types, NEW p \in Tickers, TickReschedules(p) PROVE Types'
<1>1. p \in Procs /\ "schedule" \in PhaseOf(p)
  BY TickerFacts
<1>2. proc[p].sched \in Schedule /\ ComputeNextRun(proc[p].sched) \in Time \cup {Never}
  BY <1>1, TaskTypes, ScheduleFacts
<1>3. row' \subseteq Row /\ \A r, s \in row' : r = s
  <2>1. CASE proc[p].sched.kind = "at"
    <3>1. row' = {[r EXCEPT !.enabled = FALSE, !.next = Never] : r \in row}
      BY <2>1 DEF TickReschedules, Store
    <3> QED
      BY <3>1, DisabledRows
  <2>2. CASE proc[p].sched.kind # "at"
    <3> DEFINE n == ComputeNextRun(proc[p].sched)
    <3>1. row' = {[r EXCEPT !.next = n] : r \in row}
      BY <2>2 DEF TickReschedules, Store
    <3>2. \A r \in row : [r EXCEPT !.next = n] \in Row
      BY <1>2, WrittenRows
    <3> HIDE DEF n
    <3> QED
      BY <3>1, <3>2, MapTypes
  <2> QED
    BY <2>1, <2>2
<1>4. PICK x \in Proc : HasWritten(p, x) /\ x.at = "schedule"
  <2>1. CASE proc[p].sched.kind = "at"
    BY <2>1, <1>1, ProcChanges DEF TickReschedules
  <2>2. CASE proc[p].sched.kind # "at"
    <3> DEFINE n == ComputeNextRun(proc[p].sched)
    <3>1. HasWritten(p, [proc[p] EXCEPT !.at = "schedule", !.next = n])
      BY <2>2 DEF TickReschedules
    <3> HIDE DEF n
    <3> QED
      BY <3>1, <1>1, <1>2, ProcChanges DEF n
  <2> QED
    BY <2>1, <2>2
<1>5. TaskOK(p, x)
  BY <1>1, <1>4 DEF TaskOK
<1> QED
  BY <1>1, <1>3, <1>4, <1>5, TaskStepTypes, MapTypes DEF TickReschedules, Goes

LEMMA TickRetriesTypes ==
  ASSUME Types, NEW p \in Tickers, TickRetries(p) PROVE Types'
<1>1. p \in Procs /\ "schedule" \in PhaseOf(p)
  BY TickerFacts
<1>2. Later(RetryInterval) \in Time /\ At(Later(RetryInterval)) \in Schedule
  BY TimeFacts, CronAssumption DEF Types, TypeOK, At, Schedule
<1>3. proc[p].retry + 1 \in 0..MaxRetries
  BY <1>1, TaskTypes, CronAssumption DEF TickRetries, TaskOK
<1>4. row' \subseteq Row /\ \A r, s \in row' : r = s
  <2>1. row' = {[r EXCEPT !.retry = proc[p].retry + 1] : r \in row}
    BY DEF TickRetries, Store
  <2>2. \A r \in row : [r EXCEPT !.retry = proc[p].retry + 1] \in Row
    BY <1>3, WrittenRows
  <2> QED
    BY <2>1, <2>2, MapTypes
<1>5. PICK x \in Proc : Becomes(p, x) /\ x.at = "schedule"
  <2> DEFINE x == [proc[p] EXCEPT !.at = "schedule", !.sched = At(Later(RetryInterval)),
                                  !.next = Later(RetryInterval)]
  <2>1. x \in Proc /\ x.at = "schedule"
    BY <1>1, <1>2, ProcChanges
  <2>2. Becomes(p, x)
    BY DEF TickRetries
  <2> HIDE DEF x
  <2> QED
    BY <2>1, <2>2
<1>6. TaskOK(p, x)
  BY <1>1, <1>5 DEF TaskOK
<1> QED
  BY <1>1, <1>4, <1>5, <1>6, TaskStepTypes, MapTypes DEF TickRetries, Goes

LEMMA AddJobTypes ==
  ASSUME Types, NEW s \in Requested, AddJob(s) PROVE Types'
<1>1. s \in Schedule /\ ComputeNextRun(s) \in Time \cup {Never} /\ 0 \in 0..MaxRetries
  BY TimeFacts, CronAssumption DEF Types, TypeOK
<1>2. row' \subseteq Row /\ \A r, q \in row' : r = q
  BY <1>1 DEF AddJob, Row
<1>3. PICK x \in Proc : Becomes("user", x) /\ x.at = "schedule"
  <2> DEFINE x == [at |-> "schedule", sched |-> s, enabled |-> TRUE,
                   next |-> ComputeNextRun(s), retry |-> 0, stale |-> FALSE]
  <2>1. x \in Proc /\ x.at = "schedule"
    BY <1>1 DEF Proc, Phase
  <2>2. Becomes("user", x)
    BY DEF AddJob
  <2> HIDE DEF x
  <2> QED
    BY <2>1, <2>2
<1>4. "user" \in Procs /\ TaskOK("user", x)
  BY <1>3 DEF TaskOK, PhaseOf, Procs
<1> QED
  BY <1>2, <1>3, <1>4, TaskStepTypes, MapTypes DEF AddJob, Goes

\* The values the update under way has chosen are of their types.
LEMMA ChosenTypes ==
  ASSUME Types, NEW r \in row, NEW c \in [sched : SUBSET Requested, enabled : SUBSET BOOLEAN]
  PROVE  Chosen(c.sched, r.sched) \in Schedule /\ Chosen(c.enabled, r.enabled) \in BOOLEAN
<1>1. c.sched \subseteq Schedule /\ c.enabled \subseteq BOOLEAN
  BY TimeFacts
<1> QED
  BY <1>1, RowFacts, ChosenIsEither

LEMMA UpdateReadsTypes ==
  ASSUME Types, UpdateReads PROVE Types'
<1>0. PICK r \in row : \E c \in Changes :
        /\ change' = c
        /\ Becomes("user",
            [at |-> "write", sched |-> Chosen(c.sched, r.sched),
             enabled |-> Chosen(c.enabled, r.enabled),
             next |-> IF c = NoChange THEN r.next ELSE ComputeNextRun(Chosen(c.sched, r.sched)),
             retry |-> 0, stale |-> FALSE])
  BY DEF UpdateReads
<1>1. PICK c \in Changes :
        /\ change' = c
        /\ Becomes("user",
            [at |-> "write", sched |-> Chosen(c.sched, r.sched),
             enabled |-> Chosen(c.enabled, r.enabled),
             next |-> IF c = NoChange THEN r.next ELSE ComputeNextRun(Chosen(c.sched, r.sched)),
             retry |-> 0, stale |-> FALSE])
  BY <1>0
<1>2. c \in [sched : SUBSET Requested, enabled : SUBSET BOOLEAN]
  BY DEF Changes
<1>3. Chosen(c.sched, r.sched) \in Schedule /\ Chosen(c.enabled, r.enabled) \in BOOLEAN
  BY <1>2, ChosenTypes
<1>4. ComputeNextRun(Chosen(c.sched, r.sched)) \in Time \cup {Never} /\ r.next \in Time \cup {Never}
      /\ 0 \in 0..MaxRetries
  BY <1>3, TimeFacts, RowFacts, CronAssumption DEF Types, TypeOK
<1> DEFINE e == Chosen(c.enabled, r.enabled)
           n == IF c = NoChange THEN r.next ELSE ComputeNextRun(Chosen(c.sched, r.sched))
           y == [at |-> "write", sched |-> Chosen(c.sched, r.sched), enabled |-> e, next |-> n,
                 retry |-> 0, stale |-> FALSE]
<1>5. PICK x \in Proc : Becomes("user", x) /\ x.at = "write"
  <2>1. n \in Time \cup {Never} /\ e \in BOOLEAN /\ Becomes("user", y)
    BY <1>1, <1>3, <1>4
  <2> HIDE DEF n, e
  <2>2. y \in Proc /\ y.at = "write"
    BY <1>3, <1>4, <2>1 DEF Proc, Phase
  <2> HIDE DEF y
  <2> QED
    BY <2>1, <2>2
<1>6. "user" \in Procs /\ TaskOK("user", x)
  BY <1>5 DEF TaskOK, PhaseOf, Procs
<1>7. proc' \in [Procs -> Proc] /\ \A q \in Procs : TaskOK(q, proc'[q])
  BY <1>5, <1>6, TasksKept DEF Goes
<1>8. updates' \in 0..MaxUpdates
  BY CronAssumption DEF Types, TypeOK, UpdateReads
<1> QED
  BY <1>1, <1>2, <1>7, <1>8 DEF UpdateReads, Types, TypeOK, TaskOK

LEMMA UpdateWritesTypes ==
  ASSUME Types, UpdateWrites PROVE Types'
<1>1. "user" \in Procs /\ "schedule" \in PhaseOf("user")
  BY DEF Procs, PhaseOf
<1>2. change \in [sched : SUBSET Requested, enabled : SUBSET BOOLEAN]
      /\ NoChange \in [sched : SUBSET Requested, enabled : SUBSET BOOLEAN]
  BY MapTypes, TimeFacts
<1>3. \A r \in row :
        [r EXCEPT !.sched = Chosen(change.sched, r.sched),
                  !.enabled = Chosen(change.enabled, r.enabled),
                  !.next = IF change = NoChange THEN r.next ELSE proc["user"].next] \in Row
  <2> TAKE r \in row
  <2> DEFINE s == Chosen(change.sched, r.sched)
             e == Chosen(change.enabled, r.enabled)
             n == IF change = NoChange THEN r.next ELSE proc["user"].next
  <2>1. s \in Schedule /\ e \in BOOLEAN
    BY <1>2, ChosenTypes
  <2>2. n \in Time \cup {Never} /\ r.retry \in 0..MaxRetries
    BY <1>1, RowFacts, TaskTypes
  <2>3. r \in Row
    BY RowFacts
  <2> HIDE DEF s, e, n
  <2>5. [r EXCEPT !.sched = s, !.enabled = e, !.next = n] \in Row
    BY <2>1, <2>2, <2>3 DEF Row
  <2> QED
    BY <2>5 DEF s, e, n
<1>4. row' \subseteq Row /\ \A r, s \in row' : r = s
  <2> DEFINE f(r) == [r EXCEPT !.sched = Chosen(change.sched, r.sched),
                               !.enabled = Chosen(change.enabled, r.enabled),
                               !.next = IF change = NoChange THEN r.next ELSE proc["user"].next]
  <2>1. row' = {f(r) : r \in row}
    BY DEF UpdateWrites, Store
  <2>2. \A r \in row : f(r) \in Row
    BY <1>3
  <2> HIDE DEF f
  <2>3. \A r, s \in row : r = s
    BY MapTypes
  <2> QED
    BY <2>1, <2>2, <2>3
<1>5. CASE row = {}
  BY <1>1, <1>2, <1>4, <1>5, IdleTask, TaskStepTypes, MapTypes DEF UpdateWrites, Goes
<1>6. CASE row # {} /\ change = NoChange
  <2>1. /\ [proc["user"] EXCEPT !.at = "schedule"] \in Proc
        /\ TaskOK("user", [proc["user"] EXCEPT !.at = "schedule"])
    BY <1>1, MoveTypes
  <2> QED
    BY <1>1, <1>2, <1>4, <1>6, <2>1, TaskStepTypes, MapTypes DEF UpdateWrites, GoesTo, Goes
<1>7. CASE row # {} /\ change # NoChange
  <2> DEFINE x == [proc["user"] EXCEPT !.at = "schedule", !.stale = FALSE]
  <2>1. x \in Proc /\ x.at = "schedule"
    BY <1>1, ProcChanges
  <2>2. HasWritten("user", x)
    BY <1>7 DEF UpdateWrites
  <2> HIDE DEF x
  <2>3. TaskOK("user", x)
    BY <1>1, <2>1 DEF TaskOK
  <2> QED
    BY <1>1, <1>2, <1>4, <2>1, <2>2, <2>3, TaskStepTypes, MapTypes DEF UpdateWrites, Goes
<1> QED
  BY <1>5, <1>6, <1>7

\* A request that ends where it waits.
LEMMA DropRequestTypes ==
  ASSUME Types, NEW p \in Procs, DropRequest(p) PROVE Types'
<1>1. change' \in [sched : SUBSET Requested, enabled : SUBSET BOOLEAN]
  BY MapTypes, TimeFacts DEF DropRequest
<1> QED
  BY <1>1, IdleTask, TaskStepTypes, MapTypes DEF DropRequest, Goes

LEMMA RemoveTypes ==
  ASSUME Types, RemoveCancels \/ RemoveDeletes PROVE Types'
<1>1. "user" \in Procs /\ "delete" \in PhaseOf("user")
  BY DEF Procs, PhaseOf
<1>2. CASE RemoveCancels
  <2>1. /\ [proc["user"] EXCEPT !.at = "delete"] \in Proc
        /\ TaskOK("user", [proc["user"] EXCEPT !.at = "delete"])
    BY <1>1, MoveTypes
  <2> QED
    BY <1>1, <1>2, <2>1, TaskStepTypes, MapTypes DEF RemoveCancels, GoesTo, Goes
<1>3. CASE RemoveDeletes
  BY <1>1, <1>3, IdleTask, TaskStepTypes, MapTypes DEF RemoveDeletes, Goes
<1> QED
  BY <1>2, <1>3

LEMMA RunNowEndsTypes ==
  ASSUME Types, RunNowEnds PROVE Types'
<1>1. row' \subseteq Row /\ \A r, s \in row' : r = s
  BY MapTypes, WrittenRows DEF RunNowEnds, Store
<1> QED
  BY <1>1 DEF RunNowEnds, Types, TypeOK, TaskOK

LEMMA ResumeTypes ==
  ASSUME Types, ResumeLists \/ ResumeMarks \/ ResumeReschedules PROVE Types'
<1>1. "resume" \in Procs /\ {"mark", "remiss", "schedule"} \subseteq PhaseOf("resume")
  BY DEF Procs, PhaseOf
<1>2. CASE ResumeLists
  <2>1. PICK r \in row :
          Becomes("resume", [at |-> IF Missed(r) THEN "mark" ELSE "schedule", sched |-> r.sched,
                             enabled |-> TRUE, next |-> r.next, retry |-> 0, stale |-> FALSE])
    BY <1>2 DEF ResumeLists
  <2>2. PICK x \in Proc : Becomes("resume", x) /\ x.at \in {"mark", "schedule"}
    <3> DEFINE a == IF Missed(r) THEN "mark" ELSE "schedule"
               x == [at |-> a, sched |-> r.sched, enabled |-> TRUE, next |-> r.next, retry |-> 0,
                     stale |-> FALSE]
    <3>1. a \in {"mark", "schedule"} /\ a \in Phase /\ 0 \in 0..MaxRetries
      BY CronAssumption DEF Phase
    <3>2. Becomes("resume", x)
      BY <2>1
    <3> HIDE DEF a
    <3>3. x \in Proc /\ x.at \in {"mark", "schedule"}
      BY <3>1, RowFacts DEF Proc
    <3> HIDE DEF x
    <3> QED
      BY <3>2, <3>3
  <2>3. TaskOK("resume", x)
    BY <2>2 DEF TaskOK, PhaseOf
  <2> QED
    BY <1>1, <1>2, <2>2, <2>3, TaskStepTypes, MapTypes DEF ResumeLists, Goes
<1>3. CASE ResumeMarks
  <2>1. row' \subseteq Row /\ \A r, s \in row' : r = s
    BY <1>3, MapTypes, WrittenRows DEF ResumeMarks, Store
  <2>2. /\ [proc["resume"] EXCEPT !.at = "remiss"] \in Proc
        /\ TaskOK("resume", [proc["resume"] EXCEPT !.at = "remiss"])
    BY <1>1, MoveTypes
  <2> QED
    BY <1>1, <1>3, <2>1, <2>2, TaskStepTypes, MapTypes DEF ResumeMarks, GoesTo, Goes
<1>4. CASE ResumeReschedules
  <2> DEFINE n == ComputeNextRun(proc["resume"].sched)
  <2>1. n \in Time \cup {Never}
    BY <1>1, TaskTypes, ScheduleFacts
  <2>2. row' \subseteq Row /\ \A r, s \in row' : r = s
    <3>1. CASE proc["resume"].sched.kind = "at"
      <4>1. row' = {[r EXCEPT !.enabled = FALSE, !.next = Never] : r \in row}
        BY <1>4, <3>1 DEF ResumeReschedules, Store
      <4> QED
        BY <4>1, DisabledRows
    <3>2. CASE proc["resume"].sched.kind # "at"
      <4>1. row' = {[r EXCEPT !.next = n] : r \in row}
        BY <1>4, <3>2 DEF ResumeReschedules, Store
      <4>2. \A r \in row : [r EXCEPT !.next = n] \in Row
        BY <2>1, WrittenRows
      <4> HIDE DEF n
      <4> QED
        BY <4>1, <4>2, MapTypes
    <3> QED
      BY <3>1, <3>2
  <2>3. PICK x \in Proc : HasWritten("resume", x) /\ x.at \in {"idle", "schedule"}
    <3>1. CASE proc["resume"].sched.kind = "at"
      BY <1>1, <1>4, <3>1, ProcChanges DEF ResumeReschedules
    <3>2. CASE proc["resume"].sched.kind # "at"
      <4> DEFINE y == [proc["resume"] EXCEPT !.at = "schedule", !.next = n]
      <4>1. HasWritten("resume", IF row = {} THEN Idle ELSE y)
        BY <1>4, <3>2 DEF ResumeReschedules
      <4>2. y \in Proc /\ y.at = "schedule"
        BY <1>1, <2>1, ProcChanges
      <4>3. Idle \in Proc /\ Idle.at = "idle"
        BY <1>1, IdleTask DEF Idle
      <4> HIDE DEF y
      <4> QED
        BY <4>1, <4>2, <4>3
    <3> QED
      BY <3>1, <3>2
  <2>4. TaskOK("resume", x)
    BY <2>3 DEF TaskOK, PhaseOf
  <2> QED
    BY <1>1, <1>4, <2>2, <2>3, <2>4, TaskStepTypes, MapTypes DEF ResumeReschedules, Goes
<1> QED
  BY <1>2, <1>3, <1>4

LEMMA ProcessTypes ==
  ASSUME Types, Crash \/ Restart \/ TimePasses PROVE Types'
<1>1. CASE Crash
  <2>1. \A p \in Procs : TaskOK(p, proc'[p])
    BY <1>1, IdleTask DEF Crash
  <2>2. proc' \in [Procs -> Proc]
    BY <1>1, IdleTask DEF Crash
  <2>4. change' \in [sched : SUBSET Requested, enabled : SUBSET BOOLEAN]
    BY <1>1, TimeFacts DEF Crash
  <2> QED
    BY <1>1, <2>1, <2>2, <2>4 DEF Crash, Types, TypeOK, TaskOK
<1>2. CASE Restart
  <2>1. handle' \subseteq Timer /\ \A t, u \in handle' : t = u
    <3> DEFINE T(r) == [sched |-> r.sched, due |-> r.next, live |-> TRUE]
    <3>1. ASSUME NEW r \in row, r.next # Never PROVE T(r) \in Timer
      BY <3>1, RowFacts DEF Timer
    <3>2. handle' \subseteq {T(r) : r \in {e \in row : e.next # Never}}
      BY <1>2 DEF Restart
    <3> HIDE DEF T
    <3> QED
      BY <3>1, <3>2, MapTypes
  <2>2. row' \subseteq Row /\ \A r, s \in row' : r = s
    BY <1>2, MapTypes DEF Restart
  <2> QED
    BY <1>2, <2>1, <2>2 DEF Restart, Types, TypeOK, TaskOK
<1>3. CASE TimePasses
  BY <1>3, CronAssumption DEF TimePasses, Types, TypeOK, TaskOK, Time
<1> QED
  BY <1>1, <1>2, <1>3

LEMMA NextTypes == Types /\ [Next]_vars => Types'
<1> SUFFICES ASSUME Types, [Next]_vars PROVE Types'
  OBVIOUS
<1>1. CASE HandleFires \/ OrphanFires
  BY <1>1, FiresTypes
<1>2. CASE \E p \in Procs : TaskStep(p)
  <2>1. PICK p \in Procs : TaskStep(p)
    BY <1>2
  <2>2. CASE p \in Tickers /\ Tick(p)
    BY <2>2, TickLoadsTypes, TickFailsTypes, TickMovesTypes, TickReschedulesTypes,
       TickRetriesTypes DEF Tick
  <2>3. CASE UpdateWrites \/ RemoveDeletes
    BY <2>3, UpdateWritesTypes, RemoveTypes
  <2>4. CASE Resume
    BY <2>4, ResumeTypes DEF Resume
  <2>5. CASE ScheduleJob(p)
    BY <2>5, CancelsTypes, ArmsTypes DEF ScheduleJob
  <2>6. CASE DropRequest(p)
    BY <2>6, DropRequestTypes
  <2> QED
    BY <2>1, <2>2, <2>3, <2>4, <2>5, <2>6 DEF TaskStep
<1>3. CASE Request
  BY <1>3, AddJobTypes, UpdateReadsTypes, RemoveTypes, RunNowEndsTypes DEF Request
<1>4. CASE ResumeLists
  BY <1>4, ResumeTypes
<1>5. CASE Crash \/ Restart \/ TimePasses
  BY <1>5, ProcessTypes
<1>6. CASE UNCHANGED vars
  BY <1>6 DEF vars, Types, TypeOK, TaskOK
<1> QED
  BY <1>1, <1>2, <1>3, <1>4, <1>5, <1>6 DEF Next

\* The state of the job, of its timers and of the tasks keeps its types; a task
\* goes through the phases of its kind only, and what it arms has a due time
\* (tick, schedule_retry, schedule_job).
THEOREM CronTypeCorrect == Spec => []TypeOK
<1>1. Types => TypeOK
  BY DEF Types
<1> QED
  BY <1>1, InitTypes, NextTypes, PTL DEF Spec

-----------------------------------------------------------------------------
(* A job that recurs stays scheduled.                                      *)

\* Before the job is created nothing is under way.
FreshStart ==
  ~added => row = {} /\ handle = {} /\ orphans = {} /\ \A p \in Procs : proc[p].at = "idle"

Recurs(r) == r.enabled /\ r.sched.kind # "at" /\ r.next # Never

\* What a tick and the resume handler do with the copy they have read.
Reading == {"run", "settle", "retrying", "reschedule", "mark", "remiss"}

\* The copy of the job in the hands of task p, which is in state x, agrees with
\* the row r, as far as what p is going to do depends on it; c is the update
\* under way.  A task that is to leave the job without a timer, and whose copy is
\* not stale, has found or written a row that wants none; an update writes the
\* row so that it wants a timer only if its copy does.
Agrees(p, x, c, r) ==
  /\ p # "user" /\ x.at \in Reading => x.enabled
  /\ x.at = "schedule" /\ ~x.stale /\ ~WillArm(x) => ~Recurs(r)
  /\ p = "user" /\ x.at = "write" =>
       /\ Chosen(c.enabled, r.enabled) => x.enabled
       /\ c = NoChange /\ ~x.stale /\ ~WillArm(x) => ~Recurs(r)

CopiesAgree == \A p \in Procs : \A r \in row : Agrees(p, proc[p], change, r)

\* The task is going to arm the timer, or to find the job gone, disabled or
\* without a next run, or to delete it.
Carries(x) ==
  \/ x.at \in {"load", "run", "settle", "retrying", "reschedule", "delete", "arm"}
  \/ x.at = "schedule" /\ WillArm(x)

StaysScheduled ==
  up /\ ~lost /\ Recurring # {} =>
    (\E t \in handle : t.live) \/ \E p \in Procs : Carries(proc[p])

Scheduled == FreshStart /\ CopiesAgree /\ StaysScheduled

\* The handlers that do not write the schedule, the flag or the next run.
RowStays ==
  \A s \in row' : \E r \in row : s.sched = r.sched /\ s.enabled = r.enabled /\ s.next = r.next

\* Those that disable the job or give it another next run.
RowRewritten ==
  \A s \in row' : \E r \in row : s.sched = r.sched /\ (s.enabled => r.enabled)

LEMMA RecurringRecurs ==
  Recurring = {} <=> \A r \in row : ~Recurs(r)
BY DEF Recurring, Recurs

LEMMA StaysTypes ==
  ASSUME Types, NEW p \in Procs
  PROVE  proc[p].enabled \in BOOLEAN /\ proc[p].stale \in BOOLEAN
BY DEF Types, TypeOK, Proc

LEMMA CopiesKept ==
  ASSUME Types, CopiesAgree, NEW p \in Procs, NEW x, Becomes(p, x), RowStays,
         change' = change, \A s \in row' : Agrees(p, x, change, s)
  PROVE  CopiesAgree'
<1> SUFFICES ASSUME NEW q \in Procs, NEW s \in row' PROVE Agrees(q, proc'[q], change', s)
  BY DEF CopiesAgree
<1>1. CASE q = p
  <2>1. proc'[q] = x
    BY <1>1 DEF Becomes, Types, TypeOK
  <2> QED
    BY <1>1, <2>1
<1>2. CASE q # p
  <2>1. proc'[q] = proc[q]
    BY <1>2 DEF Becomes, Types, TypeOK
  <2>2. PICK r \in row : s.sched = r.sched /\ s.enabled = r.enabled /\ s.next = r.next
    BY DEF RowStays
  <2>3. Agrees(q, proc[q], change, r)
    BY DEF CopiesAgree
  <2>4. Agrees(q, proc[q], change, s)
    BY <2>2, <2>3 DEF Agrees, Recurs
  <2> QED
    BY <2>1, <2>4
<1> QED
  BY <1>1, <1>2

\* The flag an update gives does not depend on the row, or is that of the row.
LEMMA ChosenFlags ==
  ASSUME NEW c, NEW r, NEW s, s.enabled => r.enabled
  PROVE  Chosen(c.enabled, s.enabled) => Chosen(c.enabled, r.enabled)
BY DEF Chosen

\* Whoever writes the row makes the copies stale that are to arm nothing.
LEMMA StaledAgrees ==
  ASSUME NEW q, NEW x \in Proc, NEW c, NEW r, NEW s, Agrees(q, x, c, r),
         q = "user" /\ x.at = "write" => (Chosen(c.enabled, s.enabled) => x.enabled)
  PROVE  Agrees(q, Staled(x), c, s)
<1>1. /\ Staled(x).at = x.at /\ Staled(x).enabled = x.enabled /\ Staled(x).next = x.next
  BY StaledKeeps
<1>2. WillArm(Staled(x)) <=> WillArm(x)
  BY <1>1 DEF WillArm
<1>3. x.at \in {"write", "schedule"} /\ ~WillArm(x) => Staled(x).stale
  BY DEF Staled, Proc
<1> QED
  BY <1>1, <1>2, <1>3 DEF Agrees

LEMMA CopiesStaled ==
  ASSUME Types, CopiesAgree, NEW p \in Procs, p # "user", NEW x, HasWritten(p, x),
         RowRewritten, change' = change, \A s \in row' : Agrees(p, x, change, s)
  PROVE  CopiesAgree'
<1> SUFFICES ASSUME NEW q \in Procs, NEW s \in row' PROVE Agrees(q, proc'[q], change', s)
  BY DEF CopiesAgree
<1>1. CASE q = p
  <2>1. proc'[q] = x
    BY <1>1 DEF HasWritten
  <2> QED
    BY <1>1, <2>1
<1>2. CASE q # p
  <2>1. proc'[q] = Staled(proc[q])
    BY <1>2 DEF HasWritten
  <2>2. PICK r \in row : s.sched = r.sched /\ (s.enabled => r.enabled)
    BY DEF RowRewritten
  <2>3. Agrees(q, proc[q], change, r) /\ proc[q] \in Proc
    BY TaskTypes DEF CopiesAgree
  <2>4. q = "user" /\ proc[q].at = "write" =>
          (Chosen(change.enabled, r.enabled) => proc[q].enabled)
    BY <2>3 DEF Agrees
  <2>5. q = "user" /\ proc[q].at = "write" =>
          (Chosen(change.enabled, s.enabled) => proc[q].enabled)
    BY <2>2, <2>4, ChosenFlags
  <2> QED
    BY <2>1, <2>3, <2>5, StaledAgrees
<1> QED
  BY <1>1, <1>2

LEMMA ArmsLater ==
  ASSUME Types, NEW p \in Procs, NEW x, Goes(p, x), Carries(x)
  PROVE  StaysScheduled'
<1>1. proc'[p] = x
  BY DEF Goes, Becomes, HasWritten, Types, TypeOK
<1>2. Carries(proc'[p])
  BY <1>1
<1> QED
  BY <1>2 DEF StaysScheduled, Carries, WillArm

\* A task that was not to arm the timer goes on, and nothing else changes.
LEMMA OthersCarry ==
  ASSUME Types, Scheduled, NEW p \in Procs, NEW x, Becomes(p, x), ~Carries(proc[p]),
         handle' = handle, up' = up, lost' = lost, RowStays
  PROVE  StaysScheduled'
<1> SUFFICES ASSUME up', ~lost', Recurring' # {}
             PROVE  (\E t \in handle' : t.live) \/ \E q \in Procs : Carries(proc'[q])
  BY DEF StaysScheduled, Carries, WillArm
<1>1. Recurring # {}
  BY DEF Recurring, RowStays
<1>2. (\E t \in handle : t.live) \/ \E q \in Procs : Carries(proc[q])
  BY <1>1 DEF Scheduled, StaysScheduled
<1>3. \A q \in Procs : Carries(proc[q]) => proc'[q] = proc[q]
  BY DEF Becomes, Types, TypeOK
<1> QED
  BY <1>2, <1>3

LEMMA IdleAgrees ==
  \A p, c, r : Agrees(p, Idle, c, r)
BY DEF Agrees, Idle, Reading

LEMMA RowFields ==
  ASSUME Types, NEW r \in row
  PROVE  /\ \A n : /\ [r EXCEPT !.retry = n].sched = r.sched
                   /\ [r EXCEPT !.retry = n].enabled = r.enabled
                   /\ [r EXCEPT !.retry = n].next = r.next
         /\ \A t : /\ [r EXCEPT !.next = t].sched = r.sched
                   /\ [r EXCEPT !.next = t].enabled = r.enabled
                   /\ [r EXCEPT !.next = t].next = t
         /\ [r EXCEPT !.enabled = FALSE, !.next = Never].sched = r.sched
         /\ [r EXCEPT !.enabled = FALSE, !.next = Never].enabled = FALSE
<1>1. r \in Row
  BY RowFacts
<1> QED
  BY <1>1 DEF Row

LEMMA TaskFields ==
  ASSUME Types, NEW p \in Procs
  PROVE  /\ \A a : /\ [proc[p] EXCEPT !.at = a].at = a
                   /\ [proc[p] EXCEPT !.at = a].enabled = proc[p].enabled
                   /\ [proc[p] EXCEPT !.at = a].next = proc[p].next
                   /\ [proc[p] EXCEPT !.at = a].stale = proc[p].stale
         /\ [proc[p] EXCEPT !.at = "schedule", !.enabled = FALSE].at = "schedule"
         /\ [proc[p] EXCEPT !.at = "schedule", !.enabled = FALSE].enabled = FALSE
         /\ [proc[p] EXCEPT !.at = "schedule", !.stale = FALSE].at = "schedule"
         /\ [proc[p] EXCEPT !.at = "schedule", !.stale = FALSE].enabled = proc[p].enabled
         /\ [proc[p] EXCEPT !.at = "schedule", !.stale = FALSE].next = proc[p].next
         /\ \A t : /\ [proc[p] EXCEPT !.at = "schedule", !.next = t].at = "schedule"
                   /\ [proc[p] EXCEPT !.at = "schedule", !.next = t].enabled = proc[p].enabled
                   /\ [proc[p] EXCEPT !.at = "schedule", !.next = t].next = t
         /\ \A s, t : /\ [proc[p] EXCEPT !.at = "schedule", !.sched = s, !.next = t].at = "schedule"
                      /\ [proc[p] EXCEPT !.at = "schedule", !.sched = s, !.next = t].enabled
                           = proc[p].enabled
                      /\ [proc[p] EXCEPT !.at = "schedule", !.sched = s, !.next = t].next = t
<1>1. proc[p] \in Proc
  BY TaskTypes
<1> QED
  BY <1>1 DEF Proc

\* What the invariant says of a row and of a task.
LEMMA TaskAgrees ==
  ASSUME Scheduled, NEW p \in Procs, NEW r \in row
  PROVE  Agrees(p, proc[p], change, r)
BY DEF Scheduled, CopiesAgree

LEMMA SameRowStays == row' \subseteq row => RowStays
BY DEF RowStays

\* The job is there once a task or a timer is.
LEMMA JobWasAdded ==
  ASSUME Scheduled
  PROVE  /\ (\E p \in Procs : proc[p].at # "idle") => added
         /\ row # {} \/ handle # {} \/ orphans # {} => added
BY DEF Scheduled, FreshStart

LEMMA AddedStays ==
  ASSUME added, added' = added PROVE FreshStart'
BY DEF FreshStart

LEMMA CancelsSchedule ==
  ASSUME Types, Scheduled, NEW p \in Procs, Cancels(p) PROVE Scheduled'
<1>1. proc[p].at = "schedule" /\ row' = row /\ added' = added /\ change' = change /\ handle' = {}
  BY DEF Cancels
<1>2. FreshStart' /\ RowStays
  BY <1>1, AddedStays, JobWasAdded, SameRowStays
<1>3. CASE WillArm(proc[p])
  <2> DEFINE x == [proc[p] EXCEPT !.at = "arm"]
  <2>1. Becomes(p, x) /\ x.at = "arm"
    BY <1>3, TaskFields DEF Cancels, GoesTo
  <2>2. Carries(x) /\ \A s \in row' : Agrees(p, x, change, s)
    BY <2>1 DEF Carries, Agrees, Reading
  <2> HIDE DEF x
  <2> QED
    BY <1>1, <1>2, <2>1, <2>2, CopiesKept, ArmsLater DEF Scheduled, Goes
<1>4. CASE ~WillArm(proc[p])
  <2>1. Becomes(p, Idle) /\ lost' = (lost \/ (proc[p].stale /\ Recurring # {}))
    BY <1>4 DEF Cancels
  <2>2. CopiesAgree'
    BY <1>1, <1>2, <2>1, IdleAgrees, CopiesKept DEF Scheduled
  <2>3. ~proc[p].stale => \A r \in row : ~Recurs(r)
    BY <1>1, <1>4, TaskAgrees DEF Agrees
  <2>4. lost' \/ Recurring = {}
    BY <2>1, <2>3, RecurringRecurs
  <2>5. Recurring' = Recurring
    BY <1>1 DEF Recurring
  <2>6. StaysScheduled'
    BY <2>4, <2>5 DEF StaysScheduled
  <2> QED
    BY <1>2, <2>2, <2>6 DEF Scheduled
<1> QED
  BY <1>3, <1>4

LEMMA ArmsSchedule ==
  ASSUME Types, Scheduled, NEW p \in Procs, Arms(p) PROVE Scheduled'
<1>1. /\ proc[p].at = "arm" /\ row' = row /\ added' = added /\ change' = change
      /\ handle' = {NewTimer(p)} /\ Becomes(p, Idle)
  BY DEF Arms
<1>2. FreshStart' /\ RowStays
  BY <1>1, AddedStays, JobWasAdded, SameRowStays
<1>3. CopiesAgree'
  BY <1>1, <1>2, IdleAgrees, CopiesKept DEF Scheduled
<1>4. StaysScheduled'
  BY <1>1 DEF StaysScheduled, NewTimer
<1> QED
  BY <1>2, <1>3, <1>4 DEF Scheduled

LEMMA FiresSchedule ==
  ASSUME Types, Scheduled, HandleFires \/ OrphanFires PROVE Scheduled'
<1>1. /\ handle # {} \/ orphans # {}
      /\ IdleTickers # {} /\ SpawnsTick
      /\ row' = row /\ added' = added /\ change' = change
  BY DEF HandleFires, OrphanFires, Due
<1>2. FreshStart' /\ RowStays
  BY <1>1, AddedStays, JobWasAdded, SameRowStays
<1> DEFINE x == [Idle EXCEPT !.at = "load"]
<1>3. PICK p \in Procs : Becomes(p, x)
  BY <1>1, SpawnsOne
<1>4. x.at = "load"
  BY DEF Idle
<1>5. Carries(x) /\ \A s \in row' : Agrees(p, x, change, s)
  BY <1>4 DEF Carries, Agrees, Reading
<1> HIDE DEF x
<1> QED
  BY <1>1, <1>2, <1>3, <1>5, CopiesKept, ArmsLater DEF Scheduled, Goes

LEMMA TickLoadsSchedule ==
  ASSUME Types, Scheduled, NEW p \in Tickers, TickLoads(p) PROVE Scheduled'
<1>1. /\ proc[p].at = "load" /\ row' = row /\ added' = added /\ change' = change
      /\ p \in Procs /\ p # "user"
  BY TickerFacts DEF TickLoads
<1>2. FreshStart' /\ RowStays
  BY <1>1, AddedStays, JobWasAdded, SameRowStays
<1>3. CASE \E r \in row : r.enabled
  <2>1. PICK r \in row : Becomes(p, [at |-> "run", sched |-> r.sched, enabled |-> TRUE,
                                     next |-> Never, retry |-> r.retry, stale |-> FALSE])
    BY <1>3 DEF TickLoads
  <2> DEFINE x == [at |-> "run", sched |-> r.sched, enabled |-> TRUE,
                   next |-> Never, retry |-> r.retry, stale |-> FALSE]
  <2>2. Becomes(p, x) /\ x.at = "run" /\ x.enabled
    BY <2>1
  <2> HIDE DEF x
  <2>3. Carries(x) /\ \A s \in row' : Agrees(p, x, change, s)
    BY <1>1, <2>2 DEF Agrees, Carries
  <2> QED
    BY <1>1, <1>2, <2>2, <2>3, CopiesKept, ArmsLater DEF Scheduled, Goes
<1>4. CASE ~\E r \in row : r.enabled
  <2>1. Becomes(p, Idle)
    BY <1>4 DEF TickLoads
  <2>2. CopiesAgree'
    BY <1>1, <1>2, <2>1, IdleAgrees, CopiesKept DEF Scheduled
  <2>3. StaysScheduled'
    BY <1>1, <1>4 DEF StaysScheduled, Recurring
  <2> QED
    BY <1>2, <2>2, <2>3 DEF Scheduled
<1> QED
  BY <1>3, <1>4

\* A task that ends while the timer is as it is: the timer lives, or is lost.
LEMMA EndsOrLoses ==
  ASSUME handle' = handle, lost' = (lost \/ NoTimer) PROVE StaysScheduled'
<1>1. lost' \/ \E t \in handle' : t.live
  BY DEF NoTimer
<1> QED
  BY <1>1 DEF StaysScheduled

LEMMA TickFailsSchedule ==
  ASSUME Types, Scheduled, NEW p \in Tickers, TickFails(p) PROVE Scheduled'
<1>1. /\ proc[p].at = "load" /\ row' = row /\ added' = added /\ change' = change
      /\ p \in Procs /\ Becomes(p, Idle) /\ handle' = handle /\ lost' = (lost \/ NoTimer)
  BY TickerFacts DEF TickFails
<1>2. FreshStart' /\ RowStays
  BY <1>1, AddedStays, JobWasAdded, SameRowStays
<1>3. CopiesAgree'
  BY <1>1, <1>2, IdleAgrees, CopiesKept DEF Scheduled
<1> QED
  BY <1>1, <1>2, <1>3, EndsOrLoses DEF Scheduled

\* A handler that writes the retry count only.
LEMMA RetryWritten ==
  ASSUME Types, NEW n, Store(LAMBDA r : [r EXCEPT !.retry = n])
  PROVE  RowStays
<1>1. row' = {[r EXCEPT !.retry = n] : r \in row}
  BY DEF Store
<1>2. ASSUME NEW s \in row' PROVE \E r \in row : s.sched = r.sched /\ s.enabled = r.enabled /\ s.next = r.next
  <2>1. PICK r \in row : s = [r EXCEPT !.retry = n]
    BY <1>1
  <2>2. s.sched = r.sched /\ s.enabled = r.enabled /\ s.next = r.next
    BY <2>1, RowFields
  <2> QED
    BY <2>2
<1> QED
  BY <1>2 DEF RowStays

LEMMA TickMovesSchedule ==
  ASSUME Types, Scheduled, NEW p \in Tickers, Executes(p) \/ FindsBusy(p) \/ TickSettles(p)
  PROVE  Scheduled'
<1>1. /\ proc[p].at \in Reading /\ proc[p].at # "idle" /\ p \in Procs /\ p # "user"
      /\ added' = added /\ change' = change
  BY TickerFacts DEF Executes, FindsBusy, TickSettles, Reading
<1>2. FreshStart'
  BY <1>1, AddedStays, JobWasAdded
<1>3. RowStays
  <2>1. CASE TickSettles(p)
    BY <2>1, RetryWritten DEF TickSettles
  <2>2. CASE Executes(p) \/ FindsBusy(p)
    BY <2>2, SameRowStays DEF Executes, FindsBusy
  <2> QED
    BY <2>1, <2>2
<1>4. PICK a \in {"settle", "retrying", "reschedule"} : GoesTo(p, a)
  BY DEF Executes, FindsBusy, TickSettles
<1> DEFINE x == [proc[p] EXCEPT !.at = a]
<1>5. Becomes(p, x) /\ x.at = a /\ x.enabled = proc[p].enabled
  BY <1>1, <1>4, TaskFields DEF GoesTo
<1>6. row # {} => proc[p].enabled
  BY <1>1, TaskAgrees DEF Agrees
<1> HIDE DEF x
<1>7. Carries(x)
  BY <1>5 DEF Carries
<1>8. \A s \in row' : Agrees(p, x, change, s)
  BY <1>1, <1>3, <1>4, <1>5, <1>6 DEF Agrees, RowStays
<1> QED
  BY <1>1, <1>2, <1>3, <1>5, <1>7, <1>8, CopiesKept, ArmsLater DEF Scheduled, Goes

\* A one-shot job that has run is disabled, a recurring one gets its next run.
LEMMA DisabledOneShot ==
  ASSUME Types, Store(LAMBDA r : [r EXCEPT !.enabled = FALSE, !.next = Never])
  PROVE  RowRewritten /\ \A s \in row' : ~s.enabled
<1>1. row' = {[r EXCEPT !.enabled = FALSE, !.next = Never] : r \in row}
  BY DEF Store
<1>2. ASSUME NEW s \in row' PROVE ~s.enabled /\ \E r \in row : s.sched = r.sched
  <2>1. PICK r \in row : s = [r EXCEPT !.enabled = FALSE, !.next = Never]
    BY <1>1
  <2>2. s.sched = r.sched /\ s.enabled = FALSE
    BY <2>1, RowFields
  <2> QED
    BY <2>2
<1> QED
  BY <1>2 DEF RowRewritten

LEMMA NextRunWritten ==
  ASSUME Types, NEW t, Store(LAMBDA r : [r EXCEPT !.next = t])
  PROVE  RowRewritten /\ \A s \in row' : s.next = t
<1>1. row' = {[r EXCEPT !.next = t] : r \in row}
  BY DEF Store
<1>2. ASSUME NEW s \in row' PROVE s.next = t /\ \E r \in row : s.sched = r.sched /\ s.enabled = r.enabled
  <2>1. PICK r \in row : s = [r EXCEPT !.next = t]
    BY <1>1
  <2>2. s.next = t /\ s.sched = r.sched /\ s.enabled = r.enabled
    BY <2>1, RowFields
  <2> QED
    BY <2>2
<1> QED
  BY <1>2 DEF RowRewritten

\* What a task knows that has disabled the job, or given it the next run t.
LEMMA DisablesAll ==
  ASSUME Types, Scheduled, NEW p \in Procs, p # "user", NEW x, HasWritten(p, x),
         x.at = "schedule", Store(LAMBDA r : [r EXCEPT !.enabled = FALSE, !.next = Never]),
         added, added' = added, change' = change
  PROVE  Scheduled'
<1>1. RowRewritten /\ \A s \in row' : ~s.enabled
  BY DisabledOneShot
<1>2. \A s \in row' : Agrees(p, x, change, s)
  BY <1>1 DEF Agrees, Reading, Recurs
<1>3. StaysScheduled'
  BY <1>1 DEF StaysScheduled, Recurring
<1> QED
  BY <1>1, <1>2, <1>3, CopiesStaled, AddedStays DEF Scheduled

LEMMA GivesNextRun ==
  ASSUME Types, Scheduled, NEW p \in Procs, p # "user", NEW x, HasWritten(p, x),
         NEW t, Store(LAMBDA r : [r EXCEPT !.next = t]),
         row # {} => x.at = "schedule" /\ x.next = t /\ x.enabled,
         added, added' = added, change' = change
  PROVE  Scheduled'
<1>1. RowRewritten /\ \A s \in row' : s.next = t
  BY NextRunWritten
<1>2. row = {} => row' = {}
  BY <1>1 DEF RowRewritten
<1>3. \A s \in row' : Agrees(p, x, change, s)
  BY <1>1, <1>2 DEF Agrees, Reading, Recurs, WillArm
<1>4. StaysScheduled'
  <2>1. CASE Recurring' = {}
    BY <2>1 DEF StaysScheduled
  <2>2. CASE Recurring' # {}
    <3>1. row # {} /\ t # Never
      BY <1>1, <1>2, <2>2 DEF Recurring
    <3>2. Carries(x)
      BY <3>1 DEF Carries, WillArm
    <3> QED
      BY <3>2, ArmsLater DEF Goes
  <2> QED
    BY <2>1, <2>2
<1> QED
  BY <1>1, <1>3, <1>4, CopiesStaled, AddedStays DEF Scheduled

LEMMA TickReschedulesSchedule ==
  ASSUME Types, Scheduled, NEW p \in Tickers, TickReschedules(p) PROVE Scheduled'
<1>1. /\ proc[p].at \in Reading /\ proc[p].at # "idle" /\ p \in Procs /\ p # "user"
      /\ added' = added /\ change' = change
  BY TickerFacts DEF TickReschedules, Reading
<1>2. added
  BY <1>1, JobWasAdded
<1>3. row # {} => proc[p].enabled
  BY <1>1, TaskAgrees DEF Agrees
<1>4. CASE proc[p].sched.kind = "at"
  <2> DEFINE x == [proc[p] EXCEPT !.at = "schedule", !.enabled = FALSE]
  <2>1. HasWritten(p, x) /\ x.at = "schedule"
    BY <1>1, <1>4, TaskFields DEF TickReschedules
  <2>2. Store(LAMBDA r : [r EXCEPT !.enabled = FALSE, !.next = Never])
    BY <1>4 DEF TickReschedules
  <2> HIDE DEF x
  <2> QED
    BY <1>1, <1>2, <2>1, <2>2, DisablesAll
<1>5. CASE proc[p].sched.kind # "at"
  <2> DEFINE t == ComputeNextRun(proc[p].sched)
             x == [proc[p] EXCEPT !.at = "schedule", !.next = t]
  <2>1. HasWritten(p, x) /\ Store(LAMBDA r : [r EXCEPT !.next = t])
    BY <1>5 DEF TickReschedules
  <2> HIDE DEF t
  <2>2. x.at = "schedule" /\ x.next = t /\ x.enabled = proc[p].enabled
    BY <1>1, TaskFields
  <2> HIDE DEF x
  <2> QED
    BY <1>1, <1>2, <1>3, <2>1, <2>2, GivesNextRun
<1> QED
  BY <1>4, <1>5

LEMMA TickRetriesSchedule ==
  ASSUME Types, Scheduled, NEW p \in Tickers, TickRetries(p) PROVE Scheduled'
<1>1. /\ proc[p].at \in Reading /\ proc[p].at # "idle" /\ p \in Procs /\ p # "user"
      /\ added' = added /\ change' = change
  BY TickerFacts DEF TickRetries, Reading
<1>2. FreshStart'
  BY <1>1, AddedStays, JobWasAdded
<1>3. row # {} => proc[p].enabled
  BY <1>1, TaskAgrees DEF Agrees
<1> DEFINE t == Later(RetryInterval)
           x == [proc[p] EXCEPT !.at = "schedule", !.sched = At(t), !.next = t]
<1>4. Becomes(p, x) /\ x.at = "schedule" /\ x.next = t /\ x.enabled = proc[p].enabled
  BY <1>1, TaskFields DEF TickRetries
<1>5. t # Never
  BY TimeFacts, CronAssumption DEF Types, TypeOK
<1> HIDE DEF x, t
<1>6. RowStays
  BY RetryWritten DEF TickRetries
<1>7. row = {} => row' = {}
  BY <1>6 DEF RowStays
<1>8. \A s \in row' : Agrees(p, x, change, s)
  BY <1>1, <1>3, <1>4, <1>5, <1>7 DEF Agrees, Reading, WillArm
<1>9. StaysScheduled'
  <2>1. CASE row = {}
    BY <2>1, <1>7 DEF StaysScheduled, Recurring
  <2>2. CASE row # {}
    <3>1. Carries(x)
      BY <1>3, <1>4, <1>5, <2>2 DEF Carries, WillArm
    <3> QED
      BY <1>1, <1>4, <3>1, ArmsLater DEF Goes
  <2> QED
    BY <2>1, <2>2
<1> QED
  BY <1>1, <1>2, <1>4, <1>6, <1>8, <1>9, CopiesKept DEF Scheduled

LEMMA AddJobSchedule ==
  ASSUME Types, Scheduled, NEW s \in Requested, AddJob(s) PROVE Scheduled'
<1> DEFINE n == ComputeNextRun(s)
           x == [at |-> "schedule", sched |-> s, enabled |-> TRUE, next |-> n, retry |-> 0,
                 stale |-> FALSE]
           new == [sched |-> s, enabled |-> TRUE, next |-> n, retry |-> 0]
<1>1. ~added /\ added' /\ change' = change /\ row' = {new} /\ Becomes("user", x)
  BY DEF AddJob
<1>2. x.at = "schedule" /\ x.enabled = TRUE /\ x.next = n /\ new.next = n
  OBVIOUS
<1> HIDE DEF x, new, n
<1>3. FreshStart'
  BY <1>1 DEF FreshStart
<1>4. "user" \in Procs /\ proc'["user"] = x
      /\ \A q \in Procs : q # "user" => proc'[q] = proc[q] /\ proc[q].at = "idle"
  BY <1>1 DEF Procs, Becomes, Types, TypeOK, Scheduled, FreshStart
<1>5. ASSUME NEW q \in Procs, NEW r \in row' PROVE Agrees(q, proc'[q], change', r)
  <2>1. CASE q = "user"
    BY <1>1, <1>2, <1>4, <2>1 DEF Agrees, WillArm, Recurs
  <2>2. CASE q # "user"
    BY <1>4, <2>2 DEF Agrees, Reading
  <2> QED
    BY <2>1, <2>2
<1>6. StaysScheduled'
  <2>1. CASE n = Never
    BY <1>1, <1>2, <2>1 DEF StaysScheduled, Recurring
  <2>2. CASE n # Never
    <3>1. Carries(x)
      BY <1>2, <2>2 DEF Carries, WillArm
    <3> QED
      BY <1>1, <1>4, <3>1, ArmsLater DEF Goes
  <2> QED
    BY <2>1, <2>2
<1> QED
  BY <1>3, <1>5, <1>6 DEF Scheduled, CopiesAgree

LEMMA UpdateReadsSchedule ==
  ASSUME Types, Scheduled, UpdateReads PROVE Scheduled'
<1>0. PICK r \in row : \E c \in Changes :
        /\ change' = c
        /\ Becomes("user",
            [at |-> "write", sched |-> Chosen(c.sched, r.sched),
             enabled |-> Chosen(c.enabled, r.enabled),
             next |-> IF c = NoChange THEN r.next ELSE ComputeNextRun(Chosen(c.sched, r.sched)),
             retry |-> 0, stale |-> FALSE])
  BY DEF UpdateReads
<1>1. PICK c \in Changes :
        /\ change' = c
        /\ Becomes("user",
            [at |-> "write", sched |-> Chosen(c.sched, r.sched),
             enabled |-> Chosen(c.enabled, r.enabled),
             next |-> IF c = NoChange THEN r.next ELSE ComputeNextRun(Chosen(c.sched, r.sched)),
             retry |-> 0, stale |-> FALSE])
  BY <1>0
<1> DEFINE n == IF c = NoChange THEN r.next ELSE ComputeNextRun(Chosen(c.sched, r.sched))
           x == [at |-> "write", sched |-> Chosen(c.sched, r.sched),
                 enabled |-> Chosen(c.enabled, r.enabled), next |-> n, retry |-> 0,
                 stale |-> FALSE]
<1>2. /\ row' = row /\ added' = added /\ handle' = handle /\ up' = up /\ lost' = lost
      /\ proc["user"].at = "idle" /\ "user" \in Procs /\ row = {r}
  BY RowFacts DEF UpdateReads, UserIsFree, Procs
<1>3. FreshStart' /\ RowStays
  BY <1>2, AddedStays, JobWasAdded, SameRowStays
<1>4. Becomes("user", x) /\ x.at = "write" /\ x.enabled = Chosen(c.enabled, r.enabled) /\ x.next = n
  BY <1>1
<1>5. c = NoChange => n = r.next
  OBVIOUS
<1> HIDE DEF x, n
<1>6. c = NoChange => x.enabled = r.enabled
  BY <1>4 DEF Chosen, NoChange
<1>7. Agrees("user", x, c, r)
  BY <1>4, <1>5, <1>6 DEF Agrees, Recurs, WillArm
<1>8. proc'["user"] = x /\ \A q \in Procs : q # "user" => proc'[q] = proc[q]
  BY <1>2, <1>4 DEF Becomes, Types, TypeOK
<1>9. ASSUME NEW q \in Procs, q # "user" PROVE Agrees(q, proc[q], c, r)
  BY <1>9, TaskAgrees DEF Agrees
<1>10. ASSUME NEW q \in Procs, NEW s \in row' PROVE Agrees(q, proc'[q], change', s)
  BY <1>1, <1>2, <1>8, <1>7, <1>9
<1>11. StaysScheduled'
  BY <1>2, <1>3, <1>4, OthersCarry DEF Carries
<1> QED
  BY <1>3, <1>10, <1>11 DEF Scheduled, CopiesAgree

\* An update that names neither the schedule nor the flag.
LEMMA WritesNothing ==
  ASSUME Types, Scheduled, UpdateWrites, change = NoChange, row # {} PROVE Scheduled'
<1> DEFINE f(r) == [r EXCEPT !.sched = Chosen(change.sched, r.sched),
                             !.enabled = Chosen(change.enabled, r.enabled),
                             !.next = IF change = NoChange THEN r.next ELSE proc["user"].next]
           x == [proc["user"] EXCEPT !.at = "schedule"]
<1>1. /\ proc["user"].at = "write" /\ "user" \in Procs /\ added' = added /\ change' = change
      /\ row' = {f(r) : r \in row} /\ Becomes("user", x)
      /\ handle' = handle /\ up' = up /\ lost' = lost
  BY DEF UpdateWrites, Store, Procs, GoesTo
<1>2. ASSUME NEW r \in row
      PROVE  f(r).sched = r.sched /\ f(r).enabled = r.enabled /\ f(r).next = r.next
  <2>1. r \in Row
    BY RowFacts
  <2>2. Chosen(change.sched, r.sched) = r.sched /\ Chosen(change.enabled, r.enabled) = r.enabled
    BY DEF Chosen, NoChange
  <2> QED
    BY <2>1, <2>2 DEF Row
<1> HIDE DEF f
<1>3. RowStays
  BY <1>1, <1>2 DEF RowStays
<1>4. FreshStart'
  BY <1>1, AddedStays, JobWasAdded
<1>5. /\ x.at = "schedule" /\ x.enabled = proc["user"].enabled /\ x.next = proc["user"].next
      /\ x.stale = proc["user"].stale
  BY <1>1, TaskFields
<1> HIDE DEF x
<1>6. ASSUME NEW s \in row' PROVE Agrees("user", x, change, s)
  <2>1. PICK r \in row : s.sched = r.sched /\ s.enabled = r.enabled /\ s.next = r.next
    BY <1>3 DEF RowStays
  <2>2. ~proc["user"].stale /\ ~WillArm(proc["user"]) => ~Recurs(r)
    BY <1>1, TaskAgrees DEF Agrees
  <2> QED
    BY <1>5, <2>1, <2>2 DEF Agrees, WillArm, Recurs
<1>7. StaysScheduled'
  BY <1>1, <1>3, OthersCarry DEF Carries
<1> QED
  BY <1>1, <1>3, <1>4, <1>6, <1>7, CopiesKept DEF Scheduled

\* An update that does.
LEMMA WritesChange ==
  ASSUME Types, Scheduled, UpdateWrites, change # NoChange, row # {} PROVE Scheduled'
<1> DEFINE f(r) == [r EXCEPT !.sched = Chosen(change.sched, r.sched),
                             !.enabled = Chosen(change.enabled, r.enabled),
                             !.next = IF change = NoChange THEN r.next ELSE proc["user"].next]
           x == [proc["user"] EXCEPT !.at = "schedule", !.stale = FALSE]
<1>1. /\ proc["user"].at = "write" /\ "user" \in Procs /\ added' = added
      /\ row' = {f(r) : r \in row} /\ HasWritten("user", x)
  BY DEF UpdateWrites, Store, Procs
<1>2. ASSUME NEW r \in row
      PROVE  f(r).enabled = Chosen(change.enabled, r.enabled) /\ f(r).next = proc["user"].next
  <2>1. r \in Row
    BY RowFacts
  <2> QED
    BY <2>1 DEF Row
<1> HIDE DEF f
<1>3. FreshStart'
  BY <1>1, AddedStays, JobWasAdded
<1>4. x.at = "schedule" /\ x.enabled = proc["user"].enabled /\ x.next = proc["user"].next
  BY <1>1, TaskFields
<1> HIDE DEF x
<1>5. ASSUME NEW s \in row' PROVE (s.enabled => x.enabled) /\ s.next = x.next
  <2>1. PICK r \in row : s = f(r)
    BY <1>1
  <2>2. Chosen(change.enabled, r.enabled) => proc["user"].enabled
    BY <1>1, TaskAgrees DEF Agrees
  <2> QED
    BY <1>2, <1>4, <2>1, <2>2
<1>6. ASSUME NEW q \in Procs, NEW s \in row' PROVE Agrees(q, proc'[q], change', s)
  <2>1. CASE q = "user"
    <3>1. proc'[q] = x
      BY <2>1, <1>1 DEF HasWritten
    <3> QED
      BY <1>4, <1>5, <2>1, <3>1 DEF Agrees, Recurs, WillArm
  <2>2. CASE q # "user"
    <3>1. proc'[q] = Staled(proc[q]) /\ proc[q] \in Proc
      BY <2>2, <1>1, TaskTypes DEF HasWritten
    <3>2. PICK r \in row : s = f(r)
      BY <1>1
    <3>3. Agrees(q, proc[q], change', r)
      BY <2>2, TaskAgrees DEF Agrees
    <3> QED
      BY <2>2, <3>1, <3>3, StaledAgrees
  <2> QED
    BY <2>1, <2>2
<1>7. StaysScheduled'
  <2>1. CASE Recurring' = {}
    BY <2>1 DEF StaysScheduled
  <2>2. CASE Recurring' # {}
    <3>1. PICK s \in row' : s.enabled /\ s.next # Never
      BY <2>2 DEF Recurring
    <3>2. Carries(x)
      BY <1>4, <1>5, <3>1 DEF Carries, WillArm
    <3> QED
      BY <1>1, <3>2, ArmsLater DEF Goes
  <2> QED
    BY <2>1, <2>2
<1> QED
  BY <1>3, <1>6, <1>7 DEF Scheduled, CopiesAgree

LEMMA UpdateWritesSchedule ==
  ASSUME Types, Scheduled, UpdateWrites PROVE Scheduled'
<1>1. CASE row = {}
  <2>1. /\ row' = {} /\ added' = added /\ "user" \in Procs /\ proc["user"].at = "write"
    BY <1>1 DEF UpdateWrites, Store, Procs
  <2>2. FreshStart'
    BY <2>1, AddedStays, JobWasAdded
  <2> QED
    BY <2>1, <2>2 DEF Scheduled, CopiesAgree, StaysScheduled, Recurring
<1> QED
  BY <1>1, WritesNothing, WritesChange

LEMMA DropRequestSchedule ==
  ASSUME Types, Scheduled, NEW p \in Procs, DropRequest(p) PROVE Scheduled'
<1>1. /\ proc[p].at \notin {"idle", "arm"} /\ p \in {"user", "resume"} /\ Becomes(p, Idle)
      /\ row' = row /\ added' = added /\ handle' = handle /\ up' = up
      /\ change' = IF p = "user" THEN NoChange ELSE change
      /\ lost' = (lost \/ (proc[p].at \in {"schedule", "delete"} /\ NoTimer))
  BY DEF DropRequest
<1>2. FreshStart' /\ RowStays
  BY <1>1, AddedStays, JobWasAdded, SameRowStays
<1>3. ASSUME NEW q \in Procs, NEW r \in row' PROVE Agrees(q, proc'[q], change', r)
  <2>1. CASE q = p
    <3>1. proc'[q] = Idle
      BY <1>1, <2>1 DEF Becomes, Types, TypeOK
    <3> QED
      BY <3>1, IdleAgrees
  <2>2. CASE q # p
    <3>1. proc'[q] = proc[q]
      BY <1>1, <2>2 DEF Becomes, Types, TypeOK
    <3>2. Agrees(q, proc[q], change, r)
      BY <1>1, TaskAgrees
    <3>3. q = "user" => change' = change
      BY <1>1, <2>2
    <3>4. Agrees(q, proc[q], change', r)
      BY <3>2, <3>3 DEF Agrees
    <3> QED
      BY <3>1, <3>4
  <2> QED
    BY <2>1, <2>2
<1>4. StaysScheduled'
  <2>1. CASE proc[p].at \in {"schedule", "delete"}
    BY <1>1, <2>1, EndsOrLoses
  <2>2. CASE proc[p].at \notin {"schedule", "delete"}
    <3>1. ~Carries(proc[p])
      <4>1. proc[p].at \in PhaseOf(p)
        BY TaskTypes DEF TaskOK
      <4> QED
        BY <4>1, <1>1, <2>2 DEF PhaseOf, Carries
    <3>2. lost' = lost
      BY <1>1, <2>2, MapTypes
    <3> QED
      BY <1>1, <1>2, <3>1, <3>2, OthersCarry
  <2> QED
    BY <2>1, <2>2
<1> QED
  BY <1>2, <1>3, <1>4 DEF Scheduled, CopiesAgree

LEMMA RemoveSchedule ==
  ASSUME Types, Scheduled, RemoveCancels \/ RemoveDeletes PROVE Scheduled'
<1>1. "user" \in Procs
  BY DEF Procs
<1>2. CASE RemoveCancels
  <2> DEFINE x == [proc["user"] EXCEPT !.at = "delete"]
  <2>1. /\ row # {} /\ row' = row /\ added' = added /\ change' = change
        /\ Becomes("user", x) /\ x.at = "delete"
    BY <1>1, <1>2, TaskFields DEF RemoveCancels, GoesTo
  <2> HIDE DEF x
  <2>2. FreshStart' /\ RowStays
    BY <2>1, AddedStays, JobWasAdded, SameRowStays
  <2>3. Carries(x) /\ \A s \in row' : Agrees("user", x, change, s)
    BY <2>1 DEF Carries, Agrees, Reading
  <2> QED
    BY <1>1, <2>1, <2>2, <2>3, CopiesKept, ArmsLater DEF Scheduled, Goes
<1>3. CASE RemoveDeletes
  <2>1. row' = {} /\ added' = added /\ proc["user"].at # "idle"
    BY <1>3 DEF RemoveDeletes
  <2>2. FreshStart'
    BY <1>1, <2>1, AddedStays, JobWasAdded
  <2> QED
    BY <2>1, <2>2 DEF Scheduled, CopiesAgree, StaysScheduled, Recurring
<1> QED
  BY <1>2, <1>3

LEMMA RunNowEndsSchedule ==
  ASSUME Types, Scheduled, RunNowEnds PROVE Scheduled'
<1>1. /\ row # {} /\ proc' = proc /\ change' = change /\ added' = added
      /\ handle' = handle /\ up' = up /\ lost' = lost /\ Store(LAMBDA r : [r EXCEPT !.retry = 0])
  BY DEF RunNowEnds
<1>2. RowStays
  BY <1>1, RetryWritten
<1>3. FreshStart'
  BY <1>1, AddedStays, JobWasAdded
<1>4. ASSUME NEW q \in Procs, NEW s \in row' PROVE Agrees(q, proc'[q], change', s)
  <2>1. PICK r \in row : s.sched = r.sched /\ s.enabled = r.enabled /\ s.next = r.next
    BY <1>2 DEF RowStays
  <2>2. Agrees(q, proc[q], change, r)
    BY TaskAgrees
  <2> QED
    BY <1>1, <2>1, <2>2 DEF Agrees, Recurs
<1>5. Recurring' # {} => Recurring # {}
  BY <1>2 DEF Recurring, RowStays
<1>6. StaysScheduled'
  BY <1>1, <1>5 DEF StaysScheduled, Scheduled
<1> QED
  BY <1>3, <1>4, <1>6 DEF Scheduled, CopiesAgree

LEMMA ResumeListsSchedule ==
  ASSUME Types, Scheduled, ResumeLists PROVE Scheduled'
<1>1. /\ "resume" \in Procs /\ row' = row /\ added' = added /\ change' = change /\ row # {}
      /\ handle' = handle /\ up' = up /\ lost' = lost /\ proc["resume"].at = "idle"
  BY DEF ResumeLists, Procs
<1>2. FreshStart' /\ RowStays
  BY <1>1, AddedStays, JobWasAdded, SameRowStays
<1>3. PICK r \in row :
        /\ r.enabled
        /\ Becomes("resume", [at |-> IF Missed(r) THEN "mark" ELSE "schedule", sched |-> r.sched,
                              enabled |-> TRUE, next |-> r.next, retry |-> 0, stale |-> FALSE])
  BY DEF ResumeLists
<1> DEFINE a == IF Missed(r) THEN "mark" ELSE "schedule"
           x == [at |-> a, sched |-> r.sched, enabled |-> TRUE, next |-> r.next, retry |-> 0,
                 stale |-> FALSE]
<1>4. /\ Becomes("resume", x) /\ x.at \in {"mark", "schedule"} /\ x.enabled = TRUE
      /\ x.next = r.next /\ row = {r}
  BY <1>3, RowFacts
<1> HIDE DEF x
<1>5. \A s \in row' : Agrees("resume", x, change, s)
  BY <1>1, <1>4 DEF Agrees, Recurs, WillArm
<1>6. StaysScheduled'
  BY <1>1, <1>2, <1>4, OthersCarry DEF Carries
<1> QED
  BY <1>1, <1>2, <1>4, <1>5, <1>6, CopiesKept DEF Scheduled

LEMMA ResumeMarksSchedule ==
  ASSUME Types, Scheduled, ResumeMarks PROVE Scheduled'
<1>1. /\ "resume" \in Procs /\ added' = added /\ change' = change
      /\ proc["resume"].at = "mark" /\ handle' = handle /\ up' = up /\ lost' = lost
      /\ Store(LAMBDA r : [r EXCEPT !.retry = 0])
  BY DEF ResumeMarks, Procs
<1>2. FreshStart' /\ RowStays
  BY <1>1, AddedStays, JobWasAdded, RetryWritten
<1> DEFINE x == [proc["resume"] EXCEPT !.at = "remiss"]
<1>3. Becomes("resume", x) /\ x.at = "remiss" /\ x.enabled = proc["resume"].enabled
  BY <1>1, TaskFields DEF ResumeMarks, GoesTo
<1>4. row # {} => proc["resume"].enabled
  BY <1>1, TaskAgrees DEF Agrees, Reading
<1>5. row = {} => row' = {}
  BY <1>2 DEF RowStays
<1> HIDE DEF x
<1>6. \A s \in row' : Agrees("resume", x, change, s)
  BY <1>3, <1>4, <1>5 DEF Agrees
<1>7. StaysScheduled'
  BY <1>1, <1>2, <1>3, OthersCarry DEF Carries
<1> QED
  BY <1>1, <1>2, <1>3, <1>6, <1>7, CopiesKept DEF Scheduled

LEMMA ResumeReschedulesSchedule ==
  ASSUME Types, Scheduled, ResumeReschedules PROVE Scheduled'
<1> DEFINE me == proc["resume"]
<1>1. /\ "resume" \in Procs /\ added' = added /\ change' = change
      /\ me.at \in Reading /\ me.at # "idle"
  BY DEF ResumeReschedules, Procs, Reading
<1>2. added
  BY <1>1, JobWasAdded
<1>3. row # {} => me.enabled
  BY <1>1, TaskAgrees DEF Agrees
<1>4. CASE me.sched.kind = "at"
  <2> DEFINE x == [me EXCEPT !.at = "schedule", !.enabled = FALSE]
  <2>1. HasWritten("resume", x) /\ x.at = "schedule"
    BY <1>1, <1>4, TaskFields DEF ResumeReschedules
  <2>2. Store(LAMBDA r : [r EXCEPT !.enabled = FALSE, !.next = Never])
    BY <1>4 DEF ResumeReschedules
  <2> HIDE DEF x
  <2> QED
    BY <1>1, <1>2, <2>1, <2>2, DisablesAll
<1>5. CASE me.sched.kind # "at"
  <2> DEFINE t == ComputeNextRun(me.sched)
             y == [me EXCEPT !.at = "schedule", !.next = t]
             x == IF row = {} THEN Idle ELSE y
  <2>1. HasWritten("resume", x) /\ Store(LAMBDA r : [r EXCEPT !.next = t])
    BY <1>5 DEF ResumeReschedules
  <2> HIDE DEF t
  <2>2. y.at = "schedule" /\ y.next = t /\ y.enabled = me.enabled
    BY <1>1, TaskFields
  <2>3. row # {} => x.at = "schedule" /\ x.next = t /\ x.enabled
    BY <1>3, <2>2
  <2> HIDE DEF x
  <2> QED
    BY <1>1, <1>2, <2>1, <2>3, GivesNextRun
<1> QED
  BY <1>4, <1>5

LEMMA ProcessSchedule ==
  ASSUME Types, Scheduled, Crash \/ Restart \/ TimePasses PROVE Scheduled'
<1>1. CASE Crash
  <2>1. \A q \in Procs : \A r \in row' : Agrees(q, proc'[q], change', r)
    BY <1>1, IdleAgrees DEF Crash
  <2>2. FreshStart'
    BY <1>1 DEF Crash, Scheduled, FreshStart, Idle
  <2> QED
    BY <1>1, <2>1, <2>2 DEF Crash, Scheduled, CopiesAgree, StaysScheduled
<1>2. CASE Restart
  <2>1. /\ proc' = proc /\ change' = change /\ added' = added /\ orphans' = orphans
        /\ row' \subseteq row
    BY <1>2 DEF Restart
  <2>2. CopiesAgree'
    BY <2>1 DEF Scheduled, CopiesAgree
  <2>3. FreshStart'
    BY <1>2, <2>1 DEF Restart, Scheduled, FreshStart
  <2>4. StaysScheduled'
    <3>1. CASE Recurring' = {}
      BY <3>1 DEF StaysScheduled
    <3>2. CASE Recurring' # {}
      <4>1. PICK r \in row' : r.enabled /\ r.next # Never
        BY <3>2 DEF Recurring
      <4>2. r \in row
        BY <2>1
      <4>3. [sched |-> r.sched, due |-> r.next, live |-> TRUE] \in handle'
        BY <1>2, <4>1, <4>2 DEF Restart
      <4> QED
        BY <4>3 DEF StaysScheduled
    <3> QED
      BY <3>1, <3>2
  <2> QED
    BY <2>2, <2>3, <2>4 DEF Scheduled
<1>3. CASE TimePasses
  BY <1>3 DEF TimePasses, Scheduled, FreshStart, CopiesAgree, StaysScheduled, Recurring
<1> QED
  BY <1>1, <1>2, <1>3

LEMMA NextSchedule == Types /\ Scheduled /\ [Next]_vars => Scheduled'
<1> SUFFICES ASSUME Types, Scheduled, [Next]_vars PROVE Scheduled'
  OBVIOUS
<1>1. CASE HandleFires \/ OrphanFires
  BY <1>1, FiresSchedule
<1>2. CASE \E p \in Procs : TaskStep(p)
  <2>1. PICK p \in Procs : TaskStep(p)
    BY <1>2
  <2>2. CASE p \in Tickers /\ Tick(p)
    BY <2>2, TickLoadsSchedule, TickFailsSchedule, TickMovesSchedule, TickReschedulesSchedule,
       TickRetriesSchedule DEF Tick
  <2>3. CASE UpdateWrites \/ RemoveDeletes
    BY <2>3, UpdateWritesSchedule, RemoveSchedule
  <2>4. CASE Resume
    BY <2>4, ResumeMarksSchedule, ResumeReschedulesSchedule DEF Resume
  <2>5. CASE ScheduleJob(p)
    BY <2>5, CancelsSchedule, ArmsSchedule DEF ScheduleJob
  <2>6. CASE DropRequest(p)
    BY <2>6, DropRequestSchedule
  <2> QED
    BY <2>1, <2>2, <2>3, <2>4, <2>5, <2>6 DEF TaskStep
<1>3. CASE Request
  BY <1>3, AddJobSchedule, UpdateReadsSchedule, RemoveSchedule, RunNowEndsSchedule DEF Request
<1>4. CASE ResumeLists
  BY <1>4, ResumeListsSchedule
<1>5. CASE Crash \/ Restart \/ TimePasses
  BY <1>5, ProcessSchedule
<1>6. CASE UNCHANGED vars
  BY <1>6 DEF vars, Scheduled, FreshStart, CopiesAgree, StaysScheduled, Recurring
<1> QED
  BY <1>1, <1>2, <1>3, <1>4, <1>5, <1>6 DEF Next

LEMMA InitSchedule == Init => Scheduled
BY DEF Init, Scheduled, FreshStart, CopiesAgree, StaysScheduled, Recurring, Idle

\* Whatever ticks, retries, updates of any kind and the resume handler do to the
\* timer, in any number and any order, and whenever the process crashes, a job
\* that is enabled, recurs and has a next run has a live timer in the map once
\* nothing is under way.  Its timer is lost only by a dropped request, a failed
\* tick or a task that works on a stale copy (schedule_job,
\* reschedule_after_execution, schedule_retry, update_job, init).
THEOREM RecurringStaysScheduled == Spec => []EnabledIsScheduled
<1>1. Types /\ Scheduled /\ [Next]_vars => Scheduled'
  BY NextSchedule
<1>2. Scheduled => EnabledIsScheduled
  <2> SUFFICES ASSUME Scheduled, Quiet, Recurring # {}, ~lost PROVE \E t \in handle : t.live
    BY DEF EnabledIsScheduled
  <2>1. \A p \in Procs : ~Carries(proc[p])
    BY DEF Quiet, Carries
  <2> QED
    BY <2>1 DEF Scheduled, StaysScheduled, Quiet
<1> QED
  BY <1>1, <1>2, InitTypes, NextTypes, InitSchedule, PTL DEF Spec

=============================================================================
