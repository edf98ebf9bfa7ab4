# VeryAgentCore in TLA+

A verification project for VeryAgentCore, the Rust back end that runs agent
conversations, teams of agents, scheduled jobs and their front-end connections.
It holds TLA+ modules translated from the source, TLC configurations that check
them on small instances, and theorems TLAPS checks for every instance.

Four parts are modelled, those where most of the coordination happens:
the runs of a team (`veryagent-team`), in which several agents work together, wake
each other through mailboxes, and can be paused or cancelled at any moment, with the
session around them; the turns of one conversation (`veryagent-conversation`) with the
task manager that builds and kills the conversation's agent (`veryagent-ai-agent`); the
scheduled jobs (`veryagent-cron`); and the way of an event to the connected clients
(`veryagent-realtime`).

## 1. Inventory

Paths are relative to `src/crates/`.

### Team (`veryagent-team`)

| part | state | operations | works with |
|---|---|---|---|
| wake sources (`wake.rs`) | none | `acquire_policy`, class of a source | team run |
| slot gate (`slot_wake_gate.rs`) | per slot: mode, suppressed count, source of the next wake | `before_wake`, `pause_slot`, `add_suppressed_pending`, `release_suppressed_if_resumed` | team run |
| run manager (`team_run.rs`) | `Mutex<Option<TeamRunRecord>>`: status, pending wakes, starting and active children, gate, operation leases | acquire / commit / abort a lease, claim, start, retry and complete a turn, pause, cancel child, cancel run, `maybe_complete` | session, event loops |
| event loop (`event_loop.rs`), one task per slot | the turn in hand; one `Notify` permit | wait, drain: peek, claim, send, finalize | run manager, session, execution port |
| session (`session.rs`) | registered loops, recovery flag | send messages, cancel, pause, recover the unread backlog, spawn, `compute_wake_input` | all of the above, mailbox |
| mailbox (`mailbox.rs`) | rows in the database | write, peek unread, mark read | session, event loop |
| scheduler (`scheduler/*`) | agent statuses, finalize deduplication, crash counters | `finalize_turn`, agent actions, shutdown handshake | event loop, session |
| task board (`task_board.rs`) | tasks and their blockers in the database | create, update, unblock dependants | MCP tools |
| service and MCP server (`service.rs`, `mcp/*`) | sessions by team, locks for adding agents | ensure, stop and restore sessions, tool calls | session |

What is hard: every method of the run manager is one critical section of one
mutex, but every *caller* strings several of them together with awaits in
between. A requester writes a mailbox row between acquiring and committing a
lease; an event loop hands a turn to the execution port and gets its answer much
later; a stop request looks up a child, waits for the cancellation port, and then
removes *whatever* child the slot has. The run those calls come back to can be
another one than the run they left.

What makes it correct: one run at a time, with one outcome; a run is not
completed while anybody still holds or owes work; whatever it waits for has an
owner; a cancelling run only winds down; a message that was accepted is
delivered; the user is served before background traffic; a paused slot stays
paused until the user speaks to it.

### The rest of the system

| component | state | hard behaviour | what makes it correct |
|---|---|---|---|
| conversations (`veryagent-conversation`: `runtime_state.rs`, `turn_orchestrator.rs`, `service.rs`) | claims of turns; deleting, cancelling and shutting-down flags | a claim against a concurrent delete, cancel or shutdown; flags that outlive the turn they were set for; team turns that sleep until a release | one turn per conversation; every flag and claim is given back; no waiter sleeps through a release |
| agent tasks (`veryagent-ai-agent`: `task_manager.rs`, `idle_scanner.rs`) | a map of once-cells, one per conversation | a build in flight against a kill, the idle scan or shutdown; failed and dropped builds | one factory per cell; nobody is given a killed agent; waiters are served |
| agents (`veryagent-ai-agent`, ACP and others) | session state of an external process | process exit during a prompt, permission requests | every prompt gets one end |
| cron (`veryagent-cron`: `scheduler.rs`, `service.rs`, `executor.rs`) | a timer per job in a map, the rows of the jobs, ticks under way | updates, removal and resume against a tick that works on an old copy; retries that replace the timer; timers whose handle is overwritten; requests that are dropped half way; restarts | an enabled job that has a next run does not fall silent, its retries end and its timer comes back to the schedule of its row, a removed job goes quiet |
| realtime (`veryagent-realtime`, bridge in `veryagent-app`) | event bus, connections with bounded queues, two loops per connection, heartbeat | slow consumers, clients that vanish, removal while frames are queued, an overrun bus | order per connection; a connection that has ended leaves the manager; a close notice is delivered |
| persistence (`veryagent-db`) | SQLite | transactions | atomic calls |
| channels (`veryagent-channel`) | messenger sessions, pairing | reconnects of external services | - |
| extensions, MCP configuration | packages on disk | installation | - |
| runtime, shell, files, office, assets | files, child processes | I/O | - |
| assistant, system, prompts, auth, API types, app | settings, tokens, wiring | - | - |

## 2. Plan

Order: what is most entangled comes first.

1. **TeamWake** (operators), **SlotWakeGate** (one slot) - done, with its theorems.
2. **TeamRun** - the run manager with its requesters, loops and stop requests;
   **TeamRunLifecycle**, the abstract life of runs it implements - done, with its
   type invariant, ownership, lease, order, winding-down and refinement theorems.
3. **TeamSession** - extends TeamRun by unread mailboxes, `Notify` permits, the
   snapshot of `compute_wake_input`, mark-read after a turn and the recovery once per
   session; each of its steps is a step of TeamRun or leaves the run manager alone, so
   the safety of TeamRun carries over - done, with its theorems.
4. **AgentTasks** - the task manager of one conversation: once-cells, kills, the idle
   scan, shutdown, with callers that stop anywhere - done, with its theorems.
5. **ConversationTurns** - claims, flags, user and team turns, deletion,
   cancellation, warmup, evictions; uses AgentTasks through its operations - done, with
   its theorems. It is the real execution port behind TeamRun; composing the two is
   worth it once TeamSession is there.
6. **CronJobs** - one job with its row, its timer, ticks, requests, resume and
   restart - done, with its theorems.
7. **Realtime** - event bus, bridge, queues, loops and heartbeat - done, with its theorems.

What the plan has left: the abort and registration of event loops inside TeamSession
(ConversationTurns has the abort from the conversation's side), the composition of
TeamSession with ConversationTurns as its execution port, agent statuses and the
finalize deduplication of the scheduler, and the relay of agent streams.

Abstract specifications worth stating: runs (`TeamRunLifecycle`, done); TeamRun for
TeamSession (`SessionRefinesRun`, proved); AgentTasks under arbitrary callers, which ConversationTurns
implements (`UsesTaskManager`, proved); what the requests of a conversation get (`ExclusiveTurns`,
proved); what a client may rely on about events (`EventStream`, proved).

Every safety property a run checks is proved, except `WaitersCanMove`, which is stated with ENABLED. Theorems worth proving next: the session
with a port that fails turns it has started.

## 3. The modules

### TeamWake

Operators only: the wake sources and their classes, `AcquirePolicy`
(`wake.rs:54`), `PushWake`, the insertion that puts the user's wake in front of
background wakes (`team_run.rs:383`), and the gate of a slot as a function of
its entry. An entry is a record `[mode, held]`. The code counts suppressed
wakes; TeamWake keeps only *whether* there are any, through the source of the one
wake they will become.

### SlotWakeGate

One slot with the code's counter `suppressed` beside the entry. `Arrive` (a wake asks
the gate and is queued or counted), `Take` (the front wake is claimed or dropped),
`Pause`, `Release` and `Clear` are the calls the run manager makes. That the counter and
the entry agree is proved (`RetainedIsAgreed`), and every call changes the entry as TeamWake says (`EntryFollowsGate`), so
that leaving the counter out of TeamRun loses nothing.

### TeamRun

Variables and what they stand for:

| variable | code |
|---|---|
| `run` | `TeamRunManager.inner`, the `Option<TeamRunRecord>`; `NoRun` is `None` |
| `lastRun` | run ids; a fresh uuid is the next number |
| `ended` | history variable: the outcome each run left with |
| `calls` | the leases held in local variables of `send_message`, `send_message_to_agent`, `wake_agent_for_run_source`, the MCP tools |
| `turns` | the local variables of `process_wake_input` for each slot: the peeked wake, the run id read after it, the claimed wake, the turn id |
| `stops` | the local variables of `cancel_run`, `cancel_child_turn` and `pause_slot_work` |

Every action is a critical section of the manager's mutex, or a step of a caller
that changes only what it has in hand. The steps of one caller, in order:

- requester (see also TeamSession): `AcquireIntervention` / `AcquireNewRun` / `AcquireScoped`, then
  `CommitLease` or `AbortLease`; `RecordOrSuppressWake` and `RecoverBacklog` are one step.
- loop: `PeekWake`, `NoteRun`, then `LeaveBacklog`, `ObserveEmptyWake` or
  `ClaimWake`; then `StartFails`, `RetryStartLater` or `StartTurn` (the callback
  of the port), `CancelLateStart` and `FinishLateStart` when the run was cancelled
  meanwhile; then `AcquireWakeLead` and `CommitWakeLead` if the scheduler names the
  leader, `CompleteChild`, `MaybeCompleteRun`, `ReleaseSuppressed`.
- stop request: `CheckCancel`, `BeginCancel`, `ListChildren`, `SweepChild`...,
  `FinishSweep`; or `BeginCancelChild`, then `FinishStarting`, or `FinishCancelChild`
  with `WriteNotice` (the idle notification in the leader's mailbox) and `NotifyLead`
  (its wake), and `FinishLead` for the leader's own turn; or `CheckPause`,
  `BeginPause`, `FinishPause`. `EndStop` ends a stop request at any point: the handlers
  in `routes.rs:224` await these calls, so that a client that disconnects drops them
  where they are, and a mailbox call or the cancellation port may fail.

Left open on purpose in TeamRun (a superset of what the code does; TeamSession settles the
first two): whether a mailbox is
empty when a loop looks, whether a mailbox write succeeds, when a port answers
and what, whether `finalize_turn` names the leader. `MayRetryStart` and
`MayFailStarted` say whether the execution port uses two answers its trait
allows and the adapter in `veryagent-app` does not use at present.

### TeamRunLifecycle

What the manager promises of runs: numbered in order of birth, at most one alive,
`Accepted -> Running -> Completed | Failed`, from both to `Cancelling`, from there
only to `Cancelled` or `Failed`; outcomes are final. `ImplementsLifecycle` in
TeamRun instantiates it with `phase` read off `run` and `ended`.

### TeamSession

EXTENDS TeamRun. A behaviour is one life of a session; it may begin with unread mail an
earlier life has left, which is what a crash or a restart leaves behind.

| variable | code |
|---|---|
| `unread`, `written` | the rows of `mailbox.rs` that are not marked read; the messages ever written |
| `letters` | the message a sender has written and not yet committed a wake for |
| `place` | where each `run_event_loop` is: waiting for its signal, looking, with the mailbox read, in a turn, after marking, after telling the leader |
| `permit` | the one permit of each loop's `Notify` |
| `input` | `WakeInput.unread`: the snapshot a loop carries through its turn |
| `scan` | `try_start_recovery_drain`, once per session: mailboxes still to be read, those found with mail |
| `drain` | for each `cancel_run`: the mailboxes it has read, the mail it found there, whether that is marked |
| `faults` | calls of the mailbox that have failed, and stop requests that were dropped with their client |
| `accepted`, `delivered`, `discarded`, `passed` | history: messages whose wake was committed, that were handed to an agent, that a cancellation marked read; slots whose loop has had mail in hand and passed it by for the wake of an intervention already read |

Senders: `Ask`, `WriteLetter` or `DropLetter`, `CommitLetter` (commit and notify). Recovery: `FindBacklog` for
one mailbox after the other, `ScanFails` (the flag is set already, so the recovery is lost), `RecoverFound`. Loop:
`Notified`, `ReadMailbox` (or `ReadFails`), `PeekNext`, `NoteNext`, then `LeaveMail`,
`FindEmpty` or `Claim`; `Prompt` or `Refused`, `LateStart`; `MarkRead`, `TellLead`,
`WakeLead`, `Complete`, `GoRound`. Stop requests: between `BeginCancel` and the sweep, `ReadMail` for
one mailbox after the other, `DiscardMail` (everything found is marked), `SweepBegins`; `Notice` writes the idle
notification of an interrupted child; `MailFails`, `PortFails` and `DropStop` are the ways a stop request ends
before its time; `StopKeepsMail` are all steps that touch no mailbox. Idle notifications are one message, `Note`. `RecordOrSuppressWake` (the welcome
of a spawned agent) and `RetryStartLater` (an answer the application's port never gives) are
actions of TeamRun that TeamSession does not use; MCTeamRun_two_stops and MCTeamRun_stops fire them.

### AgentTasks

The task manager as one conversation sees it. `tasks` is the entry of the DashMap, a
cell number or `NoCell`; `cell` is the content of each `OnceCell` that ever was
in the map: `empty`, `building`, or an agent (`fresh`, `running`, `finished`, `killed`).
`caller` holds each caller's place in `get_or_build_task` and the `Arc` of the slot it
has cloned, which it keeps when the entry is removed. `scanner` and `clearing` are
the two-step removals: the idle scan that spawns a kill task, and `clear`, which reads
the keys first. `RunFactory`, `FactoryOk`, `FactoryErr`, `TakeBuilt` and `GiveUp` are
`get_or_try_init`; dropping a future in the middle of a build is a failed build.
`RemoveTask` is what `kill`, `kill_and_wait`, `clear` and the deletion hook share: the
entry goes, and an agent is killed only if the cell has one.

### ConversationTurns

EXTENDS AgentTasks; its callers are the turns and the warmups.

| variable | code |
|---|---|
| `active`, `deleting`, `cancelling`, `shut` | `ConversationRuntimeState` of `runtime_state.rs` |
| `row` | the row of the conversation exists |
| `turn` | the future of each request: `send_message` (user turns) or the team adapter's retry loop around `run_agent_turn` (team turns), then `run_user_turn` and `run_attempt`; `life` is the lifecycle read before the prompt |
| `woken` | `Notified` futures that `notify_waiters` has woken |
| `stored`, `accepted` | user messages in the database; requests answered with Ok |
| `warmer`, `deleter`, `canceller` | the futures of the other requests, with the local variables they carry across an await (`had_active_turn`, `turn_id`) |

One action is one critical section of the runtime state's mutex, one call of the
task manager, or one database call. `Release` and `NotifyWaiters` are two steps, as in
`release`, so that a waiter can be anywhere between them. `AbortTurn` is the abort of
a team agent's event loop in the middle of its turn: dropping the future drops the
claim. `AllowMessage` and `StoreMessage` are the look at the lifecycle and the insert of a user
message. `DropDeletion` is the drop of the delete handler (`routes.rs:177`) when its client disconnects after
`mark_deleting`: nothing guards the flag, so a deletion that found no active turn is `lost` with it.

Left open on purpose: whether an error is retryable, whether a build, an insert, the
workspace write or the deletion of the row fails, when and how an agent answers.

### ExclusiveTurns

What the requests of one conversation get: each is refused, or has one turn, alone, in which it stores its
message at most once and before it first talks to an agent, talks a bounded number of times, and when it is
over does not come back. `TurnsInLine` in ConversationTurns instantiates it with `Asked`: the place of a turn's
future is read as open, ready, talking, silent or over (`Part`), and its `replayed` and `continued` are kept.
Claims, the deleting flag, waiters, agents and the task manager are hidden.

### CronJobs

One job; jobs share neither rows nor timers. `row` is its row (the empty set when there is
none), `handle` the entry of `CronScheduler.handles` with what its timer will do, `orphans`
the timers whose handle was overwritten: dropping a tokio `JoinHandle` does not stop the
task. `proc` holds, for every tick, for the one request and for the resume handler, the copy
of the job it has read and what it does next; `change` is the body of the update request
under way. Schedules are one-shot, periodic, and Cron expressions with a last time at which they match:
`ComputeNextRun` is `Never` when that is past, or from the beginning for the empty expression ("manual
only", `scheduler.rs:88`). An update may change a schedule into one of any kind. Two history variables
name what the properties except: `stale` marks a task that will not arm the timer although another has
written the row since it read it, and `lost` a job whose timer went by such a task, by a failed tick or by a
dropped request. `HandleFires` and `OrphanFires` spawn a tick, as the callback in
`veryagent-app/src/router/state.rs` does. A tick is `TickLoads`, `Executes` or `FindsBusy`, then
`TickSettles` and `TickReschedules`, or `TickRetries`, then `schedule_job`, which is two
steps, `Cancels` and `Arms`, because other tasks run between the removal and the insertion.
`AddJob`, `UpdateReads`/`UpdateWrites`, `RemoveCancels`/`RemoveDeletes` and `RunNowEnds` are
the requests, `ResumeLists`, `ResumeMarks` and `ResumeReschedules` the resume handler,
`Crash` and `Restart` (with the orphan check of `init`) the life of the process. `TickFails` is a tick that
cannot read the job or resolve its runtime, `DropRequest` the end of a request or of the resume handler whose client
goes or whose database call fails.

### Realtime

`bus`, `lagged` and `bridge` are the broadcast channel and the task of
`router/routes.rs:53` that forwards it; `connections`, `queue`, `silent` and `valid` are the
manager's map with each entry's channel, `last_ping` and token; `sender` and `handler` are
`send_loop` and `handle_socket` with `recv_loop`; `client` is the other end of the socket,
which is alive, has been told to close, or has vanished; `beat` is what a heartbeat tick has
decided to remove. `TrySend` is `try_send` on a bounded channel: what finds no room is lost,
and the connection stays, except for the heartbeat, which removes it all the same. Nothing outside the tests
calls `start_heartbeat`, so its two actions may happen here, and nothing is assumed of them: the behaviours without a
heartbeat are those of the program as it is built.

### EventStream

What a client may rely on about events: it receives some of those published while it is there, none twice, none
before an older one, and nothing after it has left. `StreamsEvents` in Realtime instantiates it
with `seen` for the last event received and `Place(c)`, read off the handler: a client is here from its
registration until its receive loop has ended. Bus, bridge, queues, loops and heartbeat are hidden.

### The proof modules

SlotWakeGateProofs, TeamRunProofs, TeamRunSafety, TeamSessionProofs, AgentTasksProofs,
ConversationTurnsProofs, CronJobsProofs, RealtimeProofs.

The theorems; see section 6.

## 4. What the runs check

| run | question | properties |
|---|---|---|
| SlotWakeGate | does one slot's gate release exactly one wake for what it held back, and the queue keep its order? | QueueOrder, PushIsInsert, EntryFollowsGate |
| MCTeamRun_stops | any one stop request against a loop, two runs, with a port that also refuses and fails late: does work keep its owner, does a cancelling run only wind down? | TypeOK, WorkOwned, ImplementsLifecycle, WindsDown |
| MCTeamRun_two_stops | two stop requests on one run, against the loop of the leader, whose cancelled turn may complete the run; also spawn welcomes and recovery | LeaseKeepsRunOpen |
| MCTeamSession_queues | the leader's loop, two senders, a backlog, a failing mailbox call, two runs: is mail lost, delivered twice, slept on; does the user stay first? | SessionTypeOK, NothingReadUnseen, NeverSleepsOnWork, ForegroundFirst, DeliveredOnce, WakeServed |
| MCTeamSession_cancels | a stop request against a worker's loop with mail, a port that fails late, and a failing mailbox call or a client that goes away: does a cancelled run end, but for the named cases? | CancelHasFinisher, CancelEnds |
| AgentTasks | three callers, three cells, kills, scans, shutdown: single flight, nobody given a killed agent, and every waiter served? | TasksTypeOK, MapAgentAlive, OneFactoryPerCell, WaitersCanMove, AskersAreServed |
| MCConversationTurns_deletes | two deletions that overlap, fail and are dropped, against a user turn and a waiting team turn: are claim, flag and wake-ups given back, does everything end, does each request have one turn alone? | ClaimIsHeld, DeletingHandedOver, NoLostWakeup, TurnsEnd, DeletingEnds, TurnsInLine |
| MCConversationTurns_cancels | a cancellation, a warmup, reconfiguration and shutdown against two turns with continuation and replay: do continuations stay bounded, is the task manager used only by its operations? | TypeOK, UsesTaskManager |
| CronJobs | a tick, its retries, an update, removal, run-now, resume, failed and dropped requests, crashes and an overwritten timer: does an enabled job with a next run keep a timer, come back to its schedule, and a removed one go quiet? | TypeOK, EnabledIsScheduled, RemovedGoesQuiet, BackOnSchedule |
| Realtime | a connection with a small queue, a small bus, an expiring token, a client that may vanish, with and without a heartbeat: order, and does a connection that was told to close or has ended leave? | TypeOK, GoneIsUnregistered, StreamsEvents, NoticedLeaves |
| MCTeamSession_v_delivery | finding 1 | AcceptedIsDelivered (violated) |
| Realtime_v_bridge | finding 2 | PublishIsHeard (violated) |

Invariants that are proved are not all checked a second time: the type invariant and `RetainedAgrees` of SlotWakeGate,
`EventsInOrder` of Realtime, `WorkOwned` under two stops and `ClaimIsHeld` under a cancellation rest on their theorems.

`WorkOwned` is the property to look at: a reservation, child or lease in the
record without a caller that will give it back would keep the run from ever
completing. It holds in a live run in spite of calls that act on whatever they find
(`record_child_cancelled`, `pause_slot_work`, `complete_failed`), and in a
cancelling run with two named exceptions: leases, which neither commit nor abort
removes there, and reservations whose port asks for a retry.
`LeaseKeepsRunOpen` is its converse for requesters.

In ConversationTurns the corresponding properties are `ClaimIsHeld` (a claim belongs to
one turn that is on its way to release it) and `DeletingHandedOver`: `delete` leaves the
flag to the active turn if there was one when it set the flag, so the flag has two possible
owners and overlapping deletions share it. It holds because a deletion that found no turn, or
fails, clears the flag itself, and a turn that was found clears it when it releases. Both `DeletingHandedOver` and
`DeletingEnds` except, by name, a deletion that found no turn and whose handler was dropped with its client: that
flag stays, and the conversation refuses turns until the process restarts.

In TeamSession, `NothingReadUnseen` and `NeverSleepsOnWork` are the two sides of the snapshot a
loop takes of its mailbox. The loop marks exactly what it has handed over, so mail that
arrives during the turn stays unread; and whoever commits a wake notifies the loop afterwards,
so a loop that sleeps has either seen the mail or has a permit. The second holds only with the two
exemptions it names: a mailbox call that fails (the loop then takes the permit and waits), and a
slot whose loop, with mail in hand, found the wake of an intervention in front whose message an earlier turn
had read (it then drops that wake and waits, whatever else is unread). `WakeServed` is
the same as a liveness property. `CancelEnds` says that a cancelled run ends, and names what may keep
it: a lease that was outstanding, a gate that a late pause has armed, a failed mailbox call, a stop request
dropped with its client (nothing finishes its sweep), or, in
a later run, a loop that still has the id of an earlier one (`team_run.rs:1326`). `CancelHasFinisher` is the
safety half of it, with the same exceptions: while the first run is being cancelled, somebody is still on the way to
look whether it can end, the request that began it or a loop whose start was marked or came late.

`WaitersCanMove` says with ENABLED that nothing can hold back the steps on which the service of waiters
rests: a waiter can take or build what its cell holds, or the one who builds it can return.

In CronJobs the hard question is what is left in the timer map when copies of the job that were
read at different times are written into it in any order. `EnabledIsScheduled` says that an
enabled recurring job with a next run has a live timer when nothing is under way; a Cron job that is "manual only" or
exhausted has no next run and wants no timer. Excepted, through `lost`, is a job whose timer is gone because an update was
dropped between the row and `schedule_job`, because a tick failed after its retry timer had fired, or because a tick or
resume with a stale copy cancelled a timer that was armed meanwhile; the job stays silent until it is armed again.
`BackOnSchedule` says that a timer that is off the schedule of the row, a retry timer or one armed from an old copy, is
followed by a live one on that schedule: retries are given up after `max_retries`. Moments between `Cancels` and `Arms`, or
with a retry timer that has fired, do not satisfy it. It supposes that from some time on nobody runs the job by hand
(each such run starts the retries anew) and no tick fails before it counts its retry. `RemovedGoesQuiet` says that from some
time on no timer of a removed job is in the map, not merely at one moment.

### Findings

1. **An accepted message can wait for ever** (`event_loop.rs:176`).
   `compute_wake_input` reads the mailbox first and the wake queue second. A message whose row is
   written and whose wake is committed in between is not in the snapshot; the loop has nothing
   to send and drops the wake as an empty one. The permit makes it look again, but a
   look without a wake leaves unread mail alone, so the message stays where it is until
   another message comes. The tool description (`team-prompts.md:193`) promises that the
   teammate "will be woken up to process it". `NeverSleepsOnWork` shows that no *wake* is left behind.
2. **One burst of events ends all events** (`routes.rs:58`). The bridge loop is `while let Ok`;
   an overrun of the bus is answered with `Lagged`, an error, so the loop ends and no later event
   reaches a client. The comment above it says that all events are forwarded.

### Behaviours the models reach and no run states

They are exempted by name in a property, or no property is about them; they are listed as hazards or here for
whoever changes the code. Only the last contradicts a text of the repository:

- a pause answered after `begin_cancel` re-arms the gate of the cancelling run
  (`team_run.rs:1666`), which then waits for a gate nobody clears (exempted in `CancelEnds`);
- a lease committed after a pause queues a background wake on a paused slot
  (`team_run.rs:732`), and a slot paused and resumed with nothing suppressed keeps an empty gate
  entry that holds back later background wakes (`slot_wake_gate.rs:140`);
- a kill during a build leaves the build alone (`task_manager.rs:128`): the next caller
  builds a second agent, and both live; a deletion then tears nothing down;
- an idle scan kills whatever agent is there when the spawned kill runs (`idle_scanner.rs:73`);
- a cancellation whose turn has ended sets a flag that the next message finds
  (`veryagent-conversation/src/service.rs:2774`): it is answered with Ok and not stored;
- a turn whose reservation a pause has dropped (`team_run.rs:991`) starts after the run has been cancelled, is not
  stopped, and is given messages that the cancellation has marked read;
- a turn that was started and then fails is not marked read, and its messages are delivered again;
- an orphan timer goes on firing (`scheduler.rs:142`); a resume in the middle of a tick marks
  the job missed while it executes (`veryagent-cron/src/service.rs:361`); a one-shot tick that ends
  after an update disables the job and cancels the timer of that update (`service.rs:740`);
- HTTP handlers are dropped where they await when their client disconnects. A `cancel_run` dropped in its sweep leaves the
  run `Cancelling` (team `routes.rs:224`); a `delete` dropped between `mark_deleting` and `clear_deleting` leaves
  the conversation "being deleted" (conversation `routes.rs:177`); a cron update dropped between `repo.update` and
  `schedule_job` (`veryagent-cron/src/service.rs:209`) leaves an enabled job without a timer, or with its old one, until
  it is armed again;
- a mailbox read that fails in the recovery scan (`session.rs:872`) loses the recovery of that session, since its
  flag is set before;
- a tick that cannot read its job after a retry timer has fired, or that cancels with a stale copy, leaves an enabled job
  without a timer;
- a connection the heartbeat has removed, whose notice found no room, keeps its receive loop;
- nothing outside the tests calls `start_heartbeat` (`manager.rs:154`), so in the application as it is built a client
  that vanishes, or whose token expires, stays registered until its socket reports an error. The comment `types.rs:152` says
  "Connection is dropped if no pong received within 60 seconds."

## 5. Bounds and fairness

Bounds are constants that occur in guards: `MaxRuns` (runs begun), `MaxWork`
(pending wakes and leases of the current run), and the sizes of `Slots`, `Msgs`,
`LeaseIds`, `TurnIds` and `Stoppers`. Two slots are the least with a leader and a
teammate; the code treats all teammates alike. Two runs are the least in which a
stale call meets another run than its own. One requester's lease and one loop's lease give every
order of acquire, commit, claim and completion for a pair; a second stop request
is given to `two_stops` with one run only, because two loops together with a stop
request over two runs have more than fifteen million states. Turn ids and lease
ids are reused when nobody has them any more, so few of them are enough.
`Sources` is one representative of each class whose treatment differs.

Deadlock is not checked in TeamRun, because behaviours end at `MaxRuns`.

No fairness is assumed and no liveness is checked in TeamRun: whether a loop
looks again depends on `Notify` and the mailbox, which belong to TeamSession.

TeamSession adds `Backlog` (mail of an earlier life) and `MaxFaults` (failed mailbox calls and dropped stop requests, one).
MCTeamSession_queues has one slot, because mail and wakes of different slots do not meet except
through the idle notification, which MCTeamSession_cancels has; two messages, two leases and
two runs give every order of write, commit, read, claim and mark for a pair, and
a stale wake of one run in the next. With three wakes one more exemption can be seen to be needed (`passed`),
which is why it is there. A mailbox write also fails when all messages of the instance have been
written. Fairness (`SessionFairness`): an event loop goes on, since it is a spawned task and the ports it awaits
answer; a stop request that has begun goes on until it is dropped, which is one of its steps. Nothing is assumed of the
recovery scan and of senders: whoever holds a lease may never come back, because its request was dropped between acquire
and commit. A loop that sleeps has no step, so
its fairness says nothing about being woken.

CronJobs has one tick at a time (`Tickers`), one update (`MaxUpdates`), one orphan (`MaxOrphans`) and a clock
of two values (`MaxTime`), with one-shot, periodic and Cron schedules (`CronEnds`: a Cron that matches once more and then
never, so that at time 1 it is a "manual only" one), one retry and a retry interval of one; crashes are not
bounded. One tick against the request and the resume handler gives three tasks with copies of the job;
the timers are armed in all their orders. At `MaxTime` the clock stands, so a recurring timer is due again
at once: the liveness properties are about what happens after that many firings. An update may set any schedule of the
instance, and so change the kind of the job. Fairness (`Fairness` of CronJobs): time passes, the timer in
the map fires when due, and a tick, request or resume that has begun goes on or is dropped; strong, because
the bounds on ticks and orphans may hold an action back that the code would not. Orphans, requests,
crashes and restarts are not fair.

Realtime has one connection (connections meet only in the bus and in the map, whose entries are
independent), a queue of two frames, a bus of two events and four events, enough to fill both and
overrun them, and a heartbeat timeout of two intervals as in the code. Fairness: bridge, send loop and the end of a
handler are tasks that run; a client that is alive takes what is sent and answers a close frame; towards a
client that has vanished a write may hang for ever. Nothing is assumed of the heartbeat, which the program does not start.

AgentTasks and ConversationTurns have the bounds `MaxCells` (slots ever inserted) and
`MaxContinuations` (the code's limit, a constant there too). Three callers are the least
with one that builds, one that waits and one that meets a new cell. In
MCConversationTurns_deletes two cells are enough for every ask: agents are not ACP there, so
each of the two turns asks once, and continues at most once; evictions and the replay are in the other run,
and the replay's step of `TurnsInLine` is left to the theorem. With
fewer cells than removals a caller can find no cell to insert, which only the safety runs
allow. Two turns and one canceller are the least in which a cancellation outlives its turn. Users,
teams and cancellers are interchangeable, hence `RequestSymmetry`, in runs without liveness.
Deadlock is not checked: requests are finite in number, and a system with none stops.

Fairness (`CallerFairness`, `Fairness`): a turn that has started goes on, since every call it awaits
returns (agents answer, or their process ends, which is an answer too) and a user turn is spawned as a task once its
message is stored; a user request whose handler is dropped before that drops its claim, which looks like a refused insert. A
deletion, which its handler awaits, goes on or is dropped with it (`DropDeletion`), and so may a build (`FactoryErr`). A
factory returns. Users, cancellations, scans, shutdown and the
abort of a loop are not fair. Strong fairness is assumed for getting the permit of a cell, because
`OnceCell` hands its one permit to waiters in their order (the fair semaphore of tokio),
while another caller's failed build can take the permit away in between. A waiting team turn may
be overtaken by a turn that claims first, and retries; `TurnsEnd` holds because requests are finite.

## 6. What is proved

`TypeCorrect` (TeamRunProofs), for all constants that satisfy the five named
assumptions of TeamRun and the one of TeamWake: `Spec => []TypeOK`. `TypeOK` is not inductive: a claimed
turn must hold a real wake to be given back, so the invariant is
`Typed == TypeOK /\ ClaimedWake`.

In TeamRunSafety, from one inductive invariant
`Safe == Typed /\ RunShape /\ TurnInHand /\ WorkOwned /\ LeasedRuns /\ LeaseKeepsRunOpen`:

- `RunShape` ties the record to the history: no record exactly when every run has
  ended, otherwise the record is run `lastRun` and the only open one;
- `TurnInHand` says in which phases a loop holds a turn id, a claim and a run, and that
  two loops never hold the same turn;
- `LeasedRuns` says that leases name runs that were born and that ids identify them;
- `WorkOwned` and `LeaseKeepsRunOpen` need each other: a run closes as complete
  only without leases, and a lease outlives its run only if the run failed or was
  cancelled.

`Settle` is the lemma about `CloseOrKeep`, which ends nearly every action: if what is kept
satisfies the invariant then so does what is left after closing.
`RunMoves` says how `run`, `lastRun` and `ended` may change together (stay, start,
close); the refinement follows from it, one disjunct for one disjunct of
TeamRunLifecycle. The theorems:

- `WorkIsOwned`: `Spec => []WorkOwned`;
- `LeaseKeepsOpen`: `Spec => []LeaseKeepsRunOpen`;
- `LifecycleImplemented`: `Spec => ImplementsLifecycle`;
- `CancelOnlyWindsDown`: `Spec => WindsDown`. The action property needs an invariant of its own, `Drained`: a
  cancelling run has no pending wake, and its reservations are marked. `BeginCancel` makes it true for
  whatever the run was doing, and every later call asks whether the run is still active;
- `UserStaysFirst`: `Spec => []ForegroundFirst`. A start that is to be retried puts its wake back at the front
  (`team_run.rs:1237`), a background wake too, in front of wakes the user has sent meanwhile; so at most one background
  wake is ahead of the user's, and none if starts are not refused. The invariant is `AllInLine`: at most one is
  ahead, and a background wake that is *claimed* has left a queue in which none is, which is what keeps the
  next refusal from making it two. `NextQueues` and `NextClaims` say what a step may do to a queue and to a claim. The
  run of TLC has no refusals (the port of the application never asks for a retry), the theorem has.

In TeamSessionProofs, for any slots, loops, messages, leases, runs and stop requests, from one inductive
invariant `SessionSafe == Safe /\ SessionTyped /\ MailKept`:

- `SessionRefinesRun`: `SessionSpec => Spec` of TeamRun, since every step conjoins a step of
  TeamRun or leaves its variables alone; `Safe` carries over, and with it `SessionKeepsLeases` and
  `SessionServesUserFirst`;
- `SessionTypeCorrect`: `SessionSpec => []SessionTypeOK`;
- `NothingIsReadUnseen`: `SessionSpec => []NothingReadUnseen`. It needs `Heard`: what a loop has in hand once its
  turn has started has been delivered;
- `NoSleepOnWork`: `SessionSpec => []NeverSleepsOnWork`. It needs `KnownNames` (wakes name written
  messages), `BetweenTurns` (what phase of TeamRun's turn goes with each place of the loop) and `Awake`, which says for a
  loop in each of its places what wakes it may still leave behind; the lemma `NoNewNames` says that only a
  commit adds a name to the queue of a slot, so every other step keeps `Awake`;
- `HandedOverOnce`: `SessionSpec => DeliveredOnce`, from `OnceKept`: a message is in one mailbox and in the hands of
  that mailbox's loop only (`OwnMail`), and what has been delivered and is still unread is in the hands of the turn
  it was delivered to, until that turn marks it (`AtMostOnce`). Both hold until a mailbox call fails.

- `SomebodyEndsCancel`: `SessionSpec => []CancelHasFinisher`. The inductive invariant joins `Safe` and
  `SessionTyped` with `Drained`, `Numbers` (the run a loop or a stop request has noted was born) and, until a mailbox
  call fails or a stop request is dropped, `Attended`: somebody is on the way, and every child is a late turn its own loop will cancel or is
  on the list of a sweep. The second half is what the first needs when a sweep ends: a sweep may be the last to
  look only if it has listed every child that is not its loop's own;
- `SessionRunsAreSafe`: `SessionSpec => []WorkOwned /\ ImplementsLifecycle /\ WindsDown`, from the refinement.

In SlotWakeGateProofs, for any sources and any length of the queue: `GateTypeCorrect`, `RetainedIsAgreed`,
`QueueIsOrdered`, `TeamWakeDescribesGate` and `PushIsTheInsertion`. The lemma that carries them is
that in a queue with the user in front, everything up to a position is the user's exactly when that position
is, so that what `PushWake` says of a prefix needs no induction. `PushIsTheInsertion` compares it with the
scan and the insertion of the code; the position the scan stops at exists because `<` on the naturals is
well founded. `TeamWakeDescribesGate` is what allows TeamRun to leave the counter out.

In AgentTasksProofs, for any callers and number of cells, from
`TasksInv == TasksTypeOK /\ Places /\ MapAgentAlive /\ OneFactoryPerCell`, where `Places`
says that a caller holds a cell exactly when it is inside, and that a caller that builds
has a cell that counts as being built: `TasksTypeCorrect`, `MapHoldsNoKilledAgent`, `SingleFlight`.
`WaitersAreServed` is liveness: `TasksSafety /\ []CallersFair /\ []WaitersCanMove => AskersAreServed`. A caller in
front of a cell that is built or empty leaves it in one step of its own, and one in front of a cell that is being
built waits for that builder's return only; the strong fairness of the permit does the rest. That the step can be taken is the hypothesis
`WaitersCanMove`, which only TLC evaluates (ENABLED). `CallersFair` is boxed because the prover does not
move a box over the quantifier on callers.

In ConversationTurnsProofs, for any requests and bounds, from
`Inv == TasksInv /\ TurnsTypeOK /\ ClaimIsHeld /\ DeletingHandedOver /\ NoLostWakeup`:
`TurnsTypeCorrect`, `OneTurnAtATime`, `DeletingIsHandedOver`, `WakeupsAreKept`. The part
`TasksInv` costs one lemma, `StepIsTaskStep`: every step of a conversation is a step of
the task manager or leaves it alone, so that `TasksNextInv` of AgentTasksProofs preserves it.
The same lemma gives `UsesTheTaskManager`, the refinement, and `ConversationKeepsTasks`: the task manager's own
invariants hold with a conversation as its caller. `TurnsAreInLine`: `Safety => TurnsInLine`, step by step; it needs
`ClaimIsHeld` (nobody else has a turn when one is taken) and `Unspent` (a request that has no turn yet has stored nothing
and has used neither replay nor continuation). `NoLostWakeup` needs `ClaimIsHeld`:
a claim that is given up has a turn in `ending` that goes to `notifying` with the release.
The assumptions are the two named ones, `TasksAssumption` and `TurnsAssumption`: kinds of
requests are disjoint, and the callers of the manager are the turns and warmups.

In CronJobsProofs, for any ticks, orphans, delays and bounds: `CronTypeCorrect`, and `RecurringStaysScheduled`,
from `Scheduled == FreshStart /\ CopiesAgree /\ StaysScheduled`: before the job exists nothing is
under way; the copy in the hands of a tick, a request or the resume handler agrees with the row as far as what it is going
to do depends on it, unless it is stale; and an enabled recurring job with a next run, without a live timer and not lost, has
somebody under way who will arm one. It has no premise: updates may change the kind of the job, Cron expressions may be
empty or come to an end, and requests, ticks and the process may fail anywhere.

In RealtimeProofs, for any connections, events and sizes of bus and queue: `RealtimeTypeCorrect`, `GoneIsForgotten` (from
`Registered`: only a handler that is still there has an entry), and `OrderIsKept` (from `InOrder`: whatever is upstream
of a connection, in the bus or in the bridge, is newer than all that is queued for it, and that is newer than all
it has seen, so that nothing lost on the way can change the order). `RealtimeStreams`: `Spec => StreamsEvents`, from the
same invariant.

Assumptions, besides those named above: `SessionAssumption`, `BoundsAssumption` of SlotWakeGate, `CronAssumption`, `RealtimeAssumption`.
TLC evaluates each of them in the runs.

Only model-checked: `WaitersCanMove`, hence also the unconditional `AskersAreServed`, which is proved from it; and the
liveness properties `WakeServed`, `CancelEnds`, `RemovedGoesQuiet`, `BackOnSchedule`, `NoticedLeaves`, `TurnsEnd` and
`DeletingEnds`. Out of the prover's reach, and left to TLC: liveness under fairness beyond `AskersAreServed`, ENABLED, what a
recursively defined function computes (induction over data), and modules with RECURSIVE operators; none of the
modules above has one.

## 7. Not modelled, and why

Of the team runs: event payloads, slot-health observation and slow-turn logging,
which never feed back into the record; agent names and roles beyond "leader or
not"; message texts; the abort of an event loop, which ConversationTurns has and
TeamRun does not; spawning and removal of agents while a session runs, and the mirror of messages in
the conversation. Of the conversations: creation, listing, stream events and
the rows made from them, agents that die by themselves while idle, a poisoned
mutex. Of the team crate: agent statuses, crash detection, the task board and the
registry of sessions. Of the jobs: writes of a tick that fail (a read that fails, and requests that are refused or dropped, are modelled), the building of prompts, conversations and
skills, several jobs at once (they share nothing), and two overlapping updates. Of the connections: the
upgrade request, message formats and routing of client messages. Of the other crates: see the plan for those with
coordination of their own; the rest is input and output, SQL, or conversion of
data, where a state machine would say nothing a test does not.
