------------------------------ MODULE TeamRun ------------------------------
(***************************************************************************)
(* TeamRunManager: the one run a team can have, and everybody who calls    *)
(* into it.  Every method takes the same mutex, so a method is one step;   *)
(* what makes the component hard is what lies between two steps of the     *)
(* same caller:                                                            *)
(*   - a requester acquires an operation lease, writes to a mailbox, and   *)
(*     only then commits or aborts the lease;                              *)
(*   - the event loop of a slot peeks, claims, hands the turn to the       *)
(*     execution port, and finalizes, with awaits everywhere in between;   *)
(*   - a stop request (cancel run, cancel child, pause slot) reads a       *)
(*     target, awaits the cancellation port, and then records the outcome. *)
(* Mailboxes are not here: what a loop does with an empty or a full        *)
(* mailbox is left open, and TeamSession closes it.                        *)
(***************************************************************************)
EXTENDS TeamWake, FiniteSets

CONSTANTS
  Slots,       \* agent slots
  Loops,       \* the slots whose event loop is registered
  Lead,        \* the slot of the leader
  Sources,     \* the wake sources requesters use
  Msgs,        \* mailbox message ids a wake can name
  LeaseIds,    \* ids for the leases of requesters; a loop's own lease has its slot's name
  TurnIds,     \* ids the execution port gives to turns
  NoTurn,
  Stoppers,    \* concurrent stop requests
  MaxRuns,     \* bound: runs a behaviour starts
  MaxWork,     \* bound: pending wakes and leases of the current run
  MayRetryStart,  \* the port may refuse a start with "already running"
  MayFailStarted  \* the port may return an error after it reported a start

ASSUME SlotsAssumption == Lead \in Slots /\ Loops \subseteq Slots
ASSUME SourcesAssumption == Sources \subseteq WakeSource
ASSUME IdsAssumption == NoTurn \notin TurnIds /\ NoMsg \notin Msgs /\ LeaseIds \cap Slots = {}
ASSUME BoundsAssumption == MaxRuns \in Nat /\ MaxWork \in Nat
ASSUME PortAssumption == MayRetryStart \in BOOLEAN /\ MayFailStarted \in BOOLEAN

VARIABLES
  run,      \* Option<TeamRunRecord>: the record, NoRun for None
  lastRun,  \* number of runs started; run ids are 1..lastRun
  ended,    \* history: how each run left the manager
  calls,    \* leases that some caller has acquired and not given back
  turns,    \* what the event loop of each slot has in hand
  stops     \* what each stop request has in hand

vars == <<run, lastRun, ended, calls, turns, stops>>

-----------------------------------------------------------------------------
(* The run record.                                                         *)

Wake == [source : WakeSource, msg : Msgs \cup {NoMsg}]
NoWake == [source |-> NoSource, msg |-> NoMsg]
Lease == [id : LeaseIds \cup Slots, run : Nat, slot : Slots, source : WakeSource]
GateEntry == [mode : GateMode, held : WakeSource \cup {NoSource}]
RunStatus == {"None", "Accepted", "Running", "Cancelling"}
Outcome == {"open", "Completed", "Failed", "Cancelled"}

RunRecord ==
  [status : RunStatus, id : Nat, target : Slots, started : BOOLEAN,
   pending : [Slots -> Seq(Wake)],
   starting : [Slots -> {"none", "starting", "cancelling"}],
   active : [Slots -> TurnIds \cup {NoTurn}],
   gate : [Slots -> GateEntry],
   leases : SUBSET Lease]

NoRun ==
  [status |-> "None", id |-> 0, target |-> Lead, started |-> FALSE,
   pending |-> [s \in Slots |-> <<>>],
   starting |-> [s \in Slots |-> "none"],
   active |-> [s \in Slots |-> NoTurn],
   gate |-> [s \in Slots |-> NoEntry],
   leases |-> {}]

NewRun(id, target) == [NoRun EXCEPT !.status = "Accepted", !.id = id, !.target = target]

IsActive(r) == r.status \in {"Accepted", "Running"}

SlotRunState(r, s) ==
  IF r.active[s] # NoTurn \/ r.starting[s] # "none" THEN "Busy"
  ELSE IF r.pending[s] # <<>> THEN "Pending"
  ELSE IF Paused(r.gate[s]) THEN "Paused"
  ELSE "Idle"

HasSpawnWelcome(r, s) ==
  \/ \E i \in DOMAIN r.pending[s] : r.pending[s][i].source = "SpawnWelcome"
  \/ \E l \in r.leases : l.slot = s /\ l.source = "SpawnWelcome"

\* role_for_slot finds a role: the run has met this slot.
KnowsSlot(r, s) ==
  SlotRunState(r, s) # "Idle" \/ r.gate[s] # NoEntry \/ r.target = s

\* HasWork without the operation leases.
HasSlotWork(r) ==
  \E s \in Slots : \/ r.pending[s] # <<>>
                  \/ r.starting[s] # "none"
                  \/ r.active[s] # NoTurn
                  \/ Retained(r.gate[s])

\* What keeps a run from completing, and a cancelling run from ending.
HasWork(r) ==
  HasSlotWork(r) \/ r.leases # {}

PushPending(r, s, source, msg) ==
  [r EXCEPT !.pending[s] = PushWake(@, [source |-> source, msg |-> msg])]
GateWake(r, s, source) == [r EXCEPT !.gate[s] = BeforeWake(@, source)]
PausePending(r, s) ==
  [r EXCEPT !.pending[s] = <<>>,
            !.gate[s] = AddSuppressed(PauseEntry(@), r.pending[s] # <<>>)]

\* The record leaves the manager with this outcome, or stays as r.
CloseOrKeep(r, closes, outcome) ==
  IF closes THEN run' = NoRun /\ ended' = [ended EXCEPT ![r.id] = outcome]
            ELSE run' = r /\ UNCHANGED ended

Keep(r) == CloseOrKeep(r, FALSE, "open")
Fail(r) == CloseOrKeep(r, TRUE, "Failed")
MaybeComplete(r) == CloseOrKeep(r, ~HasWork(r) /\ IsActive(r), "Completed")
MaybeCancelled(r) == CloseOrKeep(r, ~HasWork(r) /\ r.status = "Cancelling", "Cancelled")

Work == Cardinality({c \in Slots \X (1..MaxWork) : c[2] \in DOMAIN run.pending[c[1]]})
          + Cardinality(run.leases)
RoomForWork == Work < MaxWork

-----------------------------------------------------------------------------
(* What loops and stop requests have in hand.                              *)

TurnPhase == {"idle", "peeked", "noted", "claimed", "late", "swept", "running",
              "failed", "waking", "settling", "completing", "releasing"}
Turn == [phase : TurnPhase, seen : Wake \cup {NoWake}, run : Nat,
         wake : Wake \cup {NoWake}, turn : TurnIds \cup {NoTurn}]
NoTurnInHand == [phase |-> "idle", seen |-> NoWake, run |-> 0,
                 wake |-> NoWake, turn |-> NoTurn]

StopPhase == {"idle", "cancelChecked", "cancelBegun", "sweeping", "childCancel",
              "pauseChecked", "pauseCancel", "leadEnd", "notify", "notifyThenEnd",
              "noticed", "noticedThenEnd", "end"}
Stop == [phase : StopPhase, slot : Slots, turn : TurnIds \cup {NoTurn},
         todo : SUBSET (Slots \X TurnIds)]
NoStop == [phase |-> "idle", slot |-> Lead, turn |-> NoTurn, todo |-> {}]

TypeOK ==
  /\ run \in RunRecord
  /\ lastRun \in Nat
  /\ ended \in [1..lastRun -> Outcome]
  /\ calls \in SUBSET Lease
  /\ turns \in [Slots -> Turn]
  /\ stops \in [Stoppers -> Stop]

Init ==
  /\ run = NoRun
  /\ lastRun = 0
  /\ ended = [i \in 1..0 |-> "open"]
  /\ calls = {}
  /\ turns = [s \in Slots |-> NoTurnInHand]
  /\ stops = [p \in Stoppers |-> NoStop]

FreshLease(id) == \A l \in calls \cup run.leases : l.id # id
FreshTurn(t) ==
  /\ \A s \in Slots : run.active[s] # t /\ turns[s].turn # t
  /\ \A p \in Stoppers : stops[p].turn # t /\ \A c \in stops[p].todo : c[2] # t

\* A run record is put where there was none.
StartRun(r) ==
  /\ lastRun < MaxRuns
  /\ lastRun' = lastRun + 1
  /\ ended' = [i \in 1..(lastRun + 1) |-> IF i <= lastRun THEN ended[i] ELSE "open"]
  /\ run' = r

-----------------------------------------------------------------------------
(* Requesters.                                                             *)

\* acquire_user_message_wake inside a run: an intervention, refused while
\* the slot is busy.
AcquireIntervention(s, id) ==
  LET lease == [id |-> id, run |-> run.id, slot |-> s, source |-> "UserIntervention"] IN
  /\ IsActive(run) /\ RoomForWork /\ FreshLease(id)
  /\ "UserIntervention" \in Sources
  /\ SlotRunState(run, s) # "Busy"
  /\ Keep([GateWake(run, s, "UserIntervention") EXCEPT !.leases = @ \cup {lease}])
  /\ calls' = calls \cup {lease}
  /\ UNCHANGED <<lastRun, turns, stops>>

\* acquire_user_message_wake without a run: the message starts one.  While a
\* run is cancelling the request is refused.
AcquireNewRun(s, id) ==
  LET lease == [id |-> id, run |-> lastRun + 1, slot |-> s, source |-> "UserMessage"] IN
  /\ run.status = "None" /\ RoomForWork /\ FreshLease(id)
  /\ "UserMessage" \in Sources
  /\ StartRun([NewRun(lastRun + 1, s) EXCEPT !.leases = {lease}])
  /\ calls' = calls \cup {lease}
  /\ UNCHANGED <<turns, stops>>

\* Which slots a run-scoped source is aimed at.
ScopedTarget(source) ==
  CASE source = "McpSendMessage" -> Slots
    [] source = "McpShutdownRequest" -> Slots \ {Lead}
    [] source \in {"SpawnAttachFailure", "ShutdownRejected"} -> {Lead}
    [] OTHER -> {}

\* acquire_run_scoped_wake: suppressed (and counted by the gate), or leased.
AcquireScoped(s, source, id) ==
  LET verdict == AcquirePolicy(source, SlotRunState(run, s), HasSpawnWelcome(run, s), FALSE)
      lease == [id |-> id, run |-> run.id, slot |-> s, source |-> source] IN
  /\ IsActive(run) /\ s \in ScopedTarget(source)
  /\ \/ /\ verdict = "Suppress"
        /\ Keep(GateWake(run, s, source))
        /\ UNCHANGED calls
     \/ /\ verdict = "Accept" /\ RoomForWork /\ FreshLease(id)
        /\ Keep([GateWake(run, s, source) EXCEPT !.leases = @ \cup {lease}])
        /\ calls' = calls \cup {lease}
  /\ UNCHANGED <<lastRun, turns, stops>>

\* commit_operation_lease: the lease becomes a pending wake; without an
\* active run, or when the run does not know the lease, the caller gets an
\* error and nothing changes.
CommitLease(l, msg) ==
  /\ l \in calls /\ l.id \in LeaseIds
  /\ calls' = calls \ {l}
  /\ IF IsActive(run) /\ l \in run.leases
     THEN Keep([PushPending(run, l.slot, l.source, msg) EXCEPT !.leases = @ \ {l}])
     ELSE Keep(run)
  /\ UNCHANGED <<lastRun, turns, stops>>

\* abort_operation_lease, on the paths where the mailbox write failed.
AbortLease(l) ==
  /\ l \in calls /\ l.id \in LeaseIds
  /\ calls' = calls \ {l}
  /\ IF IsActive(run) /\ l \in run.leases
     THEN Keep([run EXCEPT !.leases = @ \ {l}])
     ELSE Keep(run)
  /\ UNCHANGED <<lastRun, turns, stops>>

\* record_or_suppress_wake; its one caller is spawn_agent.
RecordOrSuppressWake(s, source, msg) ==
  /\ IsActive(run) /\ RoomForWork
  /\ IF GateRecords(run.gate[s], source)
     THEN Keep(PushPending(GateWake(run, s, source), s, source, msg))
     ELSE Keep(GateWake(run, s, source))
  /\ UNCHANGED <<lastRun, calls, turns, stops>>

\* recover_mailbox_backlog for the slots of candidates, all with an event loop:
\* a run of its own when there is none, otherwise a wake for each idle slot.
RecoverBacklog(candidates, first) ==
  LET woken(r, targets) ==
        [r EXCEPT !.pending =
           [s \in Slots |-> IF s \in targets
                            THEN Append(r.pending[s], [source |-> "RecoveryDrain", msg |-> NoMsg])
                            ELSE r.pending[s]]] IN
  /\ "RecoveryDrain" \in Sources /\ first \in candidates
  /\ Work + Cardinality(candidates) <= MaxWork
  /\ \/ /\ run.status = "None"
        /\ StartRun(woken(NewRun(lastRun + 1, first), candidates))
     \/ /\ IsActive(run)
        /\ Keep(woken(run, {s \in candidates : SlotRunState(run, s) = "Idle"}))
        /\ UNCHANGED lastRun
  /\ UNCHANGED <<calls, turns, stops>>

-----------------------------------------------------------------------------
(* The event loop of a slot.                                               *)

HoldTurn(s, t) == turns' = [turns EXCEPT ![s] = t]

\* compute_wake_input asks for the next wake ...
PeekWake(s) ==
  LET front == IF IsActive(run) /\ run.pending[s] # <<>> THEN Head(run.pending[s]) ELSE NoWake IN
  /\ turns[s].phase = "idle"
  /\ HoldTurn(s, [NoTurnInHand EXCEPT !.phase = "peeked", !.seen = front])
  /\ UNCHANGED <<run, lastRun, ended, calls, stops>>

\* ... and, in a second critical section, for the id of the active run.
NoteRun(s) ==
  /\ turns[s].phase = "peeked"
  /\ HoldTurn(s, [turns[s] EXCEPT !.phase = "noted",
                                  !.run = IF IsActive(run) THEN run.id ELSE 0])
  /\ UNCHANGED <<run, lastRun, ended, calls, stops>>

\* Unread messages that no wake of a run owns are left alone.
LeaveBacklog(s) ==
  /\ turns[s].phase = "noted"
  /\ turns[s].run = 0 \/ turns[s].seen = NoWake
  /\ HoldTurn(s, NoTurnInHand)
  /\ UNCHANGED <<run, lastRun, ended, calls, stops>>

\* record_empty_wake_observed: nothing to send, so one pending wake is
\* dropped and the run may be done.
ObserveEmptyWake(s) ==
  LET popped == IF run.pending[s] = <<>> THEN run
                ELSE [run EXCEPT !.pending[s] = Tail(@)] IN
  /\ turns[s].phase = "noted"
  /\ MaybeComplete(popped)
  /\ HoldTurn(s, NoTurnInHand)
  /\ UNCHANGED <<lastRun, calls, stops>>

\* claim_wake_for_turn: the front wake becomes the reservation of the slot.
ClaimWake(s) ==
  /\ turns[s].phase = "noted" /\ turns[s].run # 0 /\ turns[s].seen # NoWake
  /\ IF IsActive(run) /\ run.pending[s] # <<>>
     THEN /\ Keep([run EXCEPT !.pending[s] = Tail(@), !.starting[s] = "starting"])
          /\ HoldTurn(s, [turns[s] EXCEPT !.phase = "claimed", !.wake = Head(run.pending[s])])
     ELSE Keep(run) /\ HoldTurn(s, NoTurnInHand)
  /\ UNCHANGED <<lastRun, calls, stops>>

\* The port returns an error before any start: record_child_start_failed.
StartFails(s) ==
  LET released == [run EXCEPT !.starting[s] = "none"] IN
  /\ turns[s].phase = "claimed"
  /\ HoldTurn(s, [turns[s] EXCEPT !.phase = "failed", !.wake = NoWake])
  /\ \/ run.starting[s] = "none" /\ Keep(run)
     \/ /\ run.starting[s] # "none"
        /\ IF run.status = "Cancelling" \/ run.starting[s] = "cancelling"
           THEN MaybeCancelled(released) ELSE Fail(released)
  /\ UNCHANGED <<lastRun, calls, stops>>

\* A retry that forgets to take the reservation back (mutant).
RetryKeepingReservation(s) ==
  /\ MayRetryStart
  /\ turns[s].phase = "claimed"
  /\ HoldTurn(s, NoTurnInHand)
  /\ IF IsActive(run) /\ run.starting[s] # "none"
     THEN Keep([run EXCEPT !.pending[s] = <<turns[s].wake>> \o @])
     ELSE Keep(run)
  /\ UNCHANGED <<lastRun, calls, stops>>

\* The port returns "already running": retry_child_start_later.
RetryStartLater(s) ==
  /\ MayRetryStart
  /\ turns[s].phase = "claimed"
  /\ HoldTurn(s, NoTurnInHand)
  /\ IF IsActive(run) /\ run.starting[s] # "none"
     THEN Keep([run EXCEPT !.starting[s] = "none", !.pending[s] = <<turns[s].wake>> \o @])
     ELSE Keep(run)
  /\ UNCHANGED <<lastRun, calls, stops>>

\* A start that puts the run back to Running whatever it was (mutant).
StartTurnAlwaysRunning(s, t) ==
  /\ turns[s].phase = "claimed" /\ FreshTurn(t)
  /\ HoldTurn(s, [turns[s] EXCEPT !.phase = "running", !.turn = t])
  /\ Keep(IF run.starting[s] = "none" THEN run
          ELSE [run EXCEPT !.starting[s] = "none", !.started = TRUE,
                           !.active[s] = t, !.status = "Running"])
  /\ UNCHANGED <<lastRun, calls, stops>>

\* The port reports the start of turn t: record_child_started.  The decision
\* is in the next phase: "late" is CancelImmediately, "running" the others.
StartTurn(s, t) ==
  LET mustCancel == run.status = "Cancelling" \/ run.starting[s] = "cancelling"
      released == [run EXCEPT !.starting[s] = "none"]
      next(phase) == HoldTurn(s, [turns[s] EXCEPT !.phase = phase, !.wake = NoWake, !.turn = t]) IN
  /\ turns[s].phase = "claimed" /\ FreshTurn(t)
  /\ \/ /\ run.starting[s] = "none"
        /\ Keep(run) /\ next("running")
     \/ /\ run.starting[s] # "none" /\ run.id # turns[s].run
        /\ Keep(released) /\ next("running")
     \/ /\ run.starting[s] # "none" /\ run.id = turns[s].run
        /\ Keep([released EXCEPT !.started = TRUE, !.active[s] = t,
                                 !.status = IF mustCancel THEN @ ELSE "Running"])
        /\ next(IF mustCancel THEN "late" ELSE "running")
  /\ UNCHANGED <<lastRun, calls, stops>>

\* record_child_cancelled: whatever turn the slot has now is removed.
RemoveChild(s) ==
  LET removed == [run EXCEPT !.active[s] = NoTurn] IN
  IF run.status = "Cancelling" THEN MaybeCancelled(removed) ELSE Keep(removed)

\* CancelImmediately: the start callback cancels the turn, records it ...
CancelLateStart(s) ==
  /\ turns[s].phase = "late"
  /\ RemoveChild(s)
  /\ HoldTurn(s, [turns[s] EXCEPT !.phase = "swept"])
  /\ UNCHANGED <<lastRun, calls, stops>>

\* ... and tries to finish the cancellation, before the port goes on.
FinishLateStart(s) ==
  /\ turns[s].phase = "swept"
  /\ MaybeCancelled(run)
  /\ HoldTurn(s, [turns[s] EXCEPT !.phase = "running"])
  /\ UNCHANGED <<lastRun, calls, stops>>

\* The port returns an error after a start: complete_failed, for whatever
\* run there is.
FailStarted(s) ==
  /\ MayFailStarted
  /\ turns[s].phase = "running"
  /\ HoldTurn(s, [turns[s] EXCEPT !.phase = "failed", !.turn = NoTurn])
  /\ IF run.status = "None" THEN Keep(run) ELSE Fail(run)
  /\ UNCHANGED <<lastRun, calls, stops>>

\* A turn that failed without an outcome has nothing to complete.
AfterWaking(t) == IF t.turn = NoTurn THEN "releasing" ELSE "settling"

\* The turn is over and finalize_turn of the scheduler names the leader,
\* because all teammates have settled.
AcquireWakeLead(s) ==
  LET source == "IdleNotification"
      accepts == AcquirePolicy(source, SlotRunState(run, Lead), HasSpawnWelcome(run, Lead), TRUE)
                   = "Accept"
      gated == GateWake(run, Lead, source)
      lease == [id |-> s, run |-> run.id, slot |-> Lead, source |-> source] IN
  /\ turns[s].phase \in {"running", "failed"} /\ s # Lead /\ IsActive(run)
  /\ \/ /\ accepts /\ RoomForWork
        /\ Keep([gated EXCEPT !.leases = @ \cup {lease}])
        /\ calls' = calls \cup {lease}
        /\ HoldTurn(s, [turns[s] EXCEPT !.phase = "waking"])
     \/ /\ ~accepts
        /\ Keep(gated)
        /\ HoldTurn(s, [turns[s] EXCEPT !.phase = AfterWaking(turns[s])])
        /\ UNCHANGED calls
  /\ UNCHANGED <<lastRun, stops>>

CommitWakeLead(s, l) ==
  /\ turns[s].phase = "waking" /\ l \in calls /\ l.id = s
  /\ calls' = calls \ {l}
  /\ IF IsActive(run) /\ l \in run.leases
     THEN Keep([PushPending(run, l.slot, l.source, NoMsg) EXCEPT !.leases = @ \ {l}])
     ELSE Keep(run)
  /\ HoldTurn(s, [turns[s] EXCEPT !.phase = AfterWaking(turns[s])])
  /\ UNCHANGED <<lastRun, stops>>

\* record_child_completed with the outcome the port returned: only for the
\* turn the record has.  Without a leader to wake it follows the turn directly.
CompleteChild(s, ok) ==
  LET removed == [run EXCEPT !.active[s] = NoTurn] IN
  /\ turns[s].phase \in {"running", "settling"}
  /\ HoldTurn(s, [turns[s] EXCEPT !.phase = "completing", !.turn = NoTurn])
  /\ IF run.active[s] # turns[s].turn THEN Keep(run)
     ELSE IF ok THEN MaybeComplete(removed) ELSE Fail(removed)
  /\ UNCHANGED <<lastRun, calls, stops>>

MaybeCompleteRun(s) ==
  /\ turns[s].phase = "completing"
  /\ MaybeComplete(run)
  /\ HoldTurn(s, [turns[s] EXCEPT !.phase = "releasing"])
  /\ UNCHANGED <<lastRun, calls, stops>>

\* release_suppressed_wake_if_resumed, when the peeked wake was the user's;
\* then the loop goes round again.
ReleaseSuppressed(s) ==
  /\ turns[s].phase \in {"releasing", "failed"}
  /\ HoldTurn(s, NoTurnInHand)
  /\ IF turns[s].seen.source \in UserSource /\ IsActive(run) /\ Releasable(run.gate[s])
     THEN Keep([PushPending(run, s, run.gate[s].held, NoMsg) EXCEPT !.gate[s] = NoEntry])
     ELSE Keep(run)
  /\ UNCHANGED <<lastRun, calls, stops>>

-----------------------------------------------------------------------------
(* Stop requests: cancel_run, cancel_child_turn, pause_slot_work.          *)

HoldStop(p, stop) == stops' = [stops EXCEPT ![p] = stop]

\* cancel_run: the id the user gave is the current one at this moment.
CheckCancel(p) ==
  /\ stops[p].phase = "idle" /\ run.status # "None"
  /\ HoldStop(p, [NoStop EXCEPT !.phase = "cancelChecked"])
  /\ UNCHANGED <<run, lastRun, ended, calls, turns>>

\* A cancellation that leaves the queues alone (mutant).
BeginCancelKeepingWakes(p) ==
  /\ stops[p].phase = "cancelChecked"
  /\ IF IsActive(run)
     THEN /\ Keep([run EXCEPT !.status = "Cancelling"])
          /\ HoldStop(p, [stops[p] EXCEPT !.phase = "cancelBegun"])
     ELSE Keep(run) /\ HoldStop(p, NoStop)
  /\ UNCHANGED <<lastRun, calls, turns>>

\* begin_cancel acts on the run of that later moment, whichever it is.
BeginCancel(p) ==
  /\ stops[p].phase = "cancelChecked"
  /\ IF IsActive(run)
     THEN /\ Keep([run EXCEPT
                !.status = "Cancelling",
                !.pending = [s \in Slots |-> <<>>],
                !.gate = [s \in Slots |-> NoEntry],
                !.starting = [s \in Slots |-> IF run.starting[s] = "none" THEN "none"
                                              ELSE "cancelling"]])
          /\ HoldStop(p, [stops[p] EXCEPT !.phase = "cancelBegun"])
     ELSE Keep(run) /\ HoldStop(p, NoStop)
  /\ UNCHANGED <<lastRun, calls, turns>>

\* The active children are listed once ...
ListChildren(p) ==
  /\ stops[p].phase = "cancelBegun"
  /\ HoldStop(p, [stops[p] EXCEPT !.phase = "sweeping",
       !.todo = {c \in Slots \X TurnIds : run.active[c[1]] = c[2]}])
  /\ UNCHANGED <<run, lastRun, ended, calls, turns>>

\* ... each is cancelled at the port and recorded ...
SweepChild(p, c) ==
  /\ stops[p].phase = "sweeping" /\ c \in stops[p].todo
  /\ RemoveChild(c[1])
  /\ HoldStop(p, [stops[p] EXCEPT !.todo = @ \ {c}])
  /\ UNCHANGED <<lastRun, calls, turns>>

\* A sweep that does not finish the cancellation (mutant).
FinishSweepOnly(p) ==
  /\ stops[p].phase = "sweeping" /\ stops[p].todo = {}
  /\ Keep(run)
  /\ HoldStop(p, NoStop)
  /\ UNCHANGED <<lastRun, calls, turns>>

\* ... and the cancellation is finished if it can be.
FinishSweep(p) ==
  /\ stops[p].phase = "sweeping" /\ stops[p].todo = {}
  /\ MaybeCancelled(run)
  /\ HoldStop(p, NoStop)
  /\ UNCHANGED <<lastRun, calls, turns>>

\* begin_cancel_child: a running child is only looked up, a starting one is
\* marked, and only then is the run id of the request compared.
BeginCancelChild(p, s) ==
  /\ stops[p].phase = "idle" /\ IsActive(run)
  /\ \/ /\ run.active[s] # NoTurn
        /\ Keep(run)
        /\ HoldStop(p, [NoStop EXCEPT !.phase = "childCancel", !.slot = s, !.turn = run.active[s]])
     \/ /\ run.active[s] = NoTurn /\ run.starting[s] # "none"
        /\ Keep([run EXCEPT !.starting[s] = "cancelling"])
        /\ \/ HoldStop(p, [NoStop EXCEPT !.phase = IF s = Lead THEN "end" ELSE "notifyThenEnd",
                                         !.slot = s])
           \/ HoldStop(p, NoStop)
  /\ UNCHANGED <<lastRun, calls, turns>>

\* The cancellation port has answered; the child is recorded as cancelled.
FinishCancelChild(p) ==
  /\ stops[p].phase = "childCancel"
  /\ RemoveChild(stops[p].slot)
  /\ HoldStop(p, [stops[p] EXCEPT !.phase = IF stops[p].slot = Lead THEN "leadEnd" ELSE "notify",
                                  !.turn = NoTurn])
  /\ UNCHANGED <<lastRun, calls, turns>>

\* maybe_complete after the leader's turn was cancelled.
FinishLead(p) ==
  /\ stops[p].phase = "leadEnd"
  /\ MaybeComplete(run)
  /\ HoldStop(p, NoStop)
  /\ UNCHANGED <<lastRun, calls, turns>>

\* notify_leader_child_interrupted writes to the leader's mailbox first ...
WriteNotice(p) ==
  /\ stops[p].phase \in {"notify", "notifyThenEnd"}
  /\ HoldStop(p, [stops[p] EXCEPT !.phase = IF @ = "notify" THEN "noticed" ELSE "noticedThenEnd"])
  /\ UNCHANGED <<run, lastRun, ended, calls, turns>>

\* ... and then asks for a wake: an external InterruptedNotification is never
\* leased, at most it is counted by the leader's gate.
NotifyLead(p) ==
  /\ stops[p].phase \in {"noticed", "noticedThenEnd"}
  /\ IF IsActive(run) THEN Keep(GateWake(run, Lead, "InterruptedNotification")) ELSE Keep(run)
  /\ HoldStop(p, IF stops[p].phase = "noticed" THEN NoStop ELSE [stops[p] EXCEPT !.phase = "end"])
  /\ UNCHANGED <<lastRun, calls, turns>>

\* try_complete_cancelled after a starting child was marked.
FinishStarting(p) ==
  /\ stops[p].phase = "end"
  /\ MaybeCancelled(run)
  /\ HoldStop(p, NoStop)
  /\ UNCHANGED <<lastRun, calls, turns>>

\* A stop request ends wherever it awaits, and what it would still have done is
\* not done: with the error of a call (mailbox or cancellation port), or with
\* its handler, which is dropped when the client disconnects.
EndStop(p) ==
  /\ stops[p].phase # "idle"
  /\ HoldStop(p, NoStop)
  /\ UNCHANGED <<run, lastRun, ended, calls, turns>>

CheckPause(p, s) ==
  /\ stops[p].phase = "idle" /\ run.status # "None"
  /\ HoldStop(p, [NoStop EXCEPT !.phase = "pauseChecked", !.slot = s])
  /\ UNCHANGED <<run, lastRun, ended, calls, turns>>

\* pause_slot_work: with a running child nothing is paused yet; otherwise the
\* pending wakes are suppressed and a starting reservation is dropped.
BeginPause(p) ==
  LET s == stops[p].slot IN
  /\ stops[p].phase = "pauseChecked"
  /\ IF ~(IsActive(run) /\ KnowsSlot(run, s)) THEN Keep(run) /\ HoldStop(p, NoStop)
     ELSE IF run.active[s] # NoTurn
     THEN Keep(run) /\ HoldStop(p, [stops[p] EXCEPT !.phase = "pauseCancel", !.turn = run.active[s]])
     ELSE /\ Keep([PausePending(run, s) EXCEPT !.starting[s] = "none"])
          /\ HoldStop(p, IF run.starting[s] # "none" /\ s # Lead
                         THEN [stops[p] EXCEPT !.phase = "notify"] ELSE NoStop)
  /\ UNCHANGED <<lastRun, calls, turns>>

\* complete_pause_after_child_cancelled: acts on whatever run and whatever
\* turn the slot has after the cancellation port has answered.
FinishPause(p) ==
  LET s == stops[p].slot IN
  /\ stops[p].phase = "pauseCancel"
  /\ IF run.status = "None" THEN Keep(run)
     ELSE Keep([PausePending(run, s) EXCEPT !.active[s] = NoTurn])
  /\ HoldStop(p, IF s = Lead THEN NoStop ELSE [stops[p] EXCEPT !.phase = "notify", !.turn = NoTurn])
  /\ UNCHANGED <<lastRun, calls, turns>>

-----------------------------------------------------------------------------
Request ==
  \/ \E s \in Slots, id \in LeaseIds : AcquireIntervention(s, id)
  \/ \E s \in Slots, id \in LeaseIds : AcquireNewRun(s, id)
  \/ \E s \in Slots, source \in Sources, id \in LeaseIds : AcquireScoped(s, source, id)
  \/ \E l \in calls, msg \in Msgs \cup {NoMsg} : CommitLease(l, msg)
  \/ \E l \in calls : AbortLease(l)
  \/ \E s \in Slots \ {Lead}, source \in Sources \cap {"SpawnWelcome"}, msg \in Msgs \cup {NoMsg} :
       RecordOrSuppressWake(s, source, msg)
  \/ \E candidates \in SUBSET Loops, first \in Loops : RecoverBacklog(candidates, first)

Look(s) == PeekWake(s) \/ NoteRun(s) \/ LeaveBacklog(s) \/ ObserveEmptyWake(s) \/ ClaimWake(s)

Execute(s) ==
  \/ StartFails(s) \/ RetryStartLater(s) \/ (\E t \in TurnIds : StartTurn(s, t))
  \/ CancelLateStart(s) \/ FinishLateStart(s) \/ FailStarted(s)

Finalize(s) ==
  \/ AcquireWakeLead(s) \/ (\E l \in calls : CommitWakeLead(s, l))
  \/ (\E ok \in BOOLEAN : CompleteChild(s, ok)) \/ MaybeCompleteRun(s) \/ ReleaseSuppressed(s)

CancelRun(p) ==
  CheckCancel(p) \/ BeginCancel(p) \/ ListChildren(p)
    \/ (\E c \in stops[p].todo : SweepChild(p, c)) \/ FinishSweep(p)

CancelChild(p) ==
  (\E s \in Slots : BeginCancelChild(p, s)) \/ FinishCancelChild(p)
    \/ FinishLead(p) \/ WriteNotice(p) \/ NotifyLead(p) \/ FinishStarting(p)

PauseSlot(p) == (\E s \in Slots : CheckPause(p, s)) \/ BeginPause(p) \/ FinishPause(p)

Next ==
  \/ Request
  \/ \E s \in Loops : Look(s) \/ Execute(s) \/ Finalize(s)
  \/ \E p \in Stoppers : CancelRun(p) \/ CancelChild(p) \/ PauseSlot(p) \/ EndStop(p)

Spec == Init /\ [][Next]_vars

-----------------------------------------------------------------------------
(* Safety.                                                                 *)

\* Everything the record of a live run waits for has somebody who will give it
\* back: a lease is held by a caller that has not yet committed or aborted it,
\* a reservation by an event loop that is waiting for the port to start the
\* turn, a child by the loop that runs exactly that turn.  A record without an
\* owner would keep the run from ever completing (team_run.rs:1772).  In a
\* cancelling run commit, abort and retry do not give back what they hold, so
\* leases, and reservations if the port may ask for a retry, are excluded.
WorkOwned ==
  /\ IsActive(run) => run.leases \subseteq calls
  /\ \A s \in Slots :
       /\ run.starting[s] # "none" =>
            turns[s].phase = "claimed" \/ (MayRetryStart /\ run.status = "Cancelling")
       /\ run.active[s] # NoTurn =>
            /\ turns[s].turn = run.active[s] /\ turns[s].run = run.id
            /\ turns[s].phase \in {"late", "swept", "running", "waking", "settling"}

\* The other direction: a caller that holds a lease of a run keeps that run
\* from completing under it, so only a cancellation or a failure can make its
\* commit fail (team_run.rs:732, the lease count in maybe_complete_locked).
LeaseKeepsRunOpen ==
  \A l \in calls : \/ ended[l.run] \in {"Failed", "Cancelled"}
                   \/ ended[l.run] = "open" /\ run.id = l.run /\ l \in run.leases

\* A user's wake is never queued behind a background wake of its slot, unless it
\* is the one wake whose start the port has refused: the retry puts it back in
\* front, and however often it is refused nothing else gets ahead of the user
\* (team_run.rs:383, 1237).
ForegroundFirst ==
  \A s \in Slots :
    LET queue == run.pending[s]
        Ahead(i, k) == i < k /\ ~IsForegroundWake(queue[i].source) /\ IsForegroundWake(queue[k].source) IN
    \A i, j, k \in DOMAIN queue : Ahead(i, k) /\ Ahead(j, k) => MayRetryStart /\ i = j

\* A run that is being cancelled only winds down: no wake, lease or
\* reservation is added to it, and the only turn that can still appear is the one a
\* marked reservation was already waiting for (team_run.rs:1516, 1330).
WindsDown ==
  [][run.status = "Cancelling" /\ run'.id = run.id =>
       /\ run'.status = "Cancelling" /\ run'.leases \subseteq run.leases
       /\ \A s \in Slots :
            /\ run'.pending[s] = <<>>
            /\ run'.starting[s] \in {"none", run.starting[s]}
            /\ run'.active[s] \in {NoTurn, run.active[s]} \/ run.starting[s] = "cancelling"]_vars

\* The runs of TeamRunLifecycle: an open run has the status of the record.
Lifecycle == INSTANCE TeamRunLifecycle WITH
  born <- lastRun,
  phase <- [i \in 1..lastRun |-> IF ended[i] = "open" THEN run.status ELSE ended[i]]

\* Every behaviour of TeamRunManager is a behaviour of TeamRunLifecycle: one
\* run at a time, no way back from Cancelling to Running or to Completed, and no
\* second outcome, whatever stale call arrives (team_run.rs:1300, 1434, 1772).
ImplementsLifecycle == Lifecycle!Spec

=============================================================================
