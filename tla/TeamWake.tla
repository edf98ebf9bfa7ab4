------------------------------ MODULE TeamWake ------------------------------
(***************************************************************************)
(* The pure part of the wake logic of veryagent-team: the sources a wake   *)
(* can have, the order in which pending wakes of a slot are kept, the      *)
(* policy that decides whether a caller is given a lease, and the gate     *)
(* that holds background wakes back while the user has stopped a slot.     *)
(* No state: TeamRun and TeamSession are built from these operators.       *)
(***************************************************************************)
EXTENDS Naturals, Sequences

CONSTANTS NoMsg,    \* Option<String>::None of a wake's message id
          NoSource  \* Option<TeamWakeSource>::None of a gate entry

UserSource == {"UserMessage", "UserIntervention"}
BackgroundSource == {"McpSendMessage", "IdleNotification", "InterruptedNotification"}
RecoverySource == {"CrashNotification", "InactivityTimeout", "SpawnAttachFailure",
                   "ShutdownRejected", "RecoveryDrain"}
LifecycleSource == {"SpawnWelcome", "McpShutdownRequest"}
WakeSource == UserSource \cup BackgroundSource \cup RecoverySource \cup LifecycleSource

ASSUME NoSourceAssumption == NoSource \notin WakeSource

BypassesPause(source) == source \in UserSource \cup LifecycleSource
ResumesPausedSlot(source) == source \in UserSource
IsForegroundWake(source) == source \in UserSource

-----------------------------------------------------------------------------
(* Pending wakes of one slot: a queue of records [source, msg].            *)

AllForeground(queue, n) ==
  n <= Len(queue) /\ \A i \in 1..n : IsForegroundWake(queue[i].source)

\* Two wrong queues (mutants): the user's wakes wait like all others, or the
\* newest of them goes first.
PushAtBack(queue, wake) == Append(queue, wake)
PushAtFront(queue, wake) ==
  IF IsForegroundWake(wake.source) THEN <<wake>> \o queue ELSE Append(queue, wake)

(***************************************************************************)
(* push_pending_wake_locked: a foreground wake goes in front of the first  *)
(* wake that is not foreground, any other wake goes to the back.  Written  *)
(* position by position: what is before the insertion point keeps its      *)
(* place, what is after it moves by one.                                   *)
(***************************************************************************)
PushWake(queue, wake) ==
  IF IsForegroundWake(wake.source)
  THEN [i \in 1..Len(queue) + 1 |->
          IF AllForeground(queue, i) THEN queue[i]
          ELSE IF AllForeground(queue, i - 1) THEN wake ELSE queue[i - 1]]
  ELSE Append(queue, wake)

-----------------------------------------------------------------------------
(* SlotWakeGate: one entry per slot the user has stopped.  mode "absent"   *)
(* is a slot without an entry.  suppressed_wake_count matters only through *)
(* being zero or not, so an entry keeps the source its suppressed wakes    *)
(* will be released with, NoSource while the count is zero.                *)

GateMode == {"absent", "paused", "resumed"}
NoEntry == [mode |-> "absent", held |-> NoSource]

Paused(entry) == entry.mode = "paused"
Retained(entry) == Paused(entry) \/ entry.held # NoSource

PauseEntry(entry) == [entry EXCEPT !.mode = "paused"]

\* A held source is overwritten (mutant).
AddSuppressedOver(entry, any) ==
  IF any /\ entry.mode # "absent" THEN [entry EXCEPT !.held = "McpSendMessage"] ELSE entry

\* add_suppressed: nothing to add, or no entry to add it to, changes nothing;
\* a source that is already held is kept.
AddSuppressed(entry, any) ==
  IF any /\ entry.mode # "absent" /\ entry.held = NoSource
  THEN [entry EXCEPT !.held = "McpSendMessage"] ELSE entry

\* before_wake, decision: is a wake of this source recorded as pending?
GateRecords(entry, source) == entry.mode = "absent" \/ BypassesPause(source)

\* before_wake, effect on the entry: a user source resumes the slot, a wake
\* that is not recorded is counted with its source.
BeforeWake(entry, source) ==
  IF entry.mode = "absent" THEN entry
  ELSE IF ResumesPausedSlot(source) THEN [entry EXCEPT !.mode = "resumed"]
  ELSE IF BypassesPause(source) THEN entry
  ELSE [entry EXCEPT !.held = source]

\* An entry is released although nothing was suppressed (mutant).
ReleasableEmpty(entry) == entry.mode = "resumed"

\* release_suppressed_if_resumed hands out one wake for everything that was
\* suppressed and prunes the entry.
Releasable(entry) == entry.mode = "resumed" /\ entry.held # NoSource

-----------------------------------------------------------------------------
SlotState == {"Busy", "Pending", "Paused", "Idle"}
Verdict == {"Accept", "Suppress", "RejectSlotBusy", "RejectInvalid"}

\* acquire_policy; scheduled is TeamRunWakeIntent::SchedulerWakeTarget.
AcquirePolicy(source, slotState, hasSpawnWelcome, scheduled) ==
  CASE source \in UserSource ->
         IF slotState = "Busy" THEN "RejectSlotBusy" ELSE "Accept"
    [] source = "SpawnWelcome" ->
         IF hasSpawnWelcome \/ slotState = "Pending" THEN "Suppress"
         ELSE IF slotState = "Busy" THEN "RejectInvalid" ELSE "Accept"
    [] source = "McpShutdownRequest" -> "Accept"
    [] source \in {"IdleNotification", "InterruptedNotification"} ->
         IF slotState = "Idle" /\ scheduled THEN "Accept" ELSE "Suppress"
    [] OTHER ->
         IF slotState = "Paused" THEN "Suppress" ELSE "Accept"
=============================================================================
