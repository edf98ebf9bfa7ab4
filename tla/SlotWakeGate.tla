---------------------------- MODULE SlotWakeGate ----------------------------
(***************************************************************************)
(* One slot's share of a run record, in the detail TeamRun leaves out: the *)
(* gate entry with its suppressed_wake_count and last_suppressed_source,   *)
(* and the queue of pending wakes with the order in which they arrived.    *)
(* The properties justify what TeamRun keeps of it, a gate entry that only *)
(* knows which source it holds, and say what the queue preserves.          *)
(***************************************************************************)
EXTENDS TeamWake, SequencesExt

CONSTANTS MaxSuppressed,  \* bound: suppressed_wake_count
          MaxArrivals     \* bound: wakes pushed

ASSUME BoundsAssumption == MaxSuppressed \in Nat /\ MaxArrivals \in Nat

VARIABLES
  mode,    \* "absent", or the paused flag of the entry
  count,   \* suppressed_wake_count
  last,    \* last_suppressed_source, NoSource for None
  queue,   \* pending wakes; msg is the arrival number
  arrived  \* wakes pushed so far

gate == <<mode, count, last>>
vars == <<mode, count, last, queue, arrived>>

TypeOK ==
  /\ mode \in GateMode
  /\ count \in 0..MaxSuppressed
  /\ last \in WakeSource \cup {NoSource}
  /\ queue \in Seq([source : WakeSource, msg : 1..arrived])
  /\ arrived \in 0..MaxArrivals

Init == mode = "absent" /\ count = 0 /\ last = NoSource /\ queue = <<>> /\ arrived = 0

Push(source) ==
  /\ arrived < MaxArrivals
  /\ arrived' = arrived + 1
  /\ queue' = PushWake(queue, [source |-> source, msg |-> arrived + 1])

\* before_wake, then record_or_suppress_wake: recorded or counted.
Arrive(source) ==
  \/ /\ ResumesPausedSlot(source)
     /\ mode' = IF mode = "absent" THEN "absent" ELSE "resumed"
     /\ Push(source) /\ UNCHANGED <<count, last>>
  \/ /\ ~ResumesPausedSlot(source) /\ (mode = "absent" \/ BypassesPause(source))
     /\ Push(source) /\ UNCHANGED gate
  \/ /\ mode # "absent" /\ ~BypassesPause(source) /\ count < MaxSuppressed
     /\ count' = count + 1 /\ last' = source
     /\ UNCHANGED <<mode, queue, arrived>>

\* claim_wake_for_turn, record_empty_wake_observed.
Take == queue # <<>> /\ queue' = Tail(queue) /\ UNCHANGED <<gate, arrived>>

\* pause and add_suppressed with the wakes that were pending.
Pause ==
  /\ count + Len(queue) <= MaxSuppressed
  /\ mode' = "paused"
  /\ count' = (IF mode = "absent" THEN 0 ELSE count) + Len(queue)
  /\ last' = IF mode # "absent" /\ last # NoSource THEN last
             ELSE IF queue = <<>> THEN NoSource ELSE "McpSendMessage"
  /\ queue' = <<>> /\ UNCHANGED arrived

\* release_suppressed_if_resumed and the wake it hands out; the entry retains
\* nothing then, and is pruned.
Release ==
  /\ mode = "resumed" /\ count > 0
  /\ Push(last)
  /\ mode' = "absent" /\ count' = 0 /\ last' = NoSource

\* begin_cancel clears the gate and the queue.
Clear == mode' = "absent" /\ count' = 0 /\ last' = NoSource /\ queue' = <<>> /\ UNCHANGED arrived

Next == (\E source \in WakeSource : Arrive(source)) \/ Take \/ Pause \/ Release \/ Clear

Spec == Init /\ [][Next]_vars

-----------------------------------------------------------------------------
\* The entry TeamRun keeps for this gate.
Entry == [mode |-> mode, held |-> IF count = 0 THEN NoSource ELSE last]

\* A slot retains work exactly when its entry does: has_retained_work asks for
\* a paused slot or a positive count (slot_wake_gate.rs:121), TeamRun asks for a
\* paused entry or a held source.
RetainedAgrees == Retained(Entry) <=> mode = "paused" \/ count > 0

\* Every call changes the entry as TeamWake says it does, so that counting is
\* all that TeamRun leaves out (slot_wake_gate.rs:42, 59, 128, 140).
EntryFollowsGate ==
  [][/\ \A source \in WakeSource : Arrive(source) =>
          /\ Entry' = BeforeWake(Entry, source)
          /\ arrived' # arrived <=> GateRecords(Entry, source)
     /\ Pause => Entry' = AddSuppressed(PauseEntry(Entry), queue # <<>>)
     /\ Release => Releasable(Entry) /\ Entry' = NoEntry /\ Last(queue').source = Entry.held]_vars

\* Wakes of one class keep the order in which they arrived, and all of the
\* user's are ahead of the others, however pushes and takes interleave
\* (team_run.rs:383).
QueueOrder ==
  \A i, j \in DOMAIN queue : i < j =>
    \/ IsForegroundWake(queue[i].source) /\ ~IsForegroundWake(queue[j].source)
    \/ /\ IsForegroundWake(queue[i].source) = IsForegroundWake(queue[j].source)
       /\ queue[i].msg < queue[j].msg

\* push_pending_wake_locked as the code has it: insert before the first wake
\* that is not foreground, at the end if there is none.
InsertPosition ==
  LET background == {i \in DOMAIN queue : ~IsForegroundWake(queue[i].source)} IN
  IF background = {} THEN Len(queue) + 1 ELSE Min(background)

\* PushWake is that insertion, for every queue that can occur (team_run.rs:397).
PushIsInsert ==
  \A source \in WakeSource :
    LET wake == [source |-> source, msg |-> NoMsg] IN
    PushWake(queue, wake) = IF IsForegroundWake(source)
                            THEN InsertAt(queue, InsertPosition, wake) ELSE Append(queue, wake)
=============================================================================
