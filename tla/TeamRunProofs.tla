--------------------------- MODULE TeamRunProofs ---------------------------
(***************************************************************************)
(* Proofs about TeamRun, for every set of slots, messages and stop         *)
(* requests and every bound.                                               *)
(***************************************************************************)
EXTENDS TeamRun, TLAPS, SequenceTheorems

-----------------------------------------------------------------------------
(* The operators the record is changed with keep it a record.              *)

LEMMA NoRunType == NoRun \in RunRecord
  BY SlotsAssumption DEF NoRun, RunRecord, NoEntry, GateEntry, GateMode, RunStatus

LEMMA NewRunType ==
  ASSUME NEW id \in Nat, NEW target \in Slots
  PROVE  NewRun(id, target) \in RunRecord /\ NewRun(id, target).leases = {}
<1>1. "Accepted" \in RunStatus
  BY DEF RunStatus
<1>2. NewRun(id, target) = [NoRun EXCEPT !.status = "Accepted", !.id = id, !.target = target]
  BY DEF NewRun
<1>3. NoRun.leases = {}
  BY DEF NoRun
<1> QED
  BY <1>1, <1>2, <1>3, NoRunType DEF RunRecord

\* A push makes the queue longer by the pushed wake and adds nothing else.
LEMMA PushWakeType ==
  ASSUME NEW queue \in Seq(Wake), NEW wake \in Wake
  PROVE  PushWake(queue, wake) \in Seq(Wake)
<1>1. CASE ~IsForegroundWake(wake.source)
  BY <1>1 DEF PushWake
<1>2. CASE IsForegroundWake(wake.source)
  <2> DEFINE n == Len(queue) + 1
  <2>1. n \in Nat /\ Len(queue) \in Nat
    OBVIOUS
  <2>2. \A i \in 1..n : AllForeground(queue, i) => queue[i] \in Wake
    BY <2>1 DEF AllForeground
  <2>3. \A i \in 1..n : ~AllForeground(queue, i - 1) => queue[i - 1] \in Wake
    BY <2>1 DEF AllForeground
  <2>4. PushWake(queue, wake) \in [1..n -> Wake]
    BY <1>2, <2>2, <2>3 DEF PushWake
  <2> QED
    BY <2>1, <2>4, SeqDef
<1> QED
  BY <1>1, <1>2

LEMMA PushPendingType ==
  ASSUME NEW r \in RunRecord, NEW s \in Slots, NEW source \in WakeSource,
         NEW msg \in Msgs \cup {NoMsg}
  PROVE  PushPending(r, s, source, msg) \in RunRecord
<1> DEFINE wake == [source |-> source, msg |-> msg]
<1>1. wake \in Wake
  BY DEF Wake
<1>2. r.pending[s] \in Seq(Wake)
  BY DEF RunRecord
<1>3. PushWake(r.pending[s], wake) \in Seq(Wake)
  BY <1>1, <1>2, PushWakeType
<1> QED
  BY <1>3 DEF PushPending, RunRecord

LEMMA GateWakeType ==
  ASSUME NEW r \in RunRecord, NEW s \in Slots, NEW source \in WakeSource
  PROVE  GateWake(r, s, source) \in RunRecord
<1>1. r.gate[s] \in GateEntry
  BY DEF RunRecord
<1>2. BeforeWake(r.gate[s], source) \in GateEntry
  BY <1>1 DEF BeforeWake, GateEntry, GateMode
<1> QED
  BY <1>2 DEF GateWake, RunRecord

LEMMA PausePendingType ==
  ASSUME NEW r \in RunRecord, NEW s \in Slots
  PROVE  PausePending(r, s) \in RunRecord
<1>1. r.gate[s] \in GateEntry
  BY DEF RunRecord
<1>2. PauseEntry(r.gate[s]) \in GateEntry
  BY <1>1 DEF PauseEntry, GateEntry, GateMode
<1>3. "McpSendMessage" \in WakeSource
  BY DEF WakeSource, BackgroundSource
<1>4. AddSuppressed(PauseEntry(r.gate[s]), r.pending[s] # <<>>) \in GateEntry
  BY <1>2, <1>3 DEF AddSuppressed, GateEntry
<1> DEFINE queues == [r.pending EXCEPT ![s] = <<>>]
           gates == [r.gate EXCEPT
                       ![s] = AddSuppressed(PauseEntry(r.gate[s]), r.pending[s] # <<>>)]
<1>5. queues \in [Slots -> Seq(Wake)] /\ gates \in [Slots -> GateEntry]
  BY <1>4 DEF RunRecord
<1>6. PausePending(r, s) = [r EXCEPT !.pending = queues, !.gate = gates]
  BY DEF PausePending
<1> HIDE DEF queues, gates
<1> QED
  BY <1>5, <1>6 DEF RunRecord

\* What CloseOrKeep leaves behind: the given record or none, and one more
\* outcome at most.
LEMMA CloseOrKeepType ==
  ASSUME TypeOK, NEW r \in RunRecord, NEW closes, NEW outcome \in Outcome,
         CloseOrKeep(r, closes, outcome)
  PROVE  run' \in RunRecord /\ ended' \in [1..lastRun -> Outcome]
  BY NoRunType DEF CloseOrKeep, TypeOK

LEMMA KeepType ==
  ASSUME TypeOK, NEW r \in RunRecord,
         \/ Keep(r) \/ Fail(r) \/ MaybeComplete(r) \/ MaybeCancelled(r)
  PROVE  run' \in RunRecord /\ ended' \in [1..lastRun -> Outcome]
  BY CloseOrKeepType DEF Keep, Fail, MaybeComplete, MaybeCancelled, Outcome

LEMMA RemoveChildType ==
  ASSUME TypeOK, NEW s \in Slots, RemoveChild(s)
  PROVE  run' \in RunRecord /\ ended' \in [1..lastRun -> Outcome]
<1>1. [run EXCEPT !.active[s] = NoTurn] \in RunRecord
  BY DEF TypeOK, RunRecord
<1> QED
  BY <1>1, KeepType DEF RemoveChild

LEMMA StartRunType ==
  ASSUME TypeOK, NEW r \in RunRecord, StartRun(r)
  PROVE  run' \in RunRecord /\ lastRun' \in Nat /\ ended' \in [1..lastRun' -> Outcome]
  BY DEF StartRun, TypeOK, Outcome

-----------------------------------------------------------------------------
(* Type correctness.  A loop that has claimed a wake remembers a real one; *)
(* it is what a retry puts back into the queue.                            *)

ClaimedWake == \A s \in Slots : turns[s].phase = "claimed" => turns[s].wake \in Wake

Typed == TypeOK /\ ClaimedWake

LEMMA InitTyped == Init => Typed
<1> SUFFICES ASSUME Init PROVE Typed
  OBVIOUS
<1>1. NoTurnInHand \in Turn /\ NoStop \in Stop
  BY SlotsAssumption DEF NoTurnInHand, NoStop, Turn, Stop, TurnPhase, StopPhase, NoWake
<1>2. TypeOK
  BY <1>1, NoRunType DEF Init, TypeOK
<1>3. ClaimedWake
  BY DEF Init, ClaimedWake, NoTurnInHand
<1> QED
  BY <1>2, <1>3 DEF Typed

LEMMA RequestTyped == ASSUME Typed, Request PROVE Typed'
<1> USE DEF Typed
<1>1. ASSUME NEW s \in Slots, NEW id \in LeaseIds, AcquireIntervention(s, id) PROVE Typed'
  <2> DEFINE lease == [id |-> id, run |-> run.id, slot |-> s, source |-> "UserIntervention"]
  <2>1. lease \in Lease /\ "UserIntervention" \in WakeSource
    BY DEF TypeOK, RunRecord, Lease, WakeSource, UserSource
  <2>2. GateWake(run, s, "UserIntervention") \in RunRecord
    BY <2>1, GateWakeType DEF TypeOK
  <2>3. [GateWake(run, s, "UserIntervention") EXCEPT !.leases = @ \cup {lease}] \in RunRecord
    BY <2>1, <2>2 DEF RunRecord
  <2> QED
    BY <1>1, <2>1, <2>3, KeepType DEF AcquireIntervention, TypeOK, ClaimedWake
<1>2. ASSUME NEW s \in Slots, NEW id \in LeaseIds, AcquireNewRun(s, id) PROVE Typed'
  <2> DEFINE lease == [id |-> id, run |-> lastRun + 1, slot |-> s, source |-> "UserMessage"]
  <2>1. lease \in Lease
    BY DEF TypeOK, Lease, WakeSource, UserSource
  <2>2. NewRun(lastRun + 1, s) \in RunRecord
    BY NewRunType DEF TypeOK
  <2>3. [NewRun(lastRun + 1, s) EXCEPT !.leases = {lease}] \in RunRecord
    BY <2>1, <2>2 DEF RunRecord
  <2> QED
    BY <1>2, <2>1, <2>3, StartRunType DEF AcquireNewRun, TypeOK, ClaimedWake
<1>3. ASSUME NEW s \in Slots, NEW source \in Sources, NEW id \in LeaseIds,
             AcquireScoped(s, source, id)
      PROVE Typed'
  <2> DEFINE lease == [id |-> id, run |-> run.id, slot |-> s, source |-> source]
  <2>1. lease \in Lease /\ source \in WakeSource
    BY SourcesAssumption DEF TypeOK, RunRecord, Lease
  <2>2. GateWake(run, s, source) \in RunRecord
    BY <2>1, GateWakeType DEF TypeOK
  <2>3. [GateWake(run, s, source) EXCEPT !.leases = @ \cup {lease}] \in RunRecord
    BY <2>1, <2>2 DEF RunRecord
  <2> QED
    BY <1>3, <2>1, <2>2, <2>3, KeepType DEF AcquireScoped, TypeOK, ClaimedWake
<1>4. ASSUME NEW l \in calls, NEW msg \in Msgs \cup {NoMsg}, CommitLease(l, msg) PROVE Typed'
  <2>1. l \in Lease /\ l.slot \in Slots /\ l.source \in WakeSource
    BY DEF TypeOK, Lease
  <2>2. PushPending(run, l.slot, l.source, msg) \in RunRecord
    BY <2>1, PushPendingType DEF TypeOK
  <2>3. [PushPending(run, l.slot, l.source, msg) EXCEPT !.leases = @ \ {l}] \in RunRecord
    BY <2>2 DEF RunRecord
  <2> QED
    BY <1>4, <2>3, KeepType DEF CommitLease, TypeOK, ClaimedWake
<1>5. ASSUME NEW l \in calls, AbortLease(l) PROVE Typed'
  <2>1. [run EXCEPT !.leases = @ \ {l}] \in RunRecord
    BY DEF TypeOK, RunRecord
  <2> QED
    BY <1>5, <2>1, KeepType DEF AbortLease, TypeOK, ClaimedWake
<1>6. ASSUME NEW s \in Slots, NEW source \in Sources, NEW msg \in Msgs \cup {NoMsg},
             RecordOrSuppressWake(s, source, msg)
      PROVE Typed'
  <2>1. source \in WakeSource
    BY SourcesAssumption
  <2>2. GateWake(run, s, source) \in RunRecord
    BY <2>1, GateWakeType DEF TypeOK
  <2>3. PushPending(GateWake(run, s, source), s, source, msg) \in RunRecord
    BY <2>1, <2>2, PushPendingType
  <2> QED
    BY <1>6, <2>2, <2>3, KeepType DEF RecordOrSuppressWake, TypeOK, ClaimedWake
<1>7. ASSUME NEW candidates \in SUBSET Slots, NEW first \in Slots,
             RecoverBacklog(candidates, first)
      PROVE Typed'
  <2> DEFINE drain == [source |-> "RecoveryDrain", msg |-> NoMsg]
             woken(r, targets) ==
               [r EXCEPT !.pending = [s \in Slots |-> IF s \in targets
                                                      THEN Append(r.pending[s], drain)
                                                      ELSE r.pending[s]]]
  <2>1. drain \in Wake
    BY DEF Wake, WakeSource, RecoverySource
  <2>2. ASSUME NEW r \in RunRecord, NEW targets PROVE woken(r, targets) \in RunRecord
    <3>1. \A s \in Slots : r.pending[s] \in Seq(Wake)
      BY DEF RunRecord
    <3>2. \A s \in Slots : Append(r.pending[s], drain) \in Seq(Wake)
      BY <2>1, <3>1
    <3> HIDE DEF drain
    <3> QED
      BY <3>1, <3>2 DEF RunRecord
  <2>3. NewRun(lastRun + 1, first) \in RunRecord
    BY NewRunType DEF TypeOK
  <2>4. run \in RunRecord
    BY DEF TypeOK
  <2> HIDE DEF woken
  <2>5. \/ StartRun(woken(NewRun(lastRun + 1, first), candidates))
        \/ /\ Keep(woken(run, {s \in candidates : SlotRunState(run, s) = "Idle"}))
           /\ UNCHANGED lastRun
    BY <1>7 DEF RecoverBacklog, woken
  <2>6. woken(NewRun(lastRun + 1, first), candidates) \in RunRecord
    BY <2>2, <2>3
  <2>7. woken(run, {s \in candidates : SlotRunState(run, s) = "Idle"}) \in RunRecord
    BY <2>2, <2>4
  <2>8. UNCHANGED <<calls, turns, stops>>
    BY <1>7 DEF RecoverBacklog
  <2>9. CASE StartRun(woken(NewRun(lastRun + 1, first), candidates))
    BY <2>6, <2>8, <2>9, StartRunType DEF TypeOK, ClaimedWake
  <2>10. CASE Keep(woken(run, {s \in candidates : SlotRunState(run, s) = "Idle"}))
              /\ UNCHANGED lastRun
    BY <2>7, <2>8, <2>10, KeepType DEF TypeOK, ClaimedWake
  <2> QED
    BY <2>5, <2>9, <2>10
<1> QED
  BY <1>1, <1>2, <1>3, <1>4, <1>5, <1>6, <1>7, SlotsAssumption DEF Request

\* What a loop takes in hand, and what a stop request takes in hand.
LEMMA HoldTurnTyped ==
  ASSUME Typed, NEW s \in Slots, NEW t \in Turn, t.phase = "claimed" => t.wake \in Wake,
         HoldTurn(s, t)
  PROVE  turns' \in [Slots -> Turn] /\ ClaimedWake'
  BY DEF HoldTurn, Typed, TypeOK, ClaimedWake

LEMMA HoldStopTyped ==
  ASSUME Typed, NEW p \in Stoppers, NEW stop \in Stop, HoldStop(p, stop)
  PROVE  stops' \in [Stoppers -> Stop]
  BY DEF HoldStop, Typed, TypeOK

LEMMA NothingInHandType ==
  /\ NoTurnInHand \in Turn /\ NoTurnInHand.phase = "idle"
  /\ NoStop \in Stop /\ NoWake \notin Wake
  BY SlotsAssumption, NoSourceAssumption
  DEF NoTurnInHand, NoStop, Turn, Stop, TurnPhase, StopPhase, NoWake, Wake

LEMMA FrontWakeType ==
  ASSUME TypeOK, NEW s \in Slots, run.pending[s] # <<>>
  PROVE  /\ Head(run.pending[s]) \in Wake
         /\ Tail(run.pending[s]) \in Seq(Wake)
  BY DEF TypeOK, RunRecord

LEMMA LookTyped == ASSUME Typed, NEW s \in Slots, Look(s) PROVE Typed'
<1> USE DEF Typed
<1>1. turns[s] \in Turn
  BY DEF TypeOK
<1>2. CASE PeekWake(s)
  <2> DEFINE front == IF IsActive(run) /\ run.pending[s] # <<>>
                      THEN Head(run.pending[s]) ELSE NoWake
             t == [NoTurnInHand EXCEPT !.phase = "peeked", !.seen = front]
  <2>1. front \in Wake \cup {NoWake}
    BY FrontWakeType
  <2>2. t \in Turn /\ t.phase # "claimed"
    BY <2>1, NothingInHandType DEF Turn, TurnPhase
  <2>3. HoldTurn(s, t) /\ UNCHANGED <<run, lastRun, ended, calls, stops>>
    BY <1>2 DEF PeekWake
  <2> QED
    BY <2>2, <2>3, HoldTurnTyped DEF TypeOK
<1>3. CASE NoteRun(s)
  <2> DEFINE t == [turns[s] EXCEPT !.phase = "noted", !.run = IF IsActive(run) THEN run.id ELSE 0]
  <2>1. run.id \in Nat
    BY DEF TypeOK, RunRecord
  <2>2. t \in Turn /\ t.phase # "claimed"
    BY <1>1, <2>1 DEF Turn, TurnPhase
  <2>3. HoldTurn(s, t) /\ UNCHANGED <<run, lastRun, ended, calls, stops>>
    BY <1>3 DEF NoteRun
  <2> QED
    BY <2>2, <2>3, HoldTurnTyped DEF TypeOK
<1>4. CASE LeaveBacklog(s)
  BY <1>4, NothingInHandType, HoldTurnTyped DEF LeaveBacklog, TypeOK
<1>5. CASE ObserveEmptyWake(s)
  <2> DEFINE popped == IF run.pending[s] = <<>> THEN run ELSE [run EXCEPT !.pending[s] = Tail(@)]
  <2>1. popped \in RunRecord
    BY FrontWakeType DEF TypeOK, RunRecord
  <2>2. MaybeComplete(popped) /\ HoldTurn(s, NoTurnInHand) /\ UNCHANGED <<lastRun, calls, stops>>
    BY <1>5 DEF ObserveEmptyWake
  <2> QED
    BY <2>1, <2>2, KeepType, NothingInHandType, HoldTurnTyped DEF TypeOK
<1>6. CASE ClaimWake(s)
  <2> DEFINE claimed == [run EXCEPT !.pending[s] = Tail(@), !.starting[s] = "starting"]
             t == [turns[s] EXCEPT !.phase = "claimed", !.wake = Head(run.pending[s])]
  <2>1. UNCHANGED <<lastRun, calls, stops>>
    BY <1>6 DEF ClaimWake
  <2>2. CASE IsActive(run) /\ run.pending[s] # <<>>
    <3>1. Keep(claimed) /\ HoldTurn(s, t)
      BY <1>6, <2>2 DEF ClaimWake
    <3> DEFINE queues == [run.pending EXCEPT ![s] = Tail(@)]
               reserved == [run.starting EXCEPT ![s] = "starting"]
    <3>2. queues \in [Slots -> Seq(Wake)]
          /\ reserved \in [Slots -> {"none", "starting", "cancelling"}]
      BY <2>2, FrontWakeType DEF TypeOK, RunRecord
    <3>3. claimed = [run EXCEPT !.pending = queues, !.starting = reserved]
      OBVIOUS
    <3> HIDE DEF queues, reserved
    <3>4. claimed \in RunRecord
      BY <3>2, <3>3 DEF TypeOK, RunRecord
    <3>5. t \in Turn /\ t.wake \in Wake
      BY <1>1, <2>2, FrontWakeType DEF Turn, TurnPhase
    <3> QED
      BY <2>1, <3>1, <3>4, <3>5, KeepType, HoldTurnTyped DEF TypeOK
  <2>3. CASE ~(IsActive(run) /\ run.pending[s] # <<>>)
    <3>1. Keep(run) /\ HoldTurn(s, NoTurnInHand)
      BY <1>6, <2>3 DEF ClaimWake
    <3> QED
      BY <2>1, <3>1, KeepType, NothingInHandType, HoldTurnTyped DEF TypeOK
  <2> QED
    BY <2>2, <2>3
<1> QED
  BY <1>2, <1>3, <1>4, <1>5, <1>6 DEF Look

LEMMA ExecuteTyped == ASSUME Typed, NEW s \in Slots, Execute(s) PROVE Typed'
<1> USE DEF Typed
<1> DEFINE released == [run EXCEPT !.starting[s] = "none"]
<1>1. turns[s] \in Turn /\ run \in RunRecord /\ released \in RunRecord
  BY DEF TypeOK, RunRecord
<1>2. CASE StartFails(s)
  <2>1. /\ Keep(run) \/ MaybeCancelled(released) \/ Fail(released)
        /\ HoldTurn(s, [turns[s] EXCEPT !.phase = "failed", !.wake = NoWake])
        /\ UNCHANGED <<lastRun, calls, stops>>
    BY <1>2 DEF StartFails
  <2>2. [turns[s] EXCEPT !.phase = "failed", !.wake = NoWake] \in Turn
    BY <1>1 DEF Turn, TurnPhase
  <2> QED
    BY <1>1, <2>1, <2>2, KeepType, HoldTurnTyped DEF TypeOK, Turn
<1>3. CASE RetryStartLater(s)
  <2> DEFINE queues == [run.pending EXCEPT ![s] = <<turns[s].wake>> \o @]
  <2>1. HoldTurn(s, NoTurnInHand) /\ UNCHANGED <<lastRun, calls, stops>>
    BY <1>3 DEF RetryStartLater
  <2>2. turns[s].wake \in Wake
    BY <1>3 DEF RetryStartLater, ClaimedWake
  <2>3. queues \in [Slots -> Seq(Wake)]
    BY <2>2 DEF TypeOK, RunRecord
  <2>4. [run EXCEPT !.starting[s] = "none", !.pending[s] = <<turns[s].wake>> \o @]
          = [released EXCEPT !.pending = queues]
    BY <1>1 DEF RunRecord
  <2> HIDE DEF queues
  <2>5. [run EXCEPT !.starting[s] = "none", !.pending[s] = <<turns[s].wake>> \o @] \in RunRecord
    BY <1>1, <2>3, <2>4 DEF RunRecord
  <2> QED
    BY <1>1, <1>3, <2>1, <2>5, KeepType, NothingInHandType, HoldTurnTyped
    DEF RetryStartLater, TypeOK
<1>4. ASSUME NEW t \in TurnIds, StartTurn(s, t) PROVE Typed'
  <2> DEFINE next(phase) == [turns[s] EXCEPT !.phase = phase, !.wake = NoWake, !.turn = t]
             begun(status) == [released EXCEPT !.started = TRUE, !.active[s] = t, !.status = status]
  <2>1. next("late") \in Turn /\ next("running") \in Turn
        /\ next("late").phase = "late" /\ next("running").phase = "running"
    BY <1>1 DEF Turn, TurnPhase
  <2>2. ASSUME NEW status \in RunStatus PROVE begun(status) \in RunRecord
    <3> DEFINE children == [released.active EXCEPT ![s] = t]
    <3>1. children \in [Slots -> TurnIds \cup {NoTurn}]
      BY <1>1 DEF RunRecord
    <3>2. begun(status) = [released EXCEPT !.started = TRUE, !.active = children, !.status = status]
      OBVIOUS
    <3> HIDE DEF children, released
    <3> QED
      BY <1>1, <3>1, <3>2 DEF RunRecord
  <2>3. "Running" \in RunStatus /\ run.status \in RunStatus /\ released.status = run.status
    BY <1>1 DEF RunStatus, RunRecord
  <2>4. /\ HoldTurn(s, next("late")) \/ HoldTurn(s, next("running"))
        /\ Keep(run) \/ Keep(released) \/ Keep(begun(run.status)) \/ Keep(begun("Running"))
        /\ UNCHANGED <<lastRun, calls, stops>>
    <3> DEFINE mustCancel == run.status = "Cancelling" \/ run.starting[s] = "cancelling"
    <3>1. /\ UNCHANGED <<lastRun, calls, stops>>
          /\ \/ Keep(run) /\ HoldTurn(s, next("running"))
             \/ Keep(released) /\ HoldTurn(s, next("running"))
             \/ /\ Keep([released EXCEPT !.started = TRUE, !.active[s] = t,
                                       !.status = IF mustCancel THEN @ ELSE "Running"])
                /\ HoldTurn(s, next(IF mustCancel THEN "late" ELSE "running"))
      BY <1>4 DEF StartTurn
    <3>2. [released EXCEPT !.started = TRUE, !.active[s] = t,
                           !.status = IF mustCancel THEN @ ELSE "Running"]
            = begun(IF mustCancel THEN run.status ELSE "Running")
      BY <2>3
    <3> HIDE DEF begun, released, next
    <3>3. CASE mustCancel
      BY <3>1, <3>2, <3>3
    <3>4. CASE ~mustCancel
      BY <3>1, <3>2, <3>4
    <3> QED
      BY <3>3, <3>4
  <2> HIDE DEF begun, released, next
  <2>5. run' \in RunRecord /\ ended' \in [1..lastRun -> Outcome]
    BY <1>1, <2>2, <2>3, <2>4, KeepType
  <2>6. turns' \in [Slots -> Turn] /\ ClaimedWake'
    BY <2>1, <2>4, HoldTurnTyped
  <2> QED
    BY <2>4, <2>5, <2>6 DEF TypeOK
<1>5. CASE CancelLateStart(s)
  <2>1. [turns[s] EXCEPT !.phase = "swept"] \in Turn
    BY <1>1 DEF Turn, TurnPhase
  <2> QED
    BY <1>5, <1>1, <2>1, RemoveChildType, HoldTurnTyped DEF CancelLateStart, TypeOK, Turn
<1>6. CASE FinishLateStart(s)
  <2>1. [turns[s] EXCEPT !.phase = "running"] \in Turn
    BY <1>1 DEF Turn, TurnPhase
  <2> QED
    BY <1>6, <1>1, <2>1, KeepType, HoldTurnTyped DEF FinishLateStart, TypeOK, Turn
<1>7. CASE FailStarted(s)
  <2>1. [turns[s] EXCEPT !.phase = "failed", !.turn = NoTurn] \in Turn
    BY <1>1 DEF Turn, TurnPhase
  <2> QED
    BY <1>7, <1>1, <2>1, KeepType, HoldTurnTyped DEF FailStarted, TypeOK, Turn
<1> QED
  BY <1>2, <1>3, <1>4, <1>5, <1>6, <1>7 DEF Execute

LEMMA FinalizeTyped == ASSUME Typed, NEW s \in Slots, Finalize(s) PROVE Typed'
<1> USE DEF Typed
<1>1. turns[s] \in Turn /\ run \in RunRecord
  BY DEF TypeOK
<1>2. [turns[s] EXCEPT !.phase = AfterWaking(turns[s])] \in Turn
      /\ [turns[s] EXCEPT !.phase = AfterWaking(turns[s])].phase # "claimed"
  BY <1>1 DEF Turn, TurnPhase, AfterWaking
<1>3. CASE AcquireWakeLead(s)
  <2> DEFINE gated == GateWake(run, Lead, "IdleNotification")
             lease == [id |-> s, run |-> run.id, slot |-> Lead, source |-> "IdleNotification"]
  <2>1. "IdleNotification" \in WakeSource
    BY DEF WakeSource, BackgroundSource
  <2>2. lease \in Lease
    BY <1>1, <2>1, SlotsAssumption DEF Lease, RunRecord
  <2>3. gated \in RunRecord
    BY <1>1, <2>1, SlotsAssumption, GateWakeType
  <2>4. [gated EXCEPT !.leases = @ \cup {lease}] \in RunRecord
    BY <2>2, <2>3 DEF RunRecord
  <2>5. [turns[s] EXCEPT !.phase = "waking"] \in Turn
    BY <1>1 DEF Turn, TurnPhase
  <2>6. CASE /\ Keep([gated EXCEPT !.leases = @ \cup {lease}])
             /\ calls' = calls \cup {lease}
             /\ HoldTurn(s, [turns[s] EXCEPT !.phase = "waking"])
             /\ UNCHANGED <<lastRun, stops>>
    BY <1>1, <2>2, <2>4, <2>5, <2>6, KeepType, HoldTurnTyped DEF TypeOK, Turn
  <2>7. CASE /\ Keep(gated)
             /\ HoldTurn(s, [turns[s] EXCEPT !.phase = AfterWaking(turns[s])])
             /\ UNCHANGED <<lastRun, calls, stops>>
    BY <1>2, <2>3, <2>7, KeepType, HoldTurnTyped DEF TypeOK
  <2> QED
    BY <1>3, <2>6, <2>7 DEF AcquireWakeLead
<1>4. ASSUME NEW l \in calls, CommitWakeLead(s, l) PROVE Typed'
  <2>1. l \in Lease /\ l.slot \in Slots /\ l.source \in WakeSource
    BY DEF TypeOK, Lease
  <2>2. PushPending(run, l.slot, l.source, NoMsg) \in RunRecord
    BY <1>1, <2>1, PushPendingType
  <2>3. [PushPending(run, l.slot, l.source, NoMsg) EXCEPT !.leases = @ \ {l}] \in RunRecord
    BY <2>2 DEF RunRecord
  <2> QED
    BY <1>1, <1>2, <1>4, <2>3, KeepType, HoldTurnTyped DEF CommitWakeLead, TypeOK
<1>5. ASSUME NEW ok \in BOOLEAN, CompleteChild(s, ok) PROVE Typed'
  <2> DEFINE removed == [run EXCEPT !.active[s] = NoTurn]
  <2>1. removed \in RunRecord
    BY <1>1 DEF RunRecord
  <2>2. [turns[s] EXCEPT !.phase = "completing", !.turn = NoTurn] \in Turn
    BY <1>1 DEF Turn, TurnPhase
  <2>3. /\ HoldTurn(s, [turns[s] EXCEPT !.phase = "completing", !.turn = NoTurn])
        /\ Keep(run) \/ MaybeComplete(removed) \/ Fail(removed)
        /\ UNCHANGED <<lastRun, calls, stops>>
    BY <1>5 DEF CompleteChild
  <2> QED
    BY <1>1, <2>1, <2>2, <2>3, KeepType, HoldTurnTyped DEF TypeOK, Turn
<1>6. CASE MaybeCompleteRun(s)
  <2>1. [turns[s] EXCEPT !.phase = "releasing"] \in Turn
    BY <1>1 DEF Turn, TurnPhase
  <2> QED
    BY <1>1, <1>6, <2>1, KeepType, HoldTurnTyped DEF MaybeCompleteRun, TypeOK, Turn
<1>7. CASE ReleaseSuppressed(s)
  <2> DEFINE pushed == PushPending(run, s, run.gate[s].held, NoMsg)
  <2>1. CASE turns[s].seen.source \in UserSource /\ IsActive(run) /\ Releasable(run.gate[s])
    <3>1. run.gate[s].held \in WakeSource
      BY <1>1, <2>1 DEF RunRecord, GateEntry, Releasable
    <3>2. pushed \in RunRecord
      BY <1>1, <3>1, PushPendingType
    <3>3. NoEntry \in GateEntry
      BY DEF NoEntry, GateEntry, GateMode
    <3> HIDE DEF pushed
    <3>4. [pushed EXCEPT !.gate[s] = NoEntry] \in RunRecord
      BY <3>2, <3>3 DEF RunRecord
    <3>5. Keep([pushed EXCEPT !.gate[s] = NoEntry]) /\ HoldTurn(s, NoTurnInHand)
          /\ UNCHANGED <<lastRun, calls, stops>>
      BY <1>7, <2>1 DEF ReleaseSuppressed, pushed
    <3> QED
      BY <3>4, <3>5, KeepType, NothingInHandType, HoldTurnTyped DEF TypeOK
  <2>2. CASE ~(turns[s].seen.source \in UserSource /\ IsActive(run) /\ Releasable(run.gate[s]))
    BY <1>1, <1>7, <2>2, KeepType, NothingInHandType, HoldTurnTyped
    DEF ReleaseSuppressed, TypeOK
  <2> QED
    BY <2>1, <2>2
<1> QED
  BY <1>3, <1>4, <1>5, <1>6, <1>7 DEF Finalize

LEMMA CancelRunTyped == ASSUME Typed, NEW p \in Stoppers, CancelRun(p) PROVE Typed'
<1> USE DEF Typed
<1>1. stops[p] \in Stop /\ run \in RunRecord
  BY DEF TypeOK
<1>2. CASE CheckCancel(p)
  <2>1. [NoStop EXCEPT !.phase = "cancelChecked"] \in Stop
    BY NothingInHandType DEF Stop, StopPhase
  <2> QED
    BY <1>2, <2>1, HoldStopTyped DEF CheckCancel, TypeOK, ClaimedWake
<1>3. CASE BeginCancel(p)
  <2> DEFINE reserved == [s \in Slots |-> IF run.starting[s] = "none" THEN "none" ELSE "cancelling"]
             begun == [run EXCEPT !.status = "Cancelling",
                                  !.pending = [s \in Slots |-> <<>>],
                                  !.gate = [s \in Slots |-> NoEntry],
                                  !.starting = reserved]
  <2>1. reserved \in [Slots -> {"none", "starting", "cancelling"}]
        /\ [s \in Slots |-> NoEntry] \in [Slots -> GateEntry]
        /\ [s \in Slots |-> <<>>] \in [Slots -> Seq(Wake)]
    BY DEF NoEntry, GateEntry, GateMode
  <2>2. [stops[p] EXCEPT !.phase = "cancelBegun"] \in Stop
    BY <1>1 DEF Stop, StopPhase
  <2>3. UNCHANGED <<lastRun, calls, turns>>
    BY <1>3 DEF BeginCancel
  <2>4. \/ Keep(begun) /\ HoldStop(p, [stops[p] EXCEPT !.phase = "cancelBegun"])
        \/ Keep(run) /\ HoldStop(p, NoStop)
    BY <1>3 DEF BeginCancel
  <2>5. "Cancelling" \in RunStatus
    BY DEF RunStatus
  <2> HIDE DEF reserved
  <2>6. begun \in RunRecord
    BY <1>1, <2>1, <2>5 DEF RunRecord
  <2> HIDE DEF begun
  <2> QED
    BY <1>1, <2>2, <2>3, <2>4, <2>6, KeepType, HoldStopTyped, NothingInHandType
    DEF TypeOK, ClaimedWake
<1>5. CASE ListChildren(p)
  <2> DEFINE children == {c \in Slots \X TurnIds : run.active[c[1]] = c[2]}
  <2>1. children \in SUBSET (Slots \X TurnIds)
    OBVIOUS
  <2>2. HoldStop(p, [stops[p] EXCEPT !.phase = "sweeping", !.todo = children])
        /\ UNCHANGED <<run, lastRun, ended, calls, turns>>
    BY <1>5 DEF ListChildren
  <2> HIDE DEF children
  <2>3. [stops[p] EXCEPT !.phase = "sweeping", !.todo = children] \in Stop
    BY <1>1, <2>1 DEF Stop, StopPhase
  <2> QED
    BY <2>2, <2>3, HoldStopTyped DEF TypeOK, ClaimedWake
<1>6. ASSUME NEW c \in stops[p].todo, SweepChild(p, c) PROVE Typed'
  <2>1. c[1] \in Slots /\ [stops[p] EXCEPT !.todo = @ \ {c}] \in Stop
    BY <1>1 DEF Stop
  <2> QED
    BY <1>6, <2>1, RemoveChildType, HoldStopTyped DEF SweepChild, TypeOK, ClaimedWake
<1>7. CASE FinishSweep(p)
  BY <1>1, <1>7, KeepType, HoldStopTyped, NothingInHandType
  DEF FinishSweep, TypeOK, ClaimedWake
<1> QED
  BY <1>2, <1>3, <1>5, <1>6, <1>7 DEF CancelRun

LEMMA CancelChildTyped == ASSUME Typed, NEW p \in Stoppers, CancelChild(p) PROVE Typed'
<1> USE DEF Typed
<1>1. stops[p] \in Stop /\ run \in RunRecord
  BY DEF TypeOK
<1>2. ASSUME NEW s \in Slots, BeginCancelChild(p, s) PROVE Typed'
  <2> DEFINE looked == [NoStop EXCEPT !.phase = "childCancel", !.slot = s, !.turn = run.active[s]]
             marked == [NoStop EXCEPT !.phase = IF s = Lead THEN "end" ELSE "notifyThenEnd",
                                      !.slot = s]
             told == [run EXCEPT !.starting[s] = "cancelling"]
  <2>1. looked \in Stop /\ marked \in Stop
    BY <1>1, NothingInHandType DEF Stop, StopPhase, RunRecord
  <2>2. told \in RunRecord
    BY <1>1 DEF RunRecord
  <2>3. /\ \/ Keep(run) /\ HoldStop(p, looked)
           \/ Keep(told) /\ (HoldStop(p, marked) \/ HoldStop(p, NoStop))
        /\ UNCHANGED <<lastRun, calls, turns>>
    BY <1>2 DEF BeginCancelChild
  <2> HIDE DEF looked, marked, told
  <2> QED
    BY <1>1, <2>1, <2>2, <2>3, KeepType, HoldStopTyped, NothingInHandType DEF TypeOK, ClaimedWake
<1>3. CASE FinishCancelChild(p)
  <2>1. [stops[p] EXCEPT !.phase = IF stops[p].slot = Lead THEN "leadEnd" ELSE "notify",
                         !.turn = NoTurn] \in Stop /\ stops[p].slot \in Slots
    BY <1>1 DEF Stop, StopPhase
  <2> QED
    BY <1>3, <2>1, RemoveChildType, HoldStopTyped DEF FinishCancelChild, TypeOK, ClaimedWake
<1>4. CASE WriteNotice(p)
  <2>1. [stops[p] EXCEPT !.phase = IF @ = "notify" THEN "noticed" ELSE "noticedThenEnd"] \in Stop
    BY <1>1 DEF Stop, StopPhase
  <2> QED
    BY <1>4, <2>1, HoldStopTyped DEF WriteNotice, TypeOK, ClaimedWake
<1>5. CASE FinishLead(p)
  BY <1>1, <1>5, KeepType, HoldStopTyped, NothingInHandType
  DEF FinishLead, TypeOK, ClaimedWake
<1>6. CASE NotifyLead(p)
  <2>1. GateWake(run, Lead, "InterruptedNotification") \in RunRecord
    BY <1>1, SlotsAssumption, GateWakeType DEF WakeSource, BackgroundSource
  <2>2. [stops[p] EXCEPT !.phase = "end"] \in Stop
    BY <1>1 DEF Stop, StopPhase
  <2> QED
    BY <1>1, <1>6, <2>1, <2>2, KeepType, HoldStopTyped, NothingInHandType
    DEF NotifyLead, TypeOK, ClaimedWake
<1>7. CASE FinishStarting(p)
  BY <1>1, <1>7, KeepType, HoldStopTyped, NothingInHandType
  DEF FinishStarting, TypeOK, ClaimedWake
<1> QED
  BY <1>2, <1>3, <1>4, <1>5, <1>6, <1>7 DEF CancelChild

LEMMA PauseSlotTyped == ASSUME Typed, NEW p \in Stoppers, PauseSlot(p) PROVE Typed'
<1> USE DEF Typed
<1>1. stops[p] \in Stop /\ run \in RunRecord /\ stops[p].slot \in Slots
  BY DEF TypeOK, Stop
<1> DEFINE s == stops[p].slot
           quiet == PausePending(run, s)
<1>2. quiet \in RunRecord
  BY <1>1, PausePendingType
<1>3. ASSUME NEW target \in Slots, CheckPause(p, target) PROVE Typed'
  <2>1. [NoStop EXCEPT !.phase = "pauseChecked", !.slot = target] \in Stop
    BY NothingInHandType DEF Stop, StopPhase
  <2> QED
    BY <1>3, <2>1, HoldStopTyped DEF CheckPause, TypeOK, ClaimedWake
<1>4. CASE BeginPause(p)
  <2> DEFINE looked == [stops[p] EXCEPT !.phase = "pauseCancel", !.turn = run.active[s]]
             telling == [stops[p] EXCEPT !.phase = "notify"]
             paused == [quiet EXCEPT !.starting[s] = "none"]
  <2>1. looked \in Stop /\ telling \in Stop
    BY <1>1 DEF Stop, StopPhase, RunRecord
  <2>2. /\ Keep(run) \/ Keep(paused)
        /\ HoldStop(p, NoStop) \/ HoldStop(p, looked) \/ HoldStop(p, telling)
        /\ UNCHANGED <<lastRun, calls, turns>>
    BY <1>4 DEF BeginPause
  <2> HIDE DEF quiet
  <2>3. paused \in RunRecord
    BY <1>1, <1>2 DEF RunRecord
  <2> HIDE DEF looked, telling, paused
  <2> QED
    BY <1>1, <2>1, <2>2, <2>3, KeepType, HoldStopTyped, NothingInHandType
    DEF TypeOK, ClaimedWake
<1>5. CASE FinishPause(p)
  <2> DEFINE told == [stops[p] EXCEPT !.phase = "notify", !.turn = NoTurn]
             paused == [quiet EXCEPT !.active[s] = NoTurn]
  <2>1. told \in Stop
    BY <1>1 DEF Stop, StopPhase
  <2>2. /\ Keep(run) \/ Keep(paused)
        /\ HoldStop(p, NoStop) \/ HoldStop(p, told)
        /\ UNCHANGED <<lastRun, calls, turns>>
    BY <1>5 DEF FinishPause
  <2> HIDE DEF quiet
  <2>3. paused \in RunRecord
    BY <1>1, <1>2 DEF RunRecord
  <2> HIDE DEF told, paused
  <2> QED
    BY <1>1, <2>1, <2>2, <2>3, KeepType, HoldStopTyped, NothingInHandType
    DEF TypeOK, ClaimedWake
<1> QED
  BY <1>3, <1>4, <1>5 DEF PauseSlot

LEMMA EndStopTyped == ASSUME Typed, NEW p \in Stoppers, EndStop(p) PROVE Typed'
BY HoldStopTyped, NothingInHandType DEF EndStop, Typed, TypeOK, ClaimedWake

LEMMA NextTyped == ASSUME Typed, [Next]_vars PROVE Typed'
<1>1. CASE Request
  BY <1>1, RequestTyped
<1>2. ASSUME NEW s \in Loops, Look(s) \/ Execute(s) \/ Finalize(s) PROVE Typed'
  BY <1>2, SlotsAssumption, LookTyped, ExecuteTyped, FinalizeTyped
<1>3. ASSUME NEW p \in Stoppers, CancelRun(p) \/ CancelChild(p) \/ PauseSlot(p) \/ EndStop(p)
      PROVE  Typed'
  BY <1>3, CancelRunTyped, CancelChildTyped, PauseSlotTyped, EndStopTyped
<1>4. CASE UNCHANGED vars
  BY <1>4 DEF vars, Typed, TypeOK, ClaimedWake
<1> QED
  BY <1>1, <1>2, <1>3, <1>4 DEF Next

\* Every reachable state of TeamRunManager, its callers and its event loops is
\* well typed: queues hold only real wakes, a gate entry only a source that
\* can be released, and every run that was started has exactly one outcome
\* entry (the record TeamRunRecord, team_run.rs:355).
THEOREM TypeCorrect == Spec => []TypeOK
<1>1. Init => Typed
  BY InitTyped
<1>2. Typed /\ [Next]_vars => Typed'
  BY NextTyped
<1>3. Typed => TypeOK
  BY DEF Typed
<1> QED
  BY <1>1, <1>2, <1>3, PTL DEF Spec

=============================================================================
